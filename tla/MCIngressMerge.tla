--------------------------- MODULE MCIngressMerge ---------------------------
(***************************************************************************)
(* Checks the merge over every table of up to MaxRules rules above the     *)
(* catch-all and every set of desired roots for two hostnames.           *)
(***************************************************************************)
EXTENDS IngressMerge

const_Hostnames == 1 .. 2

(***************************************************************************)
(* The inputs, grown one element at a time: `table` is the remote ingress, *)
(* which ends in its one catch-all as Cloudflare requires or is empty (a   *)
(* tunnel that was just created), `desired` what the planner asks for.     *)
(***************************************************************************)
VARIABLES table, desired

mergeVars == <<table, desired>>

CONSTANT MaxRules   \* bound on the rules before the catch-all

ASSUME MaxRulesNat == MaxRules \in Nat

MergeIdle == table = <<>> /\ desired = <<>>

MergeInit == table \in {<<>>, <<CatchAll>>} /\ desired = <<>>

(* The operator (or an earlier cycle) added a rule above the catch-all.    *)
AddRule ==
  /\ table # <<>> /\ Len(table) <= MaxRules
  /\ desired = <<>>
  /\ \E r \in {q \in Rule : q.service # NotFound /\ (Hostless(q) => q.path /\ ~q.extra)} :
       table' = Front(table) \o <<r, Last(table)>>
  /\ UNCHANGED desired

(* The planner asks for one more root. *)
AddDesired ==
  /\ \E h \in Hostnames \ DOMAIN desired, 
         o \in [service : Targets, req : Reqs \cup {NoReq}, extra : {FALSE}] :
       desired' = [g \in DOMAIN desired \cup {h} |-> IF g = h THEN o ELSE desired[g]]
  /\ UNCHANGED table

MergeNext == AddRule \/ AddDesired
-----------------------------------------------------------------------------
(***************************************************************************)
(* Properties of the merge, over every table and every desired roots.      *)
(***************************************************************************)
Merged == MergeIngress(table, desired)

RootsOf(rules, h) ==
  FoldLeft(LAMBDA roots, r : IF IsRoot(r) /\ r.host = h THEN Append(roots, r) ELSE roots,
           <<>>, rules)

(* The rules without the first root of each host in S. *)
WithoutFirstRoots(rules, S) ==
  FoldLeft(LAMBDA m, r : IF IsRoot(r) /\ r.host \in S \ m.past
                           THEN [m EXCEPT !.past = @ \cup {r.host}]
                           ELSE [m EXCEPT !.rest = Append(@, r)],
           [past |-> {}, rest |-> <<>>], rules).rest

(* The first root of h comes after a rule without a hostname. *)
Behind(h) ==
  \E i, j \in DOMAIN table :
    /\ i < j /\ Hostless(table[i]) /\ IsRoot(table[j]) /\ table[j].host = h
    /\ \A k \in 1 .. j - 1 : ~(IsRoot(table[k]) /\ table[k].host = h)

(* The first root of every host is replaced by the desired one, or removed *)
(* when none is desired, and the other roots of that host are untouched:   *)
(* no stale originRequest survives, no desired host is dropped or doubled. *)
(* The replacement keeps the fields the synchronizer does not know, except *)
(* for a root moved ahead of a rule without a hostname, which loses them.  *)
(* (domain/ingress.py: "Replace the first root per hostname".)             *)
RootsAsPlanned ==
  \A h \in Hostnames :
    LET before == RootsOf(table, h) IN
    RootsOf(Merged, h) =
      (IF h \notin DOMAIN desired THEN <<>>
       ELSE IF before = <<>> THEN <<NewRoot(h, desired[h])>>
       ELSE <<[NewRoot(h, desired[h]) EXCEPT !.extra = before[1].extra /\ ~Behind(h)]>>)
        \o (IF before = <<>> THEN <<>> ELSE Tail(before))

(* Everything the synchronizer does not manage - path rules, duplicate     *)
(* roots, hostless rules - keeps its content and relative order: the merge *)
(* is lossless (docs/architecture-and-safety.md, "Root-route collisions"). *)
RestKeptInOrder ==
  WithoutFirstRoots(Merged, DOMAIN desired) =
    WithoutFirstRoots(table, Hostnames)
      \o (IF \E i \in DOMAIN table : Hostless(table[i]) THEN <<>> ELSE <<CatchAll>>)

(* A desired root is never behind a rule without a hostname, which could   *)
(* match the host's requests first, and the table still ends in the        *)
(* catch-all Cloudflare requires.                                          *)
DesiredRootsReachable ==
  /\ Merged # <<>> /\ Last(Merged) = CatchAll
  /\ \A h \in DOMAIN desired : \E i \in DOMAIN Merged :
        /\ IsRoot(Merged[i]) /\ Merged[i].host = h
        /\ \A j \in 1 .. i : ~Hostless(Merged[j])

(* What the next cycle computes from the table this cycle wrote is that    *)
(* table, so the executor's comparison finds nothing to write: unchanged   *)
(* services do not make the tunnel configuration churn.  (Not so when a    *)
(* host that is removed has a second root: each cycle removes one.)        *)
MergeSettles ==
  (\A h \in Hostnames \ DOMAIN desired : Len(RootsOf(table, h)) <= 1)
    => /\ MergeIngress(Merged, desired) = Merged
       /\ MergeIngress(Merged, RootIndex(Merged)) = Merged
=============================================================================
