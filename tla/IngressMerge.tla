---------------------------- MODULE IngressMerge ----------------------------
(***************************************************************************)
(* The ordered ingress table of one Cloudflare Tunnel and the merge that   *)
(* rewrites it: domain/ingress.py, and the root-route index the planner    *)
(* builds over the same table (domain/planner.py).                         *)
(*                                                                         *)
(* A rule is [host, path, service, req].  host = NoHost for a rule without *)
(* a hostname, path tells a path rule from a root rule, req is the         *)
(* originRequest block (NoReq when absent), extra tells whether the rule   *)
(* has fields the synchronizer does not know.  Cloudflare applies the first  *)
(* rule that matches, so the order is the meaning.  A hostname is the      *)
(* rank it has in the order `sorted` uses.                                 *)
(***************************************************************************)
EXTENDS Integers, Sequences, FiniteSets, SequencesExt

CONSTANTS
  Hostnames,  \* hostnames, as ranks in their lexicographic order
  Targets,    \* origin service strings
  Reqs,       \* originRequest blocks
  NoHost,     \* "this rule has no hostname"
  NoReq,      \* "this rule has no originRequest"
  NotFound    \* the service string http_status:404

ASSUME HostsAreRanks == Hostnames \subseteq Int
ASSUME SentinelsDistinct ==
  NoHost \notin Hostnames /\ NoReq \notin Reqs /\ NotFound \notin Targets

Rule == [host : Hostnames \cup {NoHost}, path : BOOLEAN,
         service : Targets \cup {NotFound}, req : Reqs \cup {NoReq}, extra : BOOLEAN]

(* A desired root, as the planner hands it over: the pending dict is keyed *)
(* by hostname, so desired roots are a function from some hosts.  Only an  *)
(* existing rule that the planner hands back whole has unknown fields.     *)
Origin == [service : Targets \cup {NotFound}, req : Reqs \cup {NoReq}, extra : BOOLEAN]

Hostless(r) == r.host = NoHost

IsRoot(r) == ~Hostless(r) /\ ~r.path

NewRoot(h, o) ==
  [host |-> h, path |-> FALSE, service |-> o.service, req |-> o.req, extra |-> o.extra]

(* The first root of a host takes the desired fields and keeps the unknown.*)
Replacement(r, o) ==
  [r EXCEPT !.service = o.service, !.req = o.req, !.extra = @ \/ o.extra]

Sorted(S) == CHOOSE s \in SetToSeqs(S) : \A i, j \in DOMAIN s : i < j => s[i] < s[j]

(* The rules of the hosts of S, in sorted order. *)
SortedRoots(desired, S) ==
  [i \in DOMAIN Sorted(S) |-> NewRoot(Sorted(S)[i], desired[Sorted(S)[i]])]

(* Bugs that MergeStep could have: the second root of a host is taken for  *)
(* a stale one; a path rule is taken for the root; desired roots are only  *)
(* added at the end, behind the rules without a hostname.                  *)
MergeStepDropsDuplicates(desired, m, r) ==
  IF Hostless(r) THEN
    [m EXCEPT !.out = @ \o SortedRoots(desired, m.pending) \o <<r>>, !.pending = {}]
  ELSE IF r.path THEN [m EXCEPT !.out = Append(@, r)]
  ELSE [m EXCEPT !.out = IF r.host \in m.pending
                           THEN Append(@, Replacement(r, desired[r.host])) ELSE @,
                 !.pending = @ \ {r.host}]

MergeStepIgnoresPaths(desired, m, r) ==
  IF Hostless(r) THEN
    [m EXCEPT !.out = @ \o SortedRoots(desired, m.pending) \o <<r>>, !.pending = {}]
  ELSE IF r.host \in m.seen THEN [m EXCEPT !.out = Append(@, r)]
  ELSE [out     |-> IF r.host \in m.pending
                      THEN Append(m.out, Replacement(r, desired[r.host])) ELSE m.out,
        pending |-> m.pending \ {r.host},
        seen    |-> m.seen \cup {r.host}]

MergeStepAppendsRoots(desired, m, r) ==
  IF Hostless(r) \/ r.path \/ r.host \in m.seen THEN [m EXCEPT !.out = Append(@, r)]
  ELSE [out     |-> IF r.host \in m.pending
                      THEN Append(m.out, Replacement(r, desired[r.host])) ELSE m.out,
        pending |-> m.pending \ {r.host},
        seen    |-> m.seen \cup {r.host}]

(* One iteration of the loop over the existing rules.  m.pending are the   *)
(* desired hosts not placed yet, m.seen the hosts whose first root is past.*)
MergeStep(desired, m, r) ==
  IF Hostless(r) THEN
    [m EXCEPT !.out = @ \o SortedRoots(desired, m.pending) \o <<r>>, !.pending = {}]
  ELSE IF r.path \/ r.host \in m.seen THEN
    [m EXCEPT !.out = Append(@, r)]
  ELSE
    [out     |-> IF r.host \in m.pending
                   THEN Append(m.out, Replacement(r, desired[r.host]))
                   ELSE m.out,
     pending |-> m.pending \ {r.host},
     seen    |-> m.seen \cup {r.host}]

CatchAll ==
  [host |-> NoHost, path |-> FALSE, service |-> NotFound, req |-> NoReq, extra |-> FALSE]

(* A bug MergeIngress could have: the catch-all is appended unconditionally.*)
MergeIngressRepeatsCatchAll(existing, desired) ==
  LET start == [out |-> <<>>, pending |-> DOMAIN desired, seen |-> {}]
      done  == FoldLeft(LAMBDA m, r : MergeStep(desired, m, r), start, existing)
  IN  Append(done.out \o SortedRoots(desired, done.pending), CatchAll)

(* merge_ingress: replace the first root of each hostname, keep the rest.  *)
MergeIngress(existing, desired) ==
  LET start == [out |-> <<>>, pending |-> DOMAIN desired, seen |-> {}]
      done  == FoldLeft(LAMBDA m, r : MergeStep(desired, m, r), start, existing)
      all   == done.out \o SortedRoots(desired, done.pending)
  IN  IF \E i \in DOMAIN all : Hostless(all[i]) THEN all ELSE Append(all, CatchAll)

(* existing_ingress_by_host: the first root rule of each host that has one.*)
RootIndex(rules) ==
  LET at(h) == {i \in DOMAIN rules : IsRoot(rules[i]) /\ rules[i].host = h}
      first(h) == CHOOSE i \in at(h) : \A j \in at(h) : i <= j
  IN  [h \in {g \in Hostnames : at(g) # {}} |->
         [service |-> rules[first(h)].service, req |-> rules[first(h)].req,
          extra |-> rules[first(h)].extra]]
=============================================================================
