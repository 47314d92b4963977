----------------------------- MODULE ZoneReads ------------------------------
(***************************************************************************)
(* How a cycle reads the zone: RemoteFetcher.fetch_dns (application/       *)
(* sync.py) over the paginated GET of the Cloudflare client.  The zone is  *)
(* a sequence of CNAMEs that others edit between two requests.             *)
(***************************************************************************)
EXTENDS Naturals, SequencesExt

CONSTANTS
  Names,      \* names that may have a CNAME
  Wanted,     \* the hostnames of the discovered services
  PageSize,   \* records per page
  MaxEdits    \* bound: edits while one cycle reads

ASSUME ReadConstants == Wanted \subseteq Names /\ PageSize \in Nat \ {0} /\ MaxEdits \in Nat

VARIABLES
  zone,      \* the CNAMEs, in the order Cloudflare lists them
  ours,      \* the names whose CNAME points at the tunnel
  phase,     \* which read is next
  page, pages,   \* the pages read, and how many there are says the first
  got,       \* the names of the records read
  asked,     \* hosts that were read by name
  edits, touched, \* history: how many edits, and of which names
  cut        \* history: a page was no list, and the rest was not asked for

readVars == <<zone, ours, phase, page, pages, got, asked, edits, touched, cut>>

Zones == {z \in BoundedSeq(Names, 3) : IsInjective(z)}

Page(n) == {zone[i] : i \in {j \in DOMAIN zone : (n - 1) * PageSize < j /\ j <= n * PageSize}}

PageCount == (Len(zone) + PageSize - 1) \div PageSize

Pointing == ToSet(zone) \cap ours

ReadInit ==
  /\ zone \in Zones
  /\ ours \in SUBSET Names
  /\ phase = "batch" /\ page = 0 /\ pages = 1 /\ got = {} /\ asked = {}
  /\ edits = 0 /\ touched = {} /\ cut = FALSE

(* Somebody else creates or deletes a record. *)
Edited ==
  /\ edits < MaxEdits /\ phase \notin {"done", "raised"}
  /\ edits' = edits + 1
  /\ \E n \in Names :
       /\ touched' = touched \cup {n}
       /\ zone' = IF n \in ToSet(zone) THEN RemoveFirst(zone, n) ELSE Append(zone, n)
  /\ UNCHANGED <<ours, phase, page, pages, got, asked, cut>>

(* One page of the listing of all CNAMEs.  The first says how many pages   *)
(* there are.                                                              *)
ReadPage ==
  /\ phase = "batch" /\ page < pages
  /\ page' = page + 1
  /\ pages' = IF page = 0 THEN PageCount ELSE pages
  /\ got' = got \cup Page(page + 1)
  /\ UNCHANGED <<zone, ours, phase, asked, edits, touched, cut>>

(* A later page that is no list ends the listing without an error.         *)
PageIsNoList ==
  /\ phase = "batch" /\ 1 <= page /\ page < pages
  /\ pages' = page /\ cut' = TRUE
  /\ UNCHANGED <<zone, ours, phase, page, got, asked, edits, touched>>

(* A bug: hosts that the listing misses are not asked for by name.         *)
BatchEndsTrusted ==
  /\ phase = "batch" /\ page >= pages
  /\ got' = got \cap (ours \cup Wanted)
  /\ phase' = IF got' = {} THEN "seed" ELSE "done"
  /\ UNCHANGED <<zone, ours, page, pages, asked, edits, touched, cut>>

(* The listing is filtered; an empty one is followed by a query for what   *)
(* points at the tunnel, and one that misses services by queries by name.  *)
BatchEnds ==
  /\ phase = "batch" /\ page >= pages
  /\ got' = got \cap (ours \cup Wanted)
  /\ phase' = IF got' = {} THEN "seed" ELSE IF Wanted \subseteq got' THEN "done" ELSE "hosts"
  /\ UNCHANGED <<zone, ours, page, pages, asked, edits, touched, cut>>

Seed ==
  /\ phase = "seed"
  /\ got' = Pointing
  /\ phase' = IF Wanted \subseteq got' THEN "done" ELSE "hosts"
  /\ UNCHANGED <<zone, ours, page, pages, asked, edits, touched, cut>>

AskFor(h) ==
  /\ phase = "hosts" /\ h \in Wanted \ (got \cup asked)
  /\ got' = got \cup ({h} \cap ToSet(zone))
  /\ asked' = asked \cup {h}
  /\ UNCHANGED <<zone, ours, phase, page, pages, edits, touched, cut>>

HostsEnd ==
  /\ phase = "hosts" /\ Wanted \subseteq got \cup asked
  /\ phase' = "done"
  /\ UNCHANGED <<zone, ours, page, pages, got, asked, edits, touched, cut>>

(* Any of these reads raises: everything read so far is dropped, and what  *)
(* points at the tunnel and every service are queried for one by one.      *)
BatchRaises ==
  /\ phase \in {"batch", "seed", "hosts"}
  /\ phase' = "seed again" /\ got' = {} /\ asked' = {}
  /\ UNCHANGED <<zone, ours, page, pages, edits, touched, cut>>

SeedAgain ==
  /\ phase = "seed again"
  /\ got' = Pointing
  /\ phase' = IF Wanted = {} THEN "done" ELSE "hosts again"
  /\ UNCHANGED <<zone, ours, page, pages, asked, edits, touched, cut>>

AskAgain(h) ==
  /\ phase = "hosts again" /\ h \in Wanted \ asked
  /\ got' = got \cup ({h} \cap ToSet(zone))
  /\ asked' = asked \cup {h}
  /\ phase' = IF asked' = Wanted THEN "done" ELSE phase
  /\ UNCHANGED <<zone, ours, page, pages, edits, touched, cut>>

(* The second attempt raises too, and the cycle ends. *)
AgainRaises ==
  /\ phase \in {"seed again", "hosts again"}
  /\ phase' = "raised"
  /\ UNCHANGED <<zone, ours, page, pages, got, asked, edits, touched, cut>>

ReadNext ==
  \/ Edited \/ ReadPage \/ PageIsNoList \/ BatchEnds \/ Seed \/ HostsEnd \/ BatchRaises
  \/ SeedAgain \/ AgainRaises
  \/ \E h \in Wanted : AskFor(h) \/ AskAgain(h)
-----------------------------------------------------------------------------
(* A cycle that plans has seen the record of every service that had one    *)
(* all along, however pages shift under edits, end early or raise: a plan  *)
(* that takes the host for recordless would create what Cloudflare refuses *)
(* in every such cycle.  A listing that nobody edited and that was not cut *)
(* short is what one atomic read would have returned (Planner!FetchDns),   *)
(* whichever of its ways was taken.                                        *)
ReadsSeeEveryService ==
  phase = "done" =>
    /\ (Wanted \cap ToSet(zone)) \ touched \subseteq got
    /\ edits = 0 /\ ~cut => got = ToSet(zone) \cap (ours \cup Wanted)
=============================================================================
