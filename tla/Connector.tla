----------------------------- MODULE Connector ------------------------------
(***************************************************************************)
(* The connector's token: ChangeExecutor.activate with FileTokenStore and  *)
(* DockerConnectorRestarter, and the cloudflared container, which reads    *)
(* the file when it starts and is restarted by Docker when it exits.       *)
(*                                                                         *)
(* A file without a whole token (missing, empty, cut short) is None: the   *)
(* program takes it for an old one, the connector cannot start from it.    *)
(***************************************************************************)
EXTENDS Naturals

CONSTANTS
  MaxToken,   \* bound: the tokens Cloudflare hands out are 1 .. MaxToken
  None

ASSUME ConnectorConstants == MaxToken \in Nat \ {0} /\ None \notin Nat

Tokens == 1 .. MaxToken

VARIABLES
  issued,    \* the token Cloudflare hands out
  fetched,   \* the token the current or last cycle read, None in a new process
  file,      \* the token file
  owed,      \* _pending_token
  doing,     \* the next step of activate: "write", "flush", "restart"; "done", "unwritten"
  dialled,   \* the token the running connector started with, None while it is down
  forgotten  \* history: the process died owing a restart, and there was none since

connectorVars == <<issued, fetched, file, owed, doing, dialled, forgotten>>

ConnectorType ==
  /\ issued \in Tokens
  /\ {fetched, file, owed, dialled} \subseteq Tokens \cup {None}
  /\ doing \in {"write", "flush", "restart", "done", "unwritten"}
  /\ forgotten \in BOOLEAN

ConnectorInit ==
  /\ issued = 1 /\ fetched = None /\ owed = None
  /\ file \in {None, 1}
  /\ dialled \in {None, file}
  /\ doing = "done" /\ forgotten = FALSE

(* A bug: a restart that is still owed is not looked at. *)
ActivateForgetsDebt ==
  /\ fetched' = issued
  /\ doing' = IF file # issued THEN "write" ELSE "done"
  /\ UNCHANGED <<issued, file, owed, dialled, forgotten>>

(* The token is read from Cloudflare and compared with the file.           *)
Activate ==
  /\ fetched' = issued
  /\ doing' = IF file # issued THEN "write" ELSE IF owed = issued THEN "restart" ELSE "done"
  /\ UNCHANGED <<issued, file, owed, dialled, forgotten>>

(* open(path, "w") truncates the file; what is written arrives later.      *)
WriteBegins ==
  /\ doing = "write" /\ doing' = "flush"
  /\ file' = None
  /\ UNCHANGED <<issued, fetched, owed, dialled, forgotten>>

WriteEnds ==
  /\ doing = "flush" /\ doing' = "restart"
  /\ file' = fetched
  /\ UNCHANGED <<issued, fetched, owed, dialled, forgotten>>

(* The file cannot be opened, or not be written after it was truncated: a  *)
(* log line, and no restart.                                               *)
WriteFails ==
  /\ doing \in {"write", "flush"} /\ doing' = "unwritten"
  /\ UNCHANGED <<issued, fetched, file, owed, dialled, forgotten>>

Restart ==
  /\ doing = "restart" /\ doing' = "done"
  /\ dialled' = file /\ owed' = None /\ forgotten' = FALSE
  /\ UNCHANGED <<issued, fetched, file>>

(* A bug: a restart that failed is not tried again. *)
RestartFailsForgotten(happened) ==
  /\ doing = "restart" /\ doing' = "done"
  /\ dialled' = IF happened THEN file ELSE dialled
  /\ forgotten' = IF happened THEN FALSE ELSE forgotten
  /\ UNCHANGED <<issued, fetched, file, owed>>

(* The request fails, or the reply to a restart that happened is lost.     *)
RestartFails(happened) ==
  /\ doing = "restart" /\ doing' = "done"
  /\ dialled' = IF happened THEN file ELSE dialled
  /\ forgotten' = IF happened THEN FALSE ELSE forgotten
  /\ owed' = fetched
  /\ UNCHANGED <<issued, fetched, file>>

Rotates ==
  /\ issued < MaxToken
  /\ issued' = issued + 1
  /\ UNCHANGED <<fetched, file, owed, doing, dialled, forgotten>>

ConnectorExits ==
  /\ dialled' = None
  /\ UNCHANGED <<issued, fetched, file, owed, doing, forgotten>>

(* Docker starts it again, and it stays up if it finds a token.            *)
ConnectorStarts ==
  /\ dialled = None /\ file # None
  /\ dialled' = file /\ forgotten' = FALSE
  /\ UNCHANGED <<issued, fetched, file, owed, doing>>

(* The synchronizer dies.  The debt was in memory only.                    *)
ConnectorCrash ==
  /\ fetched' = None /\ owed' = None /\ doing' = "done"
  /\ forgotten' = (forgotten \/ owed # None \/ doing = "restart")
  /\ UNCHANGED <<issued, file, dialled>>
=============================================================================
