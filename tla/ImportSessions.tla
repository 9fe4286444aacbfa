---------------------------- MODULE ImportSessions ----------------------------
(***************************************************************************)
(* The import sessions of plugin/import/session.rs: one import at a time,    *)
(* from the choice of a manifest to the end of its commit.  A preview is     *)
(* committed with its token, once, while it is fresh; the leases of          *)
(* abandoned, cancelled and expired sessions end later than the session and  *)
(* must not touch the one that follows.                                      *)
(***************************************************************************)
EXTENDS Integers, FiniteSets

CONSTANTS
    Requests, \* prepare requests; each names its owner and its token
    Life,     \* 300 seconds
    MaxTime   \* bound of the clock

ASSUME TimeAssumption == Life \in Nat /\ MaxTime \in Nat

VARIABLES
    session,   \* SessionState
    prepare,   \* each request's PrepareLease
    commit,    \* each token's CommitLease
    now,
    issued,    \* history: when a token was published
    cancelled, \* history: tokens whose preview was cancelled
    commits    \* history: how often a token was admitted to commit

vars == <<session, prepare, commit, now, issued, cancelled, commits>>

TypeOK ==
    /\ session \in [state : {"idle", "preparing", "ready", "committing"},
                    owner : Requests \cup {0}, until : 0 .. MaxTime + Life]
    /\ prepare \in [Requests -> {"none", "held", "published", "dropped"}]
    /\ commit \in [Requests -> BOOLEAN]
    /\ now \in 0 .. MaxTime
    /\ issued \in [Requests -> -1 .. MaxTime]
    /\ cancelled \subseteq Requests
    /\ commits \in [Requests -> Nat]

Idle == [state |-> "idle", owner |-> 0, until |-> 0]
State(s, r, until) == [state |-> s, owner |-> r, until |-> until]
Owned(s, r) == session.state = s /\ session.owner = r

(* expire, with which every request begins.                                 *)
Expired == session.state = "ready" /\ now >= session.until
Current == IF Expired THEN Idle ELSE session

(* reserve_prepare.                                                         *)
Reserve(r) ==
    /\ prepare[r] = "none"
    /\ \/ /\ Current.state = "idle"
          /\ session' = State("preparing", r, 0)
          /\ prepare' = [prepare EXCEPT ![r] = "held"]
       \/ /\ Current.state # "idle"
          /\ session' = Current
          /\ UNCHANGED prepare
    /\ UNCHANGED <<commit, now, issued, cancelled, commits>>

(* run_prepare has a manifest and an available catalog: publish.  The lease *)
(* is dropped after it.                                                      *)
Publish(r) ==
    /\ prepare[r] = "held" /\ Owned("preparing", r)
    /\ session' = State("ready", r, now + Life)
    /\ prepare' = [prepare EXCEPT ![r] = "published"]
    /\ issued' = [issued EXCEPT ![r] = now]
    /\ UNCHANGED <<commit, now, cancelled, commits>>

(* Drop for PrepareLease: also when nothing was chosen or a step failed.    *)
\* Mutant: the lease ends whatever session is there.
DropPrepare_AnySession(r) ==
    /\ prepare[r] \in {"held", "published"}
    /\ session' = Idle
    /\ prepare' = [prepare EXCEPT ![r] = "dropped"]
    /\ UNCHANGED <<commit, now, issued, cancelled, commits>>
DropPrepare(r) ==
    /\ prepare[r] \in {"held", "published"}
    /\ session' = IF Owned("preparing", r) THEN Idle ELSE session
    /\ prepare' = [prepare EXCEPT ![r] = "dropped"]
    /\ UNCHANGED <<commit, now, issued, cancelled, commits>>

(* claim_commit with the token of a preview.                                *)
Claim(r) ==
    /\ issued[r] # -1
    /\ \/ /\ Current.state = "ready" /\ Current.owner = r
          /\ session' = State("committing", r, 0)
          /\ commit' = [commit EXCEPT ![r] = TRUE]
          /\ commits' = [commits EXCEPT ![r] = @ + 1]
       \/ /\ ~(Current.state = "ready" /\ Current.owner = r)
          /\ session' = Current
          /\ UNCHANGED <<commit, commits>>
    /\ UNCHANGED <<prepare, now, issued, cancelled>>

(* cancel: refused while a commit runs.                                     *)
Cancel(r) ==
    /\ issued[r] # -1
    /\ \/ /\ Current.state = "ready" /\ Current.owner = r
          /\ session' = Idle /\ cancelled' = cancelled \cup {r}
       \/ /\ ~(Current.state = "ready" /\ Current.owner = r)
          /\ session' = Current
          /\ UNCHANGED cancelled
    /\ UNCHANGED <<prepare, commit, now, issued, commits>>

(* Drop for CommitLease: the commit ended, one way or another.              *)
DropCommit(r) ==
    /\ commit[r]
    /\ session' = IF Owned("committing", r) THEN Idle ELSE session
    /\ commit' = [commit EXCEPT ![r] = FALSE]
    /\ UNCHANGED <<prepare, now, issued, cancelled, commits>>

Tick ==
    /\ now < MaxTime
    /\ now' = now + 1
    /\ UNCHANGED <<session, prepare, commit, issued, cancelled, commits>>

Init ==
    /\ session = Idle /\ now = 0 /\ cancelled = {}
    /\ prepare = [r \in Requests |-> "none"] /\ commit = [r \in Requests |-> FALSE]
    /\ issued = [r \in Requests |-> -1] /\ commits = [r \in Requests |-> 0]

Next ==
    \/ \E r \in Requests : \/ Reserve(r) \/ Publish(r) \/ DropPrepare(r) \/ Claim(r)
                           \/ Cancel(r) \/ DropCommit(r)
    \/ Tick

Spec == Init /\ [][Next]_vars
-----------------------------------------------------------------------------
(* One import is under way at a time, whatever leases are still to be       *)
(* dropped.                                                                  *)
OneImport == Cardinality({r \in Requests : prepare[r] = "held"} \cup {r \in Requests : commit[r]}) <= 1

(* A preview is committed at most once, and not after it was cancelled.     *)
CommitsOnce ==
    \A r \in Requests : commits[r] <= 1 /\ (r \in cancelled => commits[r] = 0)

(* A session that is under way has its lease, which will end it.            *)
SessionEnds ==
    /\ session.state = "preparing" => prepare[session.owner] = "held"
    /\ session.state = "committing" => commit[session.owner]

(* Import sessions: one import at a time, a preview is committed once and   *)
(* not after it was cancelled, and every session under way has the lease     *)
(* that ends it (plugin/import/session.rs).                                  *)
SessionsSafe == TypeOK /\ OneImport /\ CommitsOnce /\ SessionEnds
=============================================================================
