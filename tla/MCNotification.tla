----------------------------- MODULE MCNotification -----------------------------
(***************************************************************************)
(* The notification center under four kinds of load: `part' picks the      *)
(* inputs and the bounds.                                                   *)
(***************************************************************************)
EXTENDS Integers, Sequences, FiniteSets

VARIABLES part, file, disk, seen, incidents, orders, configured, up, now, event, toastAt,
          pager, used, lost

center == <<file, disk, seen, incidents, orders, configured, up, now, event, toastAt,
            pager, used, lost>>
vars   == <<part, center>>

Empty == [rev |-> 0, items |-> {}, index |-> <<>>]

Edge(id, what, inc, at) ==
  LET src == [what |-> what, inc |-> inc, names |-> {1}]
  IN  [id |-> id, scope |-> "a", topic |-> src, src |-> src, created |-> at, updated |-> at,
       read |-> 0, count |-> 1]

\* Files of a version that kept no index, or of one that began to keep it later.
OldFiles ==
  { [rev |-> 0, items |-> {Edge(3, "down", 3, 1)}, index |-> <<>>],
    [rev |-> 0, items |-> {Edge(3, "down", 3, 2), Edge(2, "up", 3, 2)}, index |-> <<>>],
    [rev |-> 0, items |-> {Edge(3, "down", 3, 2), Edge(2, "up", 3, 2)},
     index |-> <<[scope |-> "a", src |-> Edge(2, "up", 3, 2).src, id |-> 2]>>] }

Plain(n, k) == [topic |-> [what |-> "event", inc |-> n, names |-> {}],
                src |-> [what |-> "event", inc |-> n, names |-> {k}]]

Client == [topic |-> [what |-> "client", inc |-> 4, names |-> {}],
           src |-> [what |-> "client", inc |-> 4, names |-> {}]]

\* Outages of one channel, files of older versions, saves that fail but land.
I == INSTANCE NotificationCenter WITH Accounts <- {"a"}, Channels <- {1}, Sightings <- {},
       Statuses <- {}, Events <- {}, Ids <- 1..4, Times <- {1, 3}, Retention <- 1,
       ToastInterval <- 1, MaxItems <- 3, MaxIndexScope <- 3, MaxIndexTotal <- 3, MaxBytes <- 6,
       MaxRevision <- 3, Legacy <- {Empty} \cup OldFiles,
       SaveResults <- {"ok", "landed"}, PageLimit <- 0
\* One order under its three names.
O == INSTANCE NotificationCenter WITH Accounts <- {"a"}, Channels <- {2},
       Sightings <- {{1, 2}, {1, 3}}, Statuses <- {"New", "Filled", "Rejected"}, Events <- {},
       Ids <- 1..2, Times <- {1}, Retention <- 1, ToastInterval <- 1, MaxItems <- 2,
       MaxIndexScope <- 2, MaxIndexTotal <- 2, MaxBytes <- 4, MaxRevision <- 2,
       Legacy <- {Empty}, SaveResults <- {"ok", "lost", "landed"}, PageLimit <- 0
\* A file of an earlier run.
Kept(id) ==
  [id |-> id, scope |-> "a", topic |-> Plain(id, 1).topic, src |-> Plain(id, 1).src,
   created |-> 1, updated |-> 1, read |-> 0, count |-> 1]
Earlier ==
  [rev |-> 0, items |-> {Kept(2), Kept(3)},
   index |-> <<[scope |-> "a", src |-> Kept(2).src, id |-> 2],
               [scope |-> "a", src |-> Kept(3).src, id |-> 3]>>]
\* Two accounts, every cap within reach, inputs that update a record.
C == INSTANCE NotificationCenter WITH Accounts <- {"a", "b"}, Channels <- {2}, Sightings <- {},
       Statuses <- {}, Events <- {Plain(2, 2), Plain(1, 1), Client},
       Ids <- 1..4, Times <- {1}, Retention <- 2, ToastInterval <- 1, MaxItems <- 2,
       MaxIndexScope <- 3, MaxIndexTotal <- 3, MaxBytes <- 5, MaxRevision <- 4,
       Legacy <- {Earlier}, SaveResults <- {"ok"}, PageLimit <- 0
\* A client that pages while records come and go.
P == INSTANCE NotificationCenter WITH Accounts <- {"a"}, Channels <- {2}, Sightings <- {},
       Statuses <- {}, Events <- {Plain(1, 1), Plain(4, 1)}, Ids <- 1..4,
       Times <- {1}, Retention <- 2, ToastInterval <- 1, MaxItems <- 4, MaxIndexScope <- 4,
       MaxIndexTotal <- 4, MaxBytes <- 8, MaxRevision <- 3, Legacy <- {Earlier},
       SaveResults <- {"ok"}, PageLimit <- 1

Init ==
  \/ part = "incidents" /\ I!Init
  \/ part = "orders" /\ O!Init
  \/ part = "caps" /\ C!Init /\ configured = {"a", "b"}
  \/ part = "pages" /\ P!Init

Next ==
  /\ UNCHANGED part
  /\ \/ part = "incidents" /\ I!Next
     \/ part = "orders" /\ O!Next
     \/ part = "caps" /\ C!Next
     \/ part = "pages" /\ P!Next

Spec == Init /\ [][Next]_vars

---------------------------------------------------------------------------
(***************************************************************************)
(* The file in force is always one the store accepts, its tables are what  *)
(* a restart would derive from it, the disk never falls behind it, and     *)
(* neither an outage nor the end of an order is announced twice            *)
(* (NotificationService, prepare_file_for_publish, load_internal).         *)
(***************************************************************************)
CenterSafe ==
  CASE part = "incidents" -> I!CenterSafe
    [] part = "orders" -> O!CenterSafe
    [] part = "caps" -> C!CenterSafe
    [] part = "pages" -> P!CenterSafe

\* Paging by cursor lists every record once (NotificationService::list).
PagesExact == P!PagesExact

\* A publication that has to make room drops the oldest records (evict_*, reserve_*).
DropsOldest == [][part = "caps" => C!DropsOldest]_vars
=============================================================================
