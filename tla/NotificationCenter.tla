-------------------------- MODULE NotificationCenter --------------------------
(***************************************************************************)
(* The notification service: one file of records and an index of the source *)
(* events they came from, changed under one mutex by publishers (orders,    *)
(* connection and environment probes, risk blocks, expired sessions, client *)
(* failures), by the user and by maintenance, saved after every change.     *)
(*                                                                          *)
(* Beside the file the service keeps what it derives from it: the source    *)
(* events seen, the outage that is open for a channel, the last state of    *)
(* an order.  Those are rebuilt when the program starts, and partly by      *)
(* housekeeping.  The wall clock may step either way.                       *)
(*                                                                          *)
(* A source event or a dedupe key is [what, inc, names]: an outage edge     *)
(* ("down", "up") of incident inc on a channel, an order state with the     *)
(* aliases of the order, or another event told apart by its number.         *)
(***************************************************************************)
EXTENDS Integers, FiniteSets, Sequences, SequencesExt

CONSTANTS
    Accounts,        \* the accounts of the program (strings)
    Channels,        \* numbers of the channels and environments that are watched
    Sightings,       \* the sets of aliases an order is observed under
    Statuses,        \* the states it is observed in, of "New", "PartiallyFilled",
                     \* "Filled", "Canceled", "Rejected"
    Events,          \* plain inputs: records [topic, src]
    Ids,             \* identifiers a record may draw; their order is that of the UUIDs
    Times,           \* readings of the wall clock, 1..n
    Retention,       \* RETENTION_MS
    ToastInterval,   \* STORAGE_FAILURE_TOAST_INTERVAL_MS
    MaxItems,        \* MAX_NOTIFICATION_PARTITION_ITEMS
    MaxIndexScope,   \* MAX_NOTIFICATION_SOURCE_INDEX_PER_SCOPE
    MaxIndexTotal,   \* MAX_NOTIFICATION_SOURCE_INDEX_TOTAL
    MaxBytes,        \* MAX_NOTIFICATION_FILE_BYTES, in records and index entries
    MaxRevision,     \* bound on the revisions explored
    Legacy,          \* files the program may find when it is first started
    SaveResults,     \* what a save may come to: "ok", "lost", "landed"
    PageLimit        \* limit of a list request; 0: nobody lists

VARIABLES
    file,       \* ServiceState.file
    disk,       \* the file a load would find
    seen,       \* ServiceState.seen_source_events
    incidents,  \* ServiceState.active_incidents, 0 for none
    orders,     \* ServiceState.order_states
    configured, \* the accounts of the settings
    up,         \* NotificationRuntime::Available
    now,        \* the wall clock
    event,      \* the last NotificationChangedEvent
    toastAt,    \* last_toast_at_ms of the failure reporter, 0 for none
    pager,      \* a client that lists page after page
    used,       \* identifiers drawn so far
    lost        \* history: channels an edge record of which has been removed

vars == <<file, disk, seen, incidents, orders, configured, up, now, event,
          toastAt, pager, used, lost>>
-----------------------------------------------------------------------------
(* Names.  Order tokens sort by their prefix: link, order, submission.       *)
Link == 1
OrderId == 2
Submission == 3

Scopes == Accounts \cup {"global"}
Keys == Accounts \X Channels

IsTerminal(status) == status \in {"Filled", "Canceled", "Rejected"}

NoOrder == [status |-> "none", notified |-> FALSE]

EmptyFile == [rev |-> 0, items |-> {}, index |-> <<>>]

NoPager == [open |-> FALSE, account |-> "global", at |-> <<0, 0>>, got |-> <<>>,
            base |-> {}, done |-> FALSE]

Larger(a, b) == IF a > b THEN a ELSE b

(* The oldest of two records: created first, or the smaller identifier.      *)
Older(r, q) == r.created < q.created \/ (r.created = q.created /\ r.id < q.id)

Oldest(S, n) == {r \in S : Cardinality({q \in S : Older(q, r)}) < n}

Newest(S, n) == {r \in S : Cardinality({q \in S : Older(r, q)}) < n}

InScope(f, s) == {r \in f.items : r.scope = s}

IdsOf(f) == {r.id : r \in f.items}

is_expired(r, t) == r.created < t - Retention

visible(a, s) == s \in {"global", a}

Entry(r, src) == [scope |-> r.scope, src |-> src, id |-> r.id]
-----------------------------------------------------------------------------
(* The file: validity, size, index.                                          *)

(* NotificationRecord::validate: its times are in order, it occurred.        *)
ValidRecord(r) ==
    /\ r.count >= 1 /\ r.created =< r.updated
    /\ r.read # 0 => r.created =< r.read /\ r.read =< r.updated

(* An entry names a record of its scope; the event that created a record     *)
(* points at that record, and a client's event at no other.                  *)
ValidEntry(f, e) ==
    /\ \E r \in f.items : /\ r.id = e.id /\ r.scope = e.scope
                          /\ e.src.what = "client" => r.src = e.src
    /\ \A r \in f.items : r.scope = e.scope /\ r.src = e.src => r.id = e.id

(* validate_file: what a save and a load accept.                             *)
ValidFile(f) ==
    /\ \A s \in Scopes : Cardinality(InScope(f, s)) =< MaxItems
    /\ \A r \in f.items : ValidRecord(r)
    /\ \A r, q \in f.items : r # q => r.id # q.id /\ <<r.scope, r.src>> # <<q.scope, q.src>>
    /\ Len(f.index) =< MaxIndexTotal
    /\ \A s \in Scopes :
         Cardinality({i \in DOMAIN f.index : f.index[i].scope = s}) =< MaxIndexScope
    /\ \A i, j \in DOMAIN f.index : i # j =>
         <<f.index[i].scope, f.index[i].src>> # <<f.index[j].scope, f.index[j].src>>
    /\ \A i \in DOMAIN f.index : ValidEntry(f, f.index[i])

notification_file_fits_serialized_limit(f) ==
    Cardinality(f.items) + Len(f.index) =< MaxBytes

cleanup_source_event_index(f) ==
    [f EXCEPT !.index = SelectSeq(@, LAMBDA e : \E r \in f.items :
                                                   r.id = e.id /\ r.scope = e.scope)]

remove_record_candidates(f, S) ==
    cleanup_source_event_index([f EXCEPT !.items = @ \ S])

rebuild_seen_source_events(f) ==
    {<<f.index[i].scope, f.index[i].src>> : i \in DOMAIN f.index}

(* The fewest of the oldest candidates whose removal is enough, or all of    *)
(* them; the code finds the number by bisection.                             *)
FewestOldest(C, enough) ==
    Oldest(C, CHOOSE k \in 0..Cardinality(C) :
                /\ k < Cardinality(C) => k \in enough
                /\ k > 0 => k - 1 \notin enough)

IndexCount(f, S) == Cardinality({i \in DOMAIN f.index : f.index[i].scope \in S})

IndexedBy(f, S, id) ==
    Cardinality({i \in DOMAIN f.index : f.index[i].scope \in S /\ f.index[i].id = id})

(* Index entries only go with their record; kept is a record that must stay. *)
evict_indexed_records_to_limit(f, S, limit, kept) ==
    LET C == {r \in f.items : r.scope \in S /\ IndexedBy(f, S, r.id) > 0 /\ r.id \notin kept}
        Without(k) == remove_record_candidates(f, Oldest(C, k))
        enough == {k \in 0..Cardinality(C) : IndexCount(Without(k), S) =< limit}
    IN  IF IndexCount(f, S) =< limit THEN f
        ELSE remove_record_candidates(f, FewestOldest(C, enough))

can_reduce_source_index_without_record(f, S, limit, id) ==
    IndexCount(f, S) =< limit \/ IndexedBy(f, S, id) =< limit

enforce_source_index_caps(f) ==
    evict_indexed_records_to_limit(
        FoldSet(LAMBDA s, g : evict_indexed_records_to_limit(g, {s}, MaxIndexScope, {}),
                f, Scopes),
        Scopes, MaxIndexTotal, {})

enforce_serialized_file_cap(f) ==
    LET Without(k) == remove_record_candidates(f, Oldest(f.items, k))
        enough == {k \in 0..Cardinality(f.items) :
                     notification_file_fits_serialized_limit(Without(k))}
    IN  IF notification_file_fits_serialized_limit(f) THEN f
        ELSE remove_record_candidates(f, FewestOldest(f.items, enough))

(* Expired records, the surplus of a partition and the partitions of         *)
(* accounts that are no longer configured.                                   *)
prune_file(f, accounts, t) ==
    LET live(s) == Newest({r \in InScope(f, s) : ~is_expired(r, t)}, MaxItems)
        keeps == {s \in Scopes : s = "global" \/ s \in accounts}
    IN  enforce_source_index_caps(
          cleanup_source_event_index([f EXCEPT !.items = UNION {live(s) : s \in keeps}]))
-----------------------------------------------------------------------------
(* Outages: the edges on file, and the incident they leave open.             *)

Edges(f) == {r \in f.items : r.src.what \in {"down", "up"}}

KeyOf(r) == <<r.scope, CHOOSE c \in Channels : c \in r.src.names>>

(* incident_creation_positions: where the entry that created a record is.    *)
Positions(f, r) == {i \in DOMAIN f.index : f.index[i] = Entry(r, r.src)}

fallback_keys(f) == {KeyOf(r) : r \in {q \in Edges(f) : Positions(f, q) = {}}}

(* Replayed in the order of the index, the incident that stays open is that  *)
(* of the last outage unless its recovery comes after it; where an entry is  *)
(* missing, the latest outage without a recovery.                            *)
rebuild_active_incidents(f) ==
    [k \in Keys |->
       LET mine == {r \in Edges(f) : KeyOf(r) = k}
           downs == {r \in mine : r.src.what = "down"}
           at(r) == CHOOSE i \in Positions(f, r) : TRUE
           recovered(d) == \E u \in mine : u.src.what = "up" /\ u.src.inc = d.src.inc
           unclosed == {d \in downs : ~recovered(d)}
           last == CHOOSE d \in downs : \A o \in downs : at(o) =< at(d)
           closed == \E u \in mine : /\ u.src.what = "up" /\ u.src.inc = last.src.inc
                                     /\ at(u) > at(last)
       IN  IF k \in fallback_keys(f)
           THEN IF unclosed = {} THEN 0
                ELSE (CHOOSE d \in unclosed : \A o \in unclosed : o = d \/ Older(o, d)).src.inc
           ELSE IF downs = {} \/ closed THEN 0 ELSE last.src.inc]

(* Files written before the index was kept: the creation entries of every    *)
(* channel with a gap are written again, recoveries without their outage     *)
(* first, then the closed incidents, then the open ones.                     *)
canonicalize_partial_incident_creation_order(f) ==
    LET gaps == fallback_keys(f)
        again == {r \in Edges(f) : KeyOf(r) \in gaps}
        pair(r, what) == \E q \in again : /\ KeyOf(q) = KeyOf(r) /\ q.src.inc = r.src.inc
                                          /\ q.src.what = what
        group(r) == IF ~pair(r, "down") THEN 0 ELSE IF pair(r, "up") THEN 1 ELSE 2
        first(r, q) ==
            LET kr == KeyOf(r)[2]
                kq == KeyOf(q)[2]
            IN  \/ kr < kq
                \/ kr = kq /\ group(r) < group(q)
                \/ kr = kq /\ group(r) = group(q) /\ group(r) # 1 /\ Older(r, q)
                \/ /\ kr = kq /\ group(r) = 1 /\ group(q) = 1
                   /\ r.src.inc < q.src.inc \/ (r.src.inc = q.src.inc /\ r.src.what = "down"
                                                                     /\ q.src.what = "up")
        kept == SelectSeq(f.index, LAMBDA e : ~\E r \in again : e = Entry(r, r.src))
        list == SetToSortSeq(again, first)
    IN  IF gaps = {} THEN f
        ELSE [f EXCEPT !.index = kept \o [i \in DOMAIN list |-> Entry(list[i], list[i].src)]]

(* Every record's own source event is in the index.                          *)
normalize_source_event_index(f) ==
    LET g == canonicalize_partial_incident_creation_order(f)
        missing == {r \in g.items : <<r.scope, r.src>> \notin rebuild_seen_source_events(g)}
        priority(r) == IF r.src.what = "down" THEN 0 ELSE IF r.src.what = "up" THEN 1 ELSE 2
        first(r, q) == \/ r.created < q.created
                       \/ r.created = q.created /\ priority(r) < priority(q)
                       \/ r.created = q.created /\ priority(r) = priority(q) /\ r.id < q.id
        list == SetToSortSeq(missing, first)
    IN  IF missing = {} THEN g ELSE
        [g EXCEPT !.index = @ \o [i \in DOMAIN list |-> Entry(list[i], list[i].src)]]

(* The orders whose final state is on file are known to be announced.        *)
rebuild_order_states(f) ==
    [k \in Accounts \X (1..3) |->
       LET mine == {r \in f.items : /\ r.scope = k[1] /\ IsTerminal(r.src.what)
                                    /\ k[2] \in r.src.names}
       IN  IF mine = {} THEN NoOrder
           ELSE [status |-> (CHOOSE r \in mine : TRUE).src.what, notified |-> TRUE]]
-----------------------------------------------------------------------------
(* Saving.  A save that fails may leave the new file behind all the same:    *)
(* the last rename is done and only the directory could not be synced.       *)

Bumped(f) == [f EXCEPT !.rev = @ + 1]

Saved(f, result) == IF result = "lost" THEN disk ELSE f

Toast(result) ==
    IF result = "ok" THEN 0
    ELSE IF toastAt = 0 \/ now - toastAt >= ToastInterval THEN now ELSE toastAt

Changed(f, kind, id) == [prev |-> f.rev, rev |-> f.rev + 1, change |-> kind, id |-> id]

(* commit_file: the new file is saved before it is in force.                 *)
CommitFile(f, kind, id, result) ==
    /\ f.rev < MaxRevision
    /\ disk' = Saved(Bumped(f), result)
    /\ toastAt' = Toast(result)
    /\ file' = IF result = "ok" THEN Bumped(f) ELSE file
    /\ event' = IF result = "ok" THEN Changed(f, kind, id) ELSE event

Remember ==
    lost' = lost \cup {KeyOf(r) : r \in {q \in Edges(file) : q.id \notin IdsOf(file')}}
-----------------------------------------------------------------------------
(* Publishing.                                                               *)

(* NotificationInput::validate: an edge belongs to one channel and is its    *)
(* own dedupe key, as is a client's event; the end of an order names it.     *)
ValidInput(in) ==
    /\ in.scope \in Accounts
    /\ in.src.what \in {"down", "up"} => Cardinality(in.src.names) = 1
    /\ in.src.what \in {"down", "up", "client"} => in.topic = in.src
    /\ IsTerminal(in.src.what) => in.topic.names \subseteq in.src.names

Target(f, in) == {r \in f.items : r.scope = in.scope /\ r.topic = in.topic}

(* prepare_file_for_publish: make room for one record and one index entry.   *)
EvictForOneMore(p, in, kept) ==
    evict_indexed_records_to_limit(
        evict_indexed_records_to_limit(p, {in.scope}, MaxIndexScope - 1, kept),
        Scopes, MaxIndexTotal - 1, kept)

EvictSurplus_Youngest(f, mine) ==
    IF Cardinality(mine) < MaxItems THEN f
    ELSE remove_record_candidates(f, mine \ Oldest(mine, MaxItems - 1))

EvictSurplus(f, mine) ==
    IF Cardinality(mine) < MaxItems THEN f
    ELSE remove_record_candidates(f, mine \ Newest(mine, MaxItems - 1))

RoomFor(p, in, kept) ==
    IF \E id \in kept :
         \/ ~can_reduce_source_index_without_record(p, {in.scope}, MaxIndexScope - 1, id)
         \/ ~can_reduce_source_index_without_record(p, Scopes, MaxIndexTotal - 1, id)
    THEN [ok |-> FALSE, file |-> p]
    ELSE [ok |-> TRUE,
          file |-> IF kept # {} THEN EvictForOneMore(p, in, kept)
                   ELSE LET e == EvictForOneMore(p, in, kept)
                        IN  EvictSurplus(e, InScope(e, in.scope))]

TidyFor(p, in) == RoomFor(p, in, {r.id : r \in Target(p, in)})

prepare_file_for_publish(f, in, t) == TidyFor(prune_file(f, Accounts, t), in)

prepare_publish_record(f, in, id, t) ==
    IF Target(f, in) = {}
    THEN [id |-> id, scope |-> in.scope, topic |-> in.topic, src |-> in.src,
          created |-> t, updated |-> t, read |-> 0, count |-> 1]
    ELSE LET r == CHOOSE r \in Target(f, in) : TRUE
         IN  [r EXCEPT !.count = @ + 1, !.updated = Larger(@, t)]

apply_prepared_to_file(f, in, r) ==
    [f EXCEPT !.items = (@ \ Target(f, in)) \cup {r}, !.index = Append(@, Entry(r, in.src))]

(* reserve_serialized_capacity_for_publish: the oldest records make way when *)
(* the file would grow past its size.                                        *)
reserve_serialized_capacity_for_publish(f, in, r) ==
    LET C == f.items \ Target(f, in)
        With(R) == apply_prepared_to_file(remove_record_candidates(f, R), in, r)
        Fits(R) == notification_file_fits_serialized_limit(With(R))
        enough == {k \in 0..Cardinality(C) : Fits(Oldest(C, k))}
    IN  IF Fits({}) THEN [ok |-> TRUE, file |-> f]
        ELSE [ok |-> Fits(C), file |-> remove_record_candidates(f, FewestOldest(C, enough))]

(* One publication: housekeeping, saved on its own when it removed anything, *)
(* then the record.  For each fresh identifier, In is the input and Outage   *)
(* the entries of the outage table the caller sets with the record; O is its *)
(* order table.                                                              *)
Publish(In, Outage, O) ==
    /\ \E id \in Ids \ used, result \in SaveResults :
       \E in \in {In[id]} :
       \E h \in {prepare_file_for_publish(file, in, now)} :
       \E r \in {prepare_publish_record(h.file, in, id, now)} :
       \E v \in {reserve_serialized_capacity_for_publish(h.file, in, r)} :
         /\ ValidInput(in) /\ <<in.scope, in.src>> \notin seen
         /\ h.ok /\ v.ok
         /\ used' = IF result = "lost" THEN used ELSE used \cup {id}
         /\ \/ /\ v.file # file /\ result # "ok"       \* the housekeeping is not saved
               /\ v.file.rev < MaxRevision
               /\ disk' = Saved(Bumped(v.file), result)
               /\ toastAt' = Toast(result)
               /\ UNCHANGED <<file, seen, incidents, orders, event>>
            \/ \E tidied \in {v.file # file} :
               \E base \in {IF tidied THEN Bumped(v.file) ELSE file} :
               \E new \in {Bumped(apply_prepared_to_file(base, in, r))} :
               \E J \in {IF tidied THEN rebuild_active_incidents(v.file) ELSE incidents} :
                 /\ new.rev =< MaxRevision
                 /\ disk' = IF result = "lost" /\ tidied THEN base ELSE Saved(new, result)
                 /\ seen' = (IF tidied THEN rebuild_seen_source_events(v.file) ELSE seen)
                              \cup (IF result = "ok" THEN {<<in.scope, in.src>>} ELSE {})
                 /\ IF result = "ok"
                    THEN /\ file' = new /\ incidents' = Outage[id] @@ J /\ orders' = O /\ toastAt' = 0
                         /\ event' = Changed(base, IF r.count = 1 THEN "Created" ELSE "Updated",
                                             r.id)
                    ELSE /\ file' = base /\ incidents' = J /\ orders' = orders
                         /\ toastAt' = IF tidied THEN now ELSE Toast(result)
                         /\ event' = IF tidied THEN Changed(v.file, "Reset", 0) ELSE event
    /\ Remember
    /\ UNCHANGED <<configured, up, now, pager>>

SameIncidents == [id \in Ids |-> <<>>]

(* publish: risk blocks and expired sessions; an event already seen is only  *)
(* looked up.                                                                *)
publish(a, e) ==
    /\ up /\ a \in configured /\ e.src.what # "client"
    /\ LET In == [id \in Ids |-> [scope |-> a, topic |-> e.topic, src |-> e.src]]
       IN  Publish(In, SameIncidents, orders)

(* create_client_notification: a failure the frontend reports for the active *)
(* account and its session; a repeated attempt finds the record it made.     *)
publish_client_account_failure(a, e) ==
    /\ up /\ a \in configured /\ e.src.what = "client"
    /\ LET In == [id \in Ids |-> [scope |-> a, topic |-> e.topic, src |-> e.src]]
       IN  Publish(In, SameIncidents, orders)

connection_edge(what, inc, c) == [what |-> what, inc |-> inc, names |-> {c}]

(* An outage is announced once, with an incident of its own; its recovery    *)
(* carries the same incident and closes it.                                  *)
ObserveEdge(a, c, available) ==
    /\ up /\ a \in configured
    /\ available <=> incidents[<<a, c>>] # 0
    /\ LET k == <<a, c>>
           source(id) == IF available THEN connection_edge("up", incidents[k], c)
                         ELSE connection_edge("down", id, c)
           In == [id \in Ids |-> [scope |-> a, topic |-> source(id), src |-> source(id)]]
           Outage == [id \in Ids |-> k :> (IF available THEN 0 ELSE id)]
       IN  Publish(In, Outage, orders)

observe_connection(a, available) == \E c \in Channels : c = 1 /\ ObserveEdge(a, c, available)

observe_environment(a, available) == \E c \in Channels : c # 1 /\ ObserveEdge(a, c, available)

(* observe_order: keys in token order; a final state wins over the others.   *)
Previous(a, names) ==
    LET known == {n \in names : orders[<<a, n>>].status # "none"}
        final == {n \in known : IsTerminal(orders[<<a, n>>].status)}
        first(S) == CHOOSE n \in S : \A m \in S : n =< m
    IN  IF final # {} THEN orders[<<a, first(final)>>]
        ELSE IF known # {} THEN orders[<<a, first(known)>>] ELSE NoOrder

OrdersWith(a, names, status, notified) ==
    [k \in DOMAIN orders |-> IF k[1] = a /\ k[2] \in names
                             THEN [status |-> status, notified |-> notified] ELSE orders[k]]

(* The dedupe key names the order by its number, or by its submission when   *)
(* it was rejected before it had one.                                        *)
order_topic(status, names) ==
    [what |-> status, inc |-> 0, names |-> {IF OrderId \in names THEN OrderId ELSE Submission}]

(* A final state is not left: neither back to an open one nor to another.    *)
AfterFinal(previous, status) == IsTerminal(previous.status) /\ previous.status # status

should_publish(previous, status, origin) ==
    /\ IsTerminal(status) /\ ~previous.notified
    /\ \/ origin = "Command"
       \/ origin = "Realtime" /\ previous.status # "none" /\ ~IsTerminal(previous.status)

(* The state of an order seen by a snapshot, the stream or a command; the    *)
(* final state is announced by a command, or by the stream when it follows   *)
(* an open one.                                                              *)
observe_order(a, names, status, origin) ==
    LET previous == Previous(a, names)
        source == [what |-> status, inc |-> 0, names |-> names]
        In == [id \in Ids |-> [scope |-> a, topic |-> order_topic(status, names), src |-> source]]
    IN  /\ up /\ a \in configured
        /\ ~AfterFinal(previous, status)
        /\ \/ /\ ~should_publish(previous, status, origin)
              /\ orders' = OrdersWith(a, names, status, previous.notified)
              /\ UNCHANGED <<file, disk, seen, incidents, configured, up, now, event, toastAt,
                             pager, used, lost>>
           \/ /\ should_publish(previous, status, origin)
              /\ OrderId \in names \/ (status = "Rejected" /\ Submission \in names)
              /\ Publish(In, SameIncidents, OrdersWith(a, names, status, TRUE))
-----------------------------------------------------------------------------
(* The user: commands are resolved for the active account a, and see the     *)
(* records of a and the global ones.                                         *)

resolve_context(a) == up /\ a \in configured

Rest == UNCHANGED <<orders, configured, up, now, pager, used>>

AsRead(r) == [r EXCEPT !.read = Larger(now, r.created), !.updated = Larger(@, now)]

mark_read(a, r, result) ==
    /\ r \in file.items /\ visible(a, r.scope) /\ r.read = 0
    /\ CommitFile([file EXCEPT !.items = (@ \ {r}) \cup {AsRead(r)}], "Updated", r.id, result)
    /\ Remember /\ Rest /\ UNCHANGED <<seen, incidents>>

mark_visible_read(a, result) ==
    LET unread == {r \in file.items : /\ visible(a, r.scope) /\ r.read = 0
                                      /\ ~is_expired(r, now)}
    IN  /\ unread # {}
        /\ CommitFile([file EXCEPT !.items = (@ \ unread) \cup {AsRead(r) : r \in unread}],
                      "Updated", 0, result)
        /\ Remember /\ Rest /\ UNCHANGED <<seen, incidents>>

RemoveByUser_KeepsSeen(S, kind, id, result) ==
    /\ CommitFile(remove_record_candidates(file, S), kind, id, result)
    /\ Remember /\ Rest /\ UNCHANGED <<seen, incidents>>

(* Removal by the user: the index and the events seen follow, the outage and *)
(* order tables stay.                                                        *)
RemoveByUser(S, kind, id, result) ==
    /\ CommitFile(remove_record_candidates(file, S), kind, id, result)
    /\ seen' = IF result = "ok" THEN rebuild_seen_source_events(file') ELSE seen
    /\ Remember /\ Rest /\ UNCHANGED incidents

delete_visible(a, r, result) ==
    /\ r \in file.items /\ visible(a, r.scope)
    /\ RemoveByUser({r}, "Removed", r.id, result)

clear_account(a, result) ==
    /\ InScope(file, a) # {}
    /\ RemoveByUser(InScope(file, a), "Reset", 0, result)

AfterCursor_CreatedOnly(r, at) == r.created < at[1]

(* The cursor orders by time, then by identifier.                            *)
AfterCursor(r, at) == r.created < at[1] \/ (r.created = at[1] /\ r.id < at[2])

(* list: newest first, strictly after the cursor; the cursor is the last     *)
(* item of a page that was cut.                                              *)
list(a) ==
    LET shown == {r \in file.items : visible(a, r.scope) /\ ~is_expired(r, now)}
        after == {r \in shown : pager.open => AfterCursor(r, pager.at)}
        page == Newest(after, PageLimit)
        rows == SetToSortSeq(page, LAMBDA r, q : Older(q, r))
        ids == {r.id : r \in shown}
    IN  /\ PageLimit > 0 /\ ~pager.done
        /\ pager.open => pager.account = a
        /\ pager' = [open |-> TRUE, account |-> a,
                     at |-> IF rows = <<>> THEN <<0, 0>>
                            ELSE <<Last(rows).created, Last(rows).id>>,
                     got |-> pager.got \o [i \in DOMAIN rows |-> rows[i].id],
                     base |-> IF pager.open THEN pager.base \cap ids ELSE ids,
                     done |-> after = page]
        /\ UNCHANGED <<file, disk, seen, incidents, orders, configured, up, now, event,
                       toastAt, used, lost>>

(* The commands, as the frontend calls them.                                 *)
list_notifications(a) == resolve_context(a) /\ list(a)
mark_notification_read(a, r, result) == resolve_context(a) /\ mark_read(a, r, result)
mark_visible_notifications_read(a, result) == resolve_context(a) /\ mark_visible_read(a, result)
delete_notification(a, r, result) == resolve_context(a) /\ delete_visible(a, r, result)
clear_account_notifications(a, result) == resolve_context(a) /\ clear_account(a, result)
-----------------------------------------------------------------------------
(* Maintenance, accounts, restarts.                                          *)

(* prune: run daily; what the tables hold is derived from the file again,    *)
(* also when nothing was removed.                                            *)
Derived(f, I, owners) ==
    /\ seen' = rebuild_seen_source_events(f)
    /\ incidents' = I
    /\ orders' = [k \in DOMAIN orders |-> IF k[1] \in owners THEN orders[k] ELSE NoOrder]

(* A removal that keeps the tables in step, saved only if it removed         *)
(* anything; the tables follow the file.                                     *)
Shrink(f, I, owners, result) ==
    /\ IF f = file
       THEN Derived(f, I, owners) /\ UNCHANGED <<file, disk, event, toastAt>>
       ELSE /\ CommitFile(f, "Reset", 0, result)
            /\ IF result = "ok" THEN Derived(f, I, owners)
               ELSE UNCHANGED <<seen, incidents, orders>>
    /\ Remember /\ UNCHANGED <<up, now, pager, used>>

prune(result) ==
    /\ up
    /\ \E f \in {enforce_serialized_file_cap(prune_file(file, configured, now))} :
         Shrink(f, rebuild_active_incidents(f), configured, result)
    /\ UNCHANGED configured

(* delete_account_partition, as the deletion of a profile calls it: the      *)
(* profile is gone whether or not the partition could be removed.            *)
delete_account_partition(a, result) ==
    /\ up /\ a \in configured /\ configured # {a}
    /\ configured' = configured \ {a}
    /\ \E f \in {remove_record_candidates(file, InScope(file, a))} :
         Shrink(f, [k \in Keys |-> IF k[1] = a THEN 0 ELSE incidents[k]], Accounts \ {a}, result)

(* from_snapshot_internal, after load_internal has pruned the file on disk:  *)
(* a change is saved before the service opens, and a failed save leaves the  *)
(* center unavailable for this run of the program.                           *)
Tidied(found) ==
    enforce_serialized_file_cap(enforce_source_index_caps(
        normalize_source_event_index(prune_file(found, configured, now))))

Loaded(found, result) ==
    \E f \in {Tidied(found)} :
    \E opened \in {IF f = found THEN found ELSE Bumped(f)} :
        /\ opened.rev =< MaxRevision
        /\ disk' = IF result = "lost" THEN found ELSE opened
        /\ up' = (f = found \/ result = "ok")
        /\ file' = opened
        /\ seen' = rebuild_seen_source_events(opened)
        /\ incidents' = rebuild_active_incidents(opened)
        /\ orders' = rebuild_order_states(opened)
        /\ toastAt' = IF up' THEN 0 ELSE now
        /\ event' = [prev |-> found.rev, rev |-> opened.rev, change |-> "Reset", id |-> 0]

(* load_report: a file that cannot be read as one is put aside and an empty  *)
(* one takes its place.                                                      *)
load_report(corrupt) == IF corrupt THEN EmptyFile ELSE disk

(* The program starts, first or again.                                       *)
Start(corrupt, result) ==
    /\ Loaded(load_report(corrupt), result)
    /\ pager' = NoPager
    /\ lost' = lost \cup (IF corrupt THEN Keys ELSE
                 {KeyOf(r) : r \in {q \in Edges(disk) \cup Edges(file) : q.id \notin IdsOf(file')}})
    /\ UNCHANGED <<configured, now, used>>

Clock(t) ==
    /\ t # now /\ now' = t
    /\ UNCHANGED <<file, disk, seen, incidents, orders, configured, up, event, toastAt,
                   pager, used, lost>>
-----------------------------------------------------------------------------
Init ==
    /\ configured \in SUBSET Accounts \ {{}}
    /\ now = 1
    /\ disk \in Legacy
    /\ file = EmptyFile /\ seen = {} /\ up = FALSE
    /\ incidents = [k \in Keys |-> 0]
    /\ orders = [k \in Accounts \X (1..3) |-> NoOrder]
    /\ event = [prev |-> 0, rev |-> 0, change |-> "none", id |-> 0]
    /\ toastAt = 0 /\ pager = NoPager /\ lost = {}
    /\ used = IdsOf(disk)

Next ==
    \/ \E a \in Accounts, e \in Events :
          publish(a, e) \/ publish_client_account_failure(a, e)
    \/ \E a \in Accounts, available \in BOOLEAN : observe_connection(a, available)
    \/ \E a \in Accounts, available \in BOOLEAN : observe_environment(a, available)
    \/ \E a \in Accounts, names \in Sightings, status \in Statuses,
          origin \in {"Snapshot", "Realtime", "Command"} : observe_order(a, names, status, origin)
    \/ \E a \in Accounts, r \in file.items, result \in SaveResults :
          mark_notification_read(a, r, result) \/ delete_notification(a, r, result)
    \/ \E a \in Accounts, result \in SaveResults :
          \/ mark_visible_notifications_read(a, result)
          \/ clear_account_notifications(a, result)
          \/ delete_account_partition(a, result)
    \/ \E a \in Accounts : list_notifications(a)
    \/ \E result \in SaveResults : prune(result)
    \/ \E corrupt \in BOOLEAN, result \in SaveResults : Start(corrupt, result)
    \/ \E t \in Times : Clock(t)

Spec == Init /\ [][Next]_vars
-----------------------------------------------------------------------------
(* Correctness.                                                              *)

TypeOK ==
    /\ file.rev \in 0..MaxRevision /\ IdsOf(file) \subseteq used
    /\ configured \subseteq Accounts /\ up \in BOOLEAN /\ now \in Times
    /\ incidents \in [Keys -> Ids \cup {0}]

(* The file in force is one the store will save and load: within every cap   *)
(* of items, index and size, the index pointing at records of its scope.     *)
FileAlwaysValid == up => ValidFile(file) /\ notification_file_fits_serialized_limit(file)

(* The events held as seen are exactly those of the index: none that lost    *)
(* its record makes a later publication fail, none on file is taken twice.   *)
SeenIsIndex == up => seen = rebuild_seen_source_events(file)

(* The last event announced the revision in force, so that a listener that   *)
(* compares previousRevision with its own finds every gap.                   *)
EventsFollowRevisions == up => event.rev = file.rev /\ event.prev \in {file.rev - 1, file.rev}

(* What is on disk is the file in force, or one more step of it that was     *)
(* reported as failed: a restart never goes back behind an acknowledged      *)
(* change.                                                                   *)
DiskHoldsFile == up => disk = file \/ disk.rev > file.rev

(* While no edge of a channel was removed, the outage table is what a        *)
(* restart would rebuild: neither a restart nor the daily maintenance        *)
(* announces an outage a second time or forgets to announce its end.         *)
IncidentsRebuildable ==
    up => \A k \in Keys \ lost : incidents[k] = rebuild_active_incidents(file)[k]

(* The final state of an order that is on file is not announced again, under *)
(* whichever of its names the order is seen next.                            *)
OrdersRemembered ==
    up => \A r \in file.items : IsTerminal(r.src.what) /\ r.scope \in configured =>
            \A n \in r.src.names : orders[<<r.scope, n>>].notified

(* The center's files and tables agree, through every failure and restart.   *)
CenterSafe ==
    /\ TypeOK
    /\ FileAlwaysValid
    /\ SeenIsIndex
    /\ EventsFollowRevisions
    /\ DiskHoldsFile
    /\ IncidentsRebuildable
    /\ OrdersRemembered

(* Paging is exact: no record is listed twice, and when the last page was    *)
(* read every record that was there from the first page on has been listed,  *)
(* whatever was published or deleted in between.                             *)
PagesExact ==
    /\ \A i, j \in DOMAIN pager.got : i # j => pager.got[i] # pager.got[j]
    /\ pager.done => pager.base \subseteq {pager.got[i] : i \in DOMAIN pager.got}

(* A step that adds a record and drops others drops the oldest of each       *)
(* account: what stays, other than the record itself, is younger.            *)
DropsOldest ==
    up /\ up' /\ event' # event /\ event'.change \in {"Created", "Updated"} =>
      \A r, q \in file.items :
         /\ r.scope = q.scope /\ q.id # event'.id
         /\ r.id \notin IdsOf(file') /\ q.id \in IdsOf(file')
         => Older(r, q)
=============================================================================
