------------------------------ MODULE TimerApi ------------------------------
(***************************************************************************)
(* The REST interface, one request at a time: what a client is answered    *)
(* and what the request leaves in PostgreSQL, Redis and the timer service, *)
(* from the middleware that checks the signature through the handlers and  *)
(* use cases down to the statements.  Several users share several timers;  *)
(* a client reads its list of timers page by page while the others go on.  *)
(* TimerLifecycle and Subscriptions take one timer's requests apart into   *)
(* calls that interleave and fail; here every request runs to its end.     *)
(*                                                                         *)
(* A request is a record.  Its times are relative to the server's clock:   *)
(* it starts or pauses a timer "ago" seconds ago and ends it in "left".    *)
(* Both are the client's and may lie on either side of now; they are times *)
(* that a timestamp of PostgreSQL holds.                                   *)
(***************************************************************************)
EXTENDS TimerRow, TimerService, FiniteSets

CONSTANTS
    User,         \* the users
    Id,           \* the timer ids, numbered in the order of their uuids; 0 is uuid.Nil
    Requests,     \* the requests that clients make
    MinDuration,  \* MIN_TIMER_DURATION
    Limit,        \* the size of the pages that clients ask for
    Walked,       \* bound: the lists that a client reads to the end, with their users
    MaxTime,      \* bound: the clock's last second
    MaxEnd        \* bound: the last second in which a timer begins or ends

Changes == {"create", "delete", "update", "subscribe", "unsubscribe", "stop", "start", "reset"}
Reads == {"timer", "subscribers", "user", "user-created", "user-subscriptions", "notifications"}
Calls == Changes \cup Reads \cup {"clear"}

RequestTypes == [call : Calls,
                 user : User,
                 id : Id,
                 signed : BOOLEAN,         \* the launch parameters are signed by VK
                 parses : BOOLEAN,         \* the parameters and the body can be parsed
                 type : TimerTypes \cup {"OTHER"},
                 name : {"short", "long"},
                 color : {"known", "other"},
                 page : {"valid", "negative"},   \* offset and limit, where a list is asked for
                 ago : Int,
                 left : Int]

Lists == {"user", "user-created", "user-subscriptions"}

ASSUME UserAssumption == User # {}
ASSUME IdAssumption == Id \subseteq Nat /\ IsFiniteSet(Id)
ASSUME RequestAssumption == Requests \subseteq RequestTypes
ASSUME WalkAssumption == Walked \subseteq User \X Lists
ASSUME BoundAssumption == /\ MinDuration \in Nat \ {0} /\ Limit \in Nat \ {0}
                           /\ MaxTime \in Nat /\ MaxEnd \in Nat

VARIABLES
    db,         \* db[id]: what the three stores know of timer id
    unread,     \* the rows of notifications: unread[u][id] is "none" or a type
    clock,      \* the server's clock, in seconds
    walk,       \* a client that reads one of its lists to the end
    unchecked   \* history: the timers given a time that nothing compares with the others

vars == <<db, unread, clock, walk, unchecked>>

NotificationTypes == {"expired", "delete"}

\* row, creator, members, created: the rows in PostgreSQL; cached: the set in
\* Redis, empty without a key; entry: the second known to the timer service.
Timers == [row : Rows, creator : User, members : SUBSET User, created : Nat,
           cached : SUBSET User, entry : Entries]

\* due: what the client is still to be shown; shown: what it is not to be shown
\* again; twice: it was.
Walks == [state : {"none", "open", "done"}, user : User, list : Lists, offset : Nat,
          due : SUBSET Id, shown : SUBSET Id, twice : BOOLEAN]

TypeOK == /\ db \in [Id -> Timers]
          /\ unread \in [User -> [Id -> NotificationTypes \cup {"none"}]]
          /\ clock \in Nat
          /\ walk \in Walks
          /\ unchecked \in SUBSET Id

SomeUser == CHOOSE u \in User : TRUE

NoTimer == [row |-> NoRow, creator |-> SomeUser, members |-> {}, created |-> 0,
            cached |-> {}, entry |-> NoEntry]

NoWalk == [state |-> "none", user |-> SomeUser, list |-> "user", offset |-> 0,
           due |-> {}, shown |-> {}, twice |-> FALSE]

Init == /\ db = [id \in Id |-> NoTimer]
        /\ unread = [u \in User |-> [id \in Id |-> "none"]]
        /\ clock = 0
        /\ walk = NoWalk
        /\ unchecked = {}

-----------------------------------------------------------------------------
(* Outcomes: an error's code, or "ok", and the timer as it is afterwards *)

Accept(t) == [code |-> "ok", timer |-> t]
Refuse(t, code) == [code |-> code, timer |-> t]

\* if err != nil { return err }
Check(code, t, outcome) == IF code = "ok" THEN outcome ELSE Refuse(t, code)

\* Errors that are no timererror reach the client as an internal one: Wrap
\* keeps the status of an AmidException and of nothing else.
HttpCode(code) ==
    IF code = "sign_failed" THEN 401
    ELSE IF code = "user_forbidden" THEN 403
    ELSE IF code \in {"not_found", "subscribers_not_found", "color_not_found", "type_not_found"} THEN 404
    ELSE IF code \in {"exists", "wrong_time", "nil_id", "is_paused", "is_playing",
                      "user_already_subscriber", "creator_unsubscribe"} THEN 400
    ELSE 500

Success(call) ==
    IF call = "create" THEN 201
    ELSE IF call \in {"delete", "update", "unsubscribe", "stop", "clear"} THEN 204
    ELSE 200

\* What the timer service answers, as GrpcError translates it.
AddError(entry, end, now) ==
    IF Registered(entry) THEN "exists" ELSE IF AcceptsAdd(entry, end, now) THEN "ok" ELSE "wrong_time"

UpdateError(entry, end, now) ==
    IF ~Registered(entry) THEN "not_found" ELSE IF AcceptsUpdate(entry, end, now) THEN "ok" ELSE "wrong_time"

RemoveError(entry) == IF AcceptsRemove(entry) THEN "ok" ELSE "not_found"

-----------------------------------------------------------------------------
(* Create *)

\* Variant: the colour is left to the database.
ValidateFieldsNoColor(q) ==
    IF q.name = "long" THEN "internal"
    ELSE IF q.type \notin TimerTypes THEN "type_not_found"
    ELSE "ok"

\* The fields, in the order of ValidatableVariables.
ValidateFields(q) ==
    IF q.name = "long" THEN "internal"
    ELSE IF q.color = "other" THEN "color_not_found"
    ELSE IF q.type \notin TimerTypes THEN "type_not_found"
    ELSE "ok"

Validate(q) ==
    IF ValidateFields(q) # "ok" THEN ValidateFields(q)
    ELSE IF q.left + q.ago < MinDuration THEN "wrong_time"
    ELSE IF q.left < (MinDuration \div 3) * 2 THEN "wrong_time"
    ELSE IF q.id = 0 THEN "nil_id"
    ELSE "ok"

\* InsertDateTimer, InsertCountdownTimer: the timer with its creator subscribed.
Inserted(t, q, now) ==
    [t EXCEPT !.row = InsertTimer(q.type, now - q.ago, now + q.left),
              !.creator = q.user, !.members = {q.user}, !.created = now]

\* An unknown colour gives no color_id, which may not be null.
InsertStatement(t, q) ==
    IF q.color = "other" THEN "internal"
    ELSE IF t.row.exists THEN "exists"
    ELSE "ok"

\* Variant: the insertion is not registered for compensation.
CreateUnregistered(t, q, now) ==
    LET new == Inserted(t, q, now)
        end == new.row.end
    IN  IF InsertStatement(t, q) # "ok" THEN Refuse(t, InsertStatement(t, q))
        ELSE IF AddError(t.entry, end, now) # "ok" THEN Refuse(new, AddError(t.entry, end, now))
        ELSE Accept([new EXCEPT !.cached = t.cached \cup {q.user}, !.entry = end])

\* A request that is undone leaves a deleted row: its id stays taken.
Create(t, q, now) ==
    LET new  == Inserted(t, q, now)
        end  == new.row.end
        gone == [new EXCEPT !.row = DeleteTimer(new.row)]
    IN  IF InsertStatement(t, q) # "ok" THEN Refuse(t, InsertStatement(t, q))
        ELSE IF q.user \in t.cached THEN Refuse(gone, "user_already_subscriber")
        ELSE IF AddError(t.entry, end, now) # "ok"
             THEN Refuse([gone EXCEPT !.cached = {}], AddError(t.entry, end, now))
        ELSE Accept([new EXCEPT !.cached = t.cached \cup {q.user}, !.entry = end])

-----------------------------------------------------------------------------
(* Delete and Update *)

CheckAccess(t, user) ==
    IF ~Live(t.row) THEN "not_found"
    ELSE IF t.creator # user THEN "user_forbidden"
    ELSE "ok"

\* The answer of the service is ignored; the delete notification, handled
\* after the request, drops the key in Redis.
Delete(t, q) ==
    Check(CheckAccess(t, q.user), t,
          Accept([t EXCEPT !.row = DeleteTimer(t.row),
                           !.entry = IF t.row.paused THEN t.entry ELSE NoEntry,
                           !.cached = {}]))

\* Variant: the new end is not checked.
CheckCurrentEndTime(t, q, now) ==
    LET inPause == IF t.row.paused THEN now - t.row.pauseTime ELSE 0
    IN  IF t.row.end + inPause - now < MinDuration THEN "wrong_time" ELSE "ok"

\* For a paused timer the code moves the current end twice in place of the new.
CheckSettingsEndTime(t, q, now) ==
    LET inPause == IF t.row.paused THEN now - t.row.pauseTime ELSE 0
        end     == t.row.end + inPause
        newEnd  == IF t.row.paused THEN end + inPause ELSE now + q.left
    IN  IF end - now < MinDuration \/ newEnd - now < MinDuration THEN "wrong_time" ELSE "ok"

\* The statement joins colors, so an unknown one finds no row; the settings are
\* never validated, and a long name is an error of the column's type.
UpdateStatement(q) ==
    IF q.color = "other" THEN "not_found"
    ELSE IF q.name = "long" THEN "internal"
    ELSE "ok"

\* What the service refuses is undone by a second statement.  The service is
\* told unless the timer is paused: that the end is the same is looked for by
\* comparing structs, which differ by their locations.
Update(t, q, now) ==
    LET end   == now + q.left
        moved == [t EXCEPT !.row = UpdateTimer(t.row, end)]
    IN  Check(CheckAccess(t, q.user), t,
        Check(CheckSettingsEndTime(t, q, now), t,
        Check(UpdateStatement(q), t,
        IF t.row.paused THEN Accept(moved)
        ELSE Check(UpdateError(t.entry, end, now), t, Accept([moved EXCEPT !.entry = end])))))

-----------------------------------------------------------------------------
(* Subscribe and Unsubscribe *)

\* The cache's error for a timer without a key, redis.Nil.
CachedSubscribers(t) == IF t.cached = {} THEN "subscribers_not_found" ELSE "ok"

\* The cache is asked before the table; what the table refuses is undone.
Subscribe(t, q) ==
    IF ~Live(t.row) THEN Refuse(t, "not_found")
    ELSE IF q.user \in {t.creator} \cup t.cached \cup t.members
         THEN Refuse(t, "user_already_subscriber")
    ELSE Accept([t EXCEPT !.cached = t.cached \cup {q.user}, !.members = t.members \cup {q.user}])

\* A user who is no subscriber is answered like one.
Unsubscribe(t, q) ==
    IF ~Live(t.row) THEN Refuse(t, "not_found")
    ELSE IF t.creator = q.user THEN Refuse(t, "creator_unsubscribe")
    ELSE Check(CachedSubscribers(t), t,
               Accept([t EXCEPT !.cached = t.cached \ {q.user}, !.members = t.members \ {q.user}]))

-----------------------------------------------------------------------------
(* Stop, Start and Reset *)

CheckCountDownTimer(t, user) ==
    IF ~(Live(t.row) /\ IsCountdown(t.row)) THEN "not_found"
    ELSE IF t.creator # user THEN "user_forbidden"
    ELSE "ok"

Stop(t, q, now) ==
    Check(CheckCountDownTimer(t, q.user), t,
    IF t.row.paused THEN Refuse(t, "is_paused")
    ELSE Check(RemoveError(t.entry), t,
               Accept([t EXCEPT !.row = UpdatePauseTime(t.row, now - q.ago, TRUE), !.entry = NoEntry])))

\* The service refuses a timer whose end is not to come; both statements are undone.
Start(t, q, now) ==
    LET end == t.row.end + (now - t.row.pauseTime) IN
    Check(CheckCountDownTimer(t, q.user), t,
    IF ~t.row.paused THEN Refuse(t, "is_playing")
    ELSE Check(AddError(t.entry, end, now), t,
               Accept([t EXCEPT !.row = UpdatePauseTime(UpdateTime(t.row, end), ZeroTime, FALSE),
                                !.entry = end])))

\* Variant: the duration is added to the end.
ResetFromEnd(t, q, now) ==
    LET moved == UpdateTime(t.row, t.row.end + t.row.duration) IN
    Check(CheckCountDownTimer(t, q.user), t,
          Accept([t EXCEPT !.row = IF t.row.paused THEN UpdatePauseTime(moved, now, TRUE) ELSE moved]))

\* The timer service is not told.
Reset(t, q, now) ==
    LET moved == UpdateTime(t.row, now + t.row.duration) IN
    Check(CheckCountDownTimer(t, q.user), t,
          Accept([t EXCEPT !.row = IF t.row.paused THEN UpdatePauseTime(moved, now, TRUE) ELSE moved]))

-----------------------------------------------------------------------------
(* Reads *)

GetTimer(t) == IF Live(t.row) THEN Accept(t) ELSE Refuse(t, "not_found")

TimerSubscribers(t) == Check(CachedSubscribers(t), t, Accept(t))

UserTimers(d, u) == {id \in Id : Live(d[id].row) /\ u \in d[id].members}

UserCreatedTimers(d, u) == {id \in Id : Live(d[id].row) /\ d[id].creator = u}

UserSubscriptions(d, u) == {id \in Id : Live(d[id].row) /\ u \in d[id].members /\ d[id].creator # u}

ListOf(d, u, list) ==
    IF list = "user" THEN UserTimers(d, u)
    ELSE IF list = "user-created" THEN UserCreatedTimers(d, u)
    ELSE UserSubscriptions(d, u)

\* Variant: the list is ordered by the end of the timers, as Invoke's is.
BeforeByEnd(d, x, y) ==
    \/ d[x].row.end < d[y].row.end
    \/ d[x].row.end = d[y].row.end /\ x < y

\* ORDER BY created_at, id
Before(d, x, y) ==
    \/ d[x].created < d[y].created
    \/ d[x].created = d[y].created /\ x < y

\* LIMIT and OFFSET: a page is what has offset to offset + Limit - 1 before it.
Page(d, u, list, offset) ==
    LET all == ListOf(d, u, list)
        Rank(id) == Cardinality({x \in all : Before(d, x, id)})
    IN  {id \in all : Rank(id) \in offset .. offset + Limit - 1}

\* Atoi accepts negative numbers, PostgreSQL refuses them for LIMIT and OFFSET.
ListStatement(q) == IF q.page = "negative" THEN "internal" ELSE "ok"

\* Variant: the statement leaves deleted timers out, as those for timers do.
UserNotificationsLive(d, u) ==
    {n \in Id \X NotificationTypes : unread[u][n[1]] = n[2] /\ Live(d[n[1]].row)}

\* A user's unread notifications, those of deleted timers among them.
UserNotifications(d, u) ==
    {n \in Id \X NotificationTypes : unread[u][n[1]] = n[2] /\ d[n[1]].row.exists}

-----------------------------------------------------------------------------
(* Handlers *)

VkKeyHandler(q) == IF q.signed THEN "ok" ELSE "sign_failed"

\* userIdTimerId, offsetLimit and Bind: their errors are no timererror.
Parse(q) == IF q.parses THEN "ok" ELSE "internal"

\* The routes of Init.  The read of notifications does not fail.
Handle(t, q, now) ==
    CASE q.call = "create"      -> Check(Validate(q), t, Create(t, q, now))
      [] q.call = "delete"      -> Delete(t, q)
      [] q.call = "update"      -> Update(t, q, now)
      [] q.call = "subscribe"   -> Subscribe(t, q)
      [] q.call = "unsubscribe" -> Unsubscribe(t, q)
      [] q.call = "stop"        -> Stop(t, q, now)
      [] q.call = "start"       -> Start(t, q, now)
      [] q.call = "reset"       -> Reset(t, q, now)
      [] q.call = "timer"       -> GetTimer(t)
      [] q.call = "subscribers" -> TimerSubscribers(t)
      [] q.call \in Lists      -> Check(ListStatement(q), t, Accept(t))
      [] OTHER                  -> Accept(t)

Answer(t, q, now) == Check(VkKeyHandler(q), t, Check(Parse(q), t, Handle(t, q, now)))

\* The response's status.
Status(q, code) == IF code = "ok" THEN Success(q.call) ELSE HttpCode(code)

-----------------------------------------------------------------------------
(* Steps *)

\* Whom a notification is stored for: the subscribers in the cache, without
\* the creator unless all are told; nobody is online.
Told(t, all) == IF all THEN t.cached ELSE t.cached \ {t.creator}

\* A notification is stored unless one of the timer lies unread, of either
\* type: the primary key of notifications is the timer and the user.
Notified(users, id, type) ==
    [u \in User |-> IF u \in users /\ unread[u][id] = "none"
                    THEN [unread[u] EXCEPT ![id] = type] ELSE unread[u]]

\* The times that the code takes from a client without a look at the timer's:
\* a beginning that is to come, a pause before the beginning, which Start makes
\* a beginning to come, and in pause a new end (checkSettingsEndTime).
Unchecked(t, q, now) ==
    \/ q.call = "create" /\ q.ago < 0
    \/ q.call = "stop" /\ now - q.ago < t.row.end - t.row.duration
    \/ q.call = "update" /\ t.row.paused

\* A walk goes on while its list changes, one that is done is forgotten.  What
\* leaves the list may take others out of the pages to come, what enters it may
\* put others there again.
WalkOn == LET old == ListOf(db, walk.user, walk.list)
              new == ListOf(db', walk.user, walk.list)
          IN  walk' = IF walk.state = "open"
                      THEN [walk EXCEPT !.due = IF old \subseteq new THEN walk.due ELSE {},
                                        !.shown = IF new \subseteq old THEN walk.shown ELSE {}]
                      ELSE NoWalk

\* Late pauses move a timer on without end.
WithinBound(row) == row.end <= MaxEnd /\ row.end - row.duration <= MaxEnd

\* One request, up to the notifications that it causes.
Serve(q) ==
    LET t == db[q.id]
        a == Answer(t, q, clock)
    IN  /\ q.call \in Changes
        /\ WithinBound(a.timer.row)
        /\ db' = [db EXCEPT ![q.id] = a.timer]
        /\ unread' = IF q.call = "delete" /\ a.code = "ok"
                     THEN Notified(Told(t, FALSE), q.id, "delete") ELSE unread
        /\ unchecked' = IF a.code = "ok" /\ Unchecked(t, q, clock)
                        THEN unchecked \cup {q.id} ELSE unchecked
        /\ WalkOn
        /\ UNCHANGED clock

\* DELETE /notifications
ClearNotifications(q) ==
    /\ q.call = "clear"
    /\ Answer(db[q.id], q, clock).code = "ok"
    /\ unread' = [unread EXCEPT ![q.user] = [id \in Id |-> "none"]]
    /\ UNCHANGED <<db, clock, walk, unchecked>>

\* clearExpiredTimer
Expired(t) ==
    IF t.row.type = "DATE"
    THEN [t EXCEPT !.row = DeleteTimer(t.row), !.cached = {}, !.entry = NoEntry]
    ELSE [t EXCEPT !.row = UpdatePauseTime(t.row, t.row.end - t.row.duration, TRUE), !.entry = NoEntry]

\* The service fires a timer and its handler runs to its end.
Expire(id) ==
    /\ Registered(db[id].entry)
    /\ db[id].entry <= clock
    /\ IF Live(db[id].row)
       THEN /\ db' = [db EXCEPT ![id] = Expired(db[id])]
            /\ unread' = Notified(Told(db[id], TRUE), id, "expired")
       ELSE /\ db' = [db EXCEPT ![id] = [db[id] EXCEPT !.entry = NoEntry]]
            /\ UNCHANGED unread
    /\ WalkOn
    /\ UNCHANGED <<clock, unchecked>>

Clock == /\ clock < MaxTime
         /\ clock' = clock + 1
         /\ UNCHANGED <<db, unread, walk, unchecked>>

\* A client begins to read a list, from its first page.
BeginWalk(u, list) ==
    /\ walk.state # "open"
    /\ walk' = [NoWalk EXCEPT !.state = "open", !.user = u, !.list = list,
                              !.due = ListOf(db, u, list)]
    /\ UNCHANGED <<db, unread, clock, unchecked>>

\* It asks for page after page until one is empty.
NextPage ==
    LET page == Page(db, walk.user, walk.list, walk.offset) IN
    /\ walk.state = "open"
    /\ walk' = [walk EXCEPT !.state = IF page = {} THEN "done" ELSE "open",
                            !.offset = walk.offset + Limit,
                            !.due = walk.due \ page,
                            !.shown = walk.shown \cup page,
                            !.twice = walk.twice \/ (page \cap walk.shown # {})]
    /\ UNCHANGED <<db, unread, clock, unchecked>>

Next == \/ \E q \in Requests : Serve(q) \/ ClearNotifications(q)
        \/ \E id \in Id : Expire(id)
        \/ Clock
        \/ \E w \in Walked : BeginWalk(w[1], w[2])
        \/ NextPage

Spec == Init /\ [][Next]_vars

-----------------------------------------------------------------------------
(* Properties *)

\* The list of a user's timers is what he created and what he subscribed to,
\* and nothing is in both: no sequence of requests takes the creator out of
\* his timer's subscribers, although they are kept apart from its creator.
ListsAgree ==
    \A u \in User :
        /\ UserTimers(db, u) = UserCreatedTimers(db, u) \cup UserSubscriptions(db, u)
        /\ UserCreatedTimers(db, u) \cap UserSubscriptions(db, u) = {}

\* A client that reads a list page by page misses nothing that was in it from
\* the beginning, if nothing leaves the list meanwhile, whatever else happens
\* to the timers: their place does not depend on what requests change.  And it
\* is given no timer twice, unless something enters the list between the two.
WalkExact == /\ walk.state = "done" => walk.due = {}
             /\ ~walk.twice

\* A client that got no answer may repeat its request at once: the second
\* leaves the timer as the first left it, although it may be refused.
RetrySafe ==
    \A q \in Requests :
        LET once == Answer(db[q.id], q, clock).timer
        IN  Answer(once, q, clock).timer = once

\* A request that is refused, at whatever call, changes nothing that a later
\* request can see, except that the id of a refused Create stays taken.
RefusalLeaves ==
    \A q \in Requests :
        LET t == db[q.id]
            a == Answer(t, q, clock)
        IN  a.code # "ok" =>
                \/ a.timer = t
                \/ /\ ~Live(t.row) /\ ~Live(a.timer.row)
                   /\ a.timer.cached = t.cached /\ a.timer.entry = t.entry

\* No request that is signed, can be parsed and has a short name is answered
\* with an internal error, every error below having a status of its own, unless
\* it asks for a list with a negative offset or limit: the only error of a
\* statement that a well-formed request meets (offsetLimit).
NoInternal ==
    \A q \in Requests :
        Status(q, Answer(db[q.id], q, clock).code) = 500 =>
            \/ ~q.signed \/ ~q.parses \/ q.name = "long"
            \/ q.call \in Lists /\ q.page = "negative"

\* Pauses, starts, resets, expiries and updates never make a timer shorter than
\* the minimum that Create asks for, in whatever order and by clients with
\* whatever clocks, until one of the three times is accepted that the code does
\* not compare with the timer's (Unchecked).  It takes all three exceptions.
DurationKept ==
    \A id \in Id \ unchecked : Live(db[id].row) => db[id].row.duration >= MinDuration

\* When a timer goes, every subscriber but its creator finds a notification of
\* its end and not of an earlier expiry: that it was deleted or, of a date timer,
\* that it has expired.  Only who had an older notification of it unread finds
\* that one in its place, and is not told (UnreadHidden).
EndIsTold ==
    [][\A id \in Id : Live(db[id].row) /\ ~Live(db'[id].row) =>
           \A u \in db[id].members \ {db[id].creator} :
               IF unread[u][id] = "none"
               THEN \/ <<id, "delete">> \in UserNotifications(db, u)'
                    \/ db[id].row.type = "DATE" /\ <<id, "expired">> \in UserNotifications(db, u)'
               ELSE <<id, unread[u][id]>> \in UserNotifications(db, u)']_vars
=============================================================================
