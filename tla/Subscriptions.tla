--------------------------- MODULE Subscriptions ---------------------------
(***************************************************************************)
(* The subscribers of one timer, which timerapi keeps twice: as the rows   *)
(* of timer_subcribers in PostgreSQL and as a set under the timer's key in *)
(* Redis, from which the notifications take whom to tell.  Create,         *)
(* Subscribe and Unsubscribe change the cache first and the rows second,   *)
(* and undo the first when the second fails; the cache changes its set by  *)
(* a GET and a SET that other requests may run between.  A deletion drops  *)
(* the key later, in a goroutine; a restart fills it again (Invoke).       *)
(*                                                                         *)
(* A key that Redis does not have is the empty set: Unsubscribe deletes    *)
(* the key with its last user, and nothing else writes an empty set.       *)
(***************************************************************************)
EXTENDS Naturals

CONSTANTS
    User,         \* the users
    Creator,      \* the one who creates the timer
    Req,          \* request slots: how many requests may be in progress at once
    LostAnswers,  \* TRUE iff a call that fails may have taken effect
    MaxFaults,    \* bound: calls that fail
    MaxCrashes    \* bound: restarts of the application

ASSUME CreatorAssumption == Creator \in User
ASSUME BoundAssumption == /\ LostAnswers \in BOOLEAN
                          /\ MaxFaults \in Nat
                          /\ MaxCrashes \in Nat

VARIABLES
    timer,     \* the row of the timer: "none", "live" or "deleted"
    members,   \* the users with a row in timer_subcribers
    cached,    \* the set under the timer's key in Redis
    req,       \* req[r]: request r, its next call and the set it has read
    notice,    \* TRUE iff a goroutine is still to drop the key of the deleted timer
    app,       \* "up", "down", or the call Invoke makes next
    boot,      \* what Invoke has read: the rows, and the set in the cache
    faults,    \* calls that have failed so far
    crashes,   \* crashes so far
    tangled,   \* history: users whose requests overlapped or whose failure was not undone
    uninvited, \* history: strangers whose last Unsubscribe failed, and was undone in the cache
    filled,    \* history: the creator was put into the set, and the key not dropped since
    leftover   \* history: the key's deletion was missed, or somebody may write after it

history == <<tangled, uninvited, filled, leftover>>
appVars == <<app, boot, crashes>>
vars == <<timer, members, cached, req, notice, appVars, faults, history>>

Labels == {"idle", "get", "set", "store", "undo.get", "undo.set", "service", "uncache", "unmark"}
Requests == [pc : Labels, op : {"create", "subscribe", "unsubscribe"},
             user : User, got : SUBSET User]

Idle == [pc |-> "idle", op |-> "subscribe", user |-> Creator, got |-> {}]
NoBoot == [read |-> {}, got |-> {}]

TypeOK == /\ timer \in {"none", "live", "deleted"}
          /\ members \in SUBSET User
          /\ cached \in SUBSET User
          /\ req \in [Req -> Requests]
          /\ notice \in BOOLEAN
          /\ app \in {"up", "down", "read", "get", "set"}
          /\ boot \in [read : SUBSET User, got : SUBSET User]
          /\ faults \in Nat
          /\ crashes \in Nat
          /\ tangled \in SUBSET User
          /\ uninvited \in SUBSET User
          /\ filled \in BOOLEAN
          /\ leftover \in BOOLEAN

Init == /\ timer = "none"
        /\ members = {}
        /\ cached = {}
        /\ req = [r \in Req |-> Idle]
        /\ notice = FALSE
        /\ app = "up"
        /\ boot = NoBoot
        /\ faults = 0
        /\ crashes = 0
        /\ tangled = {}
        /\ uninvited = {}
        /\ filled = FALSE
        /\ leftover = FALSE

-----------------------------------------------------------------------------
(* Requests *)

Active(r) == req[r].pc # "idle"
Busy(u) == \E r \in Req : Active(r) /\ req[r].user = u
Creating == \E r \in Req : Active(r) /\ req[r].op = "create"

Goto(r, label) == req' = [req EXCEPT ![r] = [@ EXCEPT !.pc = label]]
Finish(r) == req' = [req EXCEPT ![r] = Idle]

Fault == /\ faults < MaxFaults
         /\ faults' = faults + 1

\* What a failed call leaves of an old value that it was to turn into new.
Outcomes(old, new) == IF LostAnswers THEN {old, new} ELSE {old}

\* A request of user u starts with the cache.
Begin(r, op, u) ==
    req' = [req EXCEPT ![r] = [pc |-> "get", op |-> op, user |-> u, got |-> {}]]

\* Create: the rows of the timer and of the creator's subscription are one
\* transaction.  One that fails is not undone, even if it was committed.
Create(r) ==
    /\ app = "up" /\ ~Active(r)
    /\ timer = "none"
    /\ timer' = "live"
    /\ members' = {Creator}
    /\ \/ /\ Begin(r, "create", Creator)
          /\ UNCHANGED <<faults, tangled>>
       \/ /\ LostAnswers /\ Fault
          /\ tangled' = tangled \cup {Creator}
          /\ UNCHANGED req
    /\ UNCHANGED <<cached, notice, appVars, uninvited, filled, leftover>>

\* Variant: the creator's requests are not refused.
AskAnyone(r, op, u) ==
    /\ app = "up" /\ ~Active(r)
    /\ timer = "live" /\ ~Creating
    /\ Begin(r, op, u)
    /\ tangled' = IF Busy(u) THEN tangled \cup {u} ELSE tangled
    /\ UNCHANGED <<timer, members, cached, notice, appVars, faults, uninvited, filled, leftover>>

\* Subscribe and Unsubscribe: the timer must be there and not be the user's
\* own.  Nobody has the timer's id before Create has answered.
Ask(r, op, u) ==
    /\ app = "up" /\ ~Active(r)
    /\ timer = "live" /\ ~Creating
    /\ u # Creator
    /\ Begin(r, op, u)
    /\ tangled' = IF Busy(u) THEN tangled \cup {u} ELSE tangled
    /\ UNCHANGED <<timer, members, cached, notice, appVars, faults, uninvited, filled, leftover>>

-----------------------------------------------------------------------------
(* The cache *)

Undoing(r) == req[r].pc \in {"undo.get", "undo.set"}

\* Whether r's operation on the cache is Subscribe: an undo is the inverse.
Adds(r) == (req[r].op = "unsubscribe") <=> Undoing(r)

\* A user who is in the set is not added again; without a key none is removed.
Refused(r) == IF Adds(r) THEN req[r].user \in cached ELSE cached = {}

\* After a cache operation that failed itself nothing of it is undone.
CacheFails(r) == IF req[r].op = "create" THEN Goto(r, "unmark") ELSE Finish(r)

CacheGet(r) ==
    /\ req[r].pc \in {"get", "undo.get"}
    /\ \/ /\ ~Refused(r)
          /\ req' = [req EXCEPT ![r] = [@ EXCEPT !.pc = IF Undoing(r) THEN "undo.set" ELSE "set",
                                                 !.got = cached]]
          /\ UNCHANGED <<faults, tangled>>
       \/ /\ Refused(r)
          /\ CacheFails(r)
          /\ UNCHANGED <<faults, tangled>>
       \/ /\ Fault
          /\ CacheFails(r)
          /\ tangled' = IF Undoing(r) THEN tangled \cup {req[r].user} ELSE tangled
    /\ UNCHANGED <<timer, members, cached, notice, appVars, uninvited, filled, leftover>>

\* The set as r writes it: what it read, with its user or without.
Written(r) == IF Adds(r) THEN req[r].got \cup {req[r].user} ELSE req[r].got \ {req[r].user}

\* The users other than r's own whom the write adds or removes: it was
\* computed from a set that another request has changed meanwhile.
Clobbered(r) == ((cached \ cached') \cup (cached' \ cached)) \ {req[r].user}

CacheSet(r) ==
    /\ req[r].pc \in {"set", "undo.set"}
    /\ \/ /\ cached' = Written(r)
          /\ tangled' = tangled \cup Clobbered(r)
          /\ filled' = (filled \/ req[r].op = "create")
          /\ IF Undoing(r)
             THEN Finish(r)
             ELSE Goto(r, IF req[r].op = "create" THEN "service" ELSE "store")
          /\ UNCHANGED <<faults, leftover>>
       \/ /\ Fault
          /\ cached' \in Outcomes(cached, Written(r))
          /\ tangled' = tangled \cup Clobbered(r) \cup {req[r].user}
          /\ leftover' = (leftover \/ req[r].op = "create")
          /\ CacheFails(r)
          /\ UNCHANGED filled
    /\ UNCHANGED <<timer, members, notice, appVars, uninvited>>

-----------------------------------------------------------------------------
(* The calls after the cache's *)

\* Variant: a failed statement is not undone in the cache.
StoreAlone(r) ==
    LET u   == req[r].user
        new == IF req[r].op = "subscribe" THEN members \cup {u} ELSE members \ {u}
    IN  /\ req[r].pc = "store"
        /\ Finish(r)
        /\ \/ members' = new /\ UNCHANGED <<faults, tangled>>
           \/ /\ Fault
              /\ members' \in Outcomes(members, new)
              /\ tangled' = IF members' = members THEN tangled ELSE tangled \cup {u}
        /\ UNCHANGED <<timer, cached, notice, appVars, uninvited, filled, leftover>>

\* The rows: the primary key refuses a second subscription, and a DELETE that
\* finds no row is no error.  What fails or is refused is undone in the cache,
\* also for a user who unsubscribed without being a subscriber: he becomes one.
Store(r) ==
    LET u   == req[r].user
        new == IF req[r].op = "subscribe" THEN members \cup {u} ELSE members \ {u}
    IN  /\ req[r].pc = "store"
        /\ \/ /\ req[r].op = "subscribe" => u \notin members
              /\ members' = new
              /\ uninvited' = uninvited \ {u}
              /\ Finish(r)
              /\ UNCHANGED <<faults, tangled>>
           \/ /\ req[r].op = "subscribe" /\ u \in members
              /\ Goto(r, "undo.get")
              /\ UNCHANGED <<members, faults, tangled, uninvited>>
           \/ /\ Fault
              /\ members' \in Outcomes(members, new)
              /\ tangled' = IF members' = members THEN tangled ELSE tangled \cup {u}
              /\ uninvited' = IF req[r].op = "unsubscribe" /\ u \notin members
                              THEN uninvited \cup {u} ELSE uninvited
              /\ Goto(r, "undo.get")
        /\ UNCHANGED <<timer, cached, notice, appVars, filled, leftover>>

\* Create's last call, to the timer service, and its two compensations.
ServiceAdd(r) ==
    /\ req[r].pc = "service"
    /\ \/ Finish(r) /\ UNCHANGED faults
       \/ Fault /\ Goto(r, "uncache")
    /\ UNCHANGED <<timer, members, cached, notice, appVars, history>>

UndoCache(r) ==
    /\ req[r].pc = "uncache"
    /\ Goto(r, "unmark")
    /\ \/ cached' = {} /\ UNCHANGED <<faults, leftover>>
       \/ Fault /\ cached' \in Outcomes(cached, {}) /\ leftover' = TRUE
    /\ filled' = FALSE
    /\ UNCHANGED <<timer, members, notice, appVars, tangled, uninvited>>

UndoInsert(r) ==
    /\ req[r].pc = "unmark"
    /\ Finish(r)
    /\ \/ timer' = "deleted" /\ UNCHANGED <<faults, tangled>>
       \/ Fault /\ timer' \in Outcomes(timer, "deleted") /\ tangled' = tangled \cup {Creator}
    /\ UNCHANGED <<members, cached, notice, appVars, uninvited, filled, leftover>>

-----------------------------------------------------------------------------
(* The end of the timer, and a restart *)

\* A Delete request or the expiry of a date timer marks the row.  When the
\* statement is taken for failed nobody will drop the key.
MarkDeleted ==
    /\ app # "down"
    /\ timer = "live" /\ ~Creating
    /\ timer' = "deleted"
    /\ \/ notice' = TRUE /\ UNCHANGED <<faults, leftover>>
       \/ LostAnswers /\ Fault /\ leftover' = TRUE /\ UNCHANGED notice
    /\ UNCHANGED <<members, cached, req, appVars, tangled, uninvited, filled>>

\* Variant: the goroutine sends the notifications and keeps the key.
KeepKey ==
    /\ app # "down"
    /\ notice
    /\ notice' = FALSE
    /\ leftover' = (app # "up" \/ \E r \in Req : Active(r))
    /\ UNCHANGED <<timer, members, cached, req, appVars, faults, tangled, uninvited, filled>>

DropKey ==
    /\ app # "down"
    /\ notice
    /\ notice' = FALSE
    /\ \/ /\ cached' = {}
          /\ filled' = FALSE
          /\ leftover' = (app # "up" \/ \E r \in Req : Active(r))
          /\ UNCHANGED faults
       \/ /\ Fault
          /\ cached' \in Outcomes(cached, {})
          /\ leftover' = TRUE
          /\ filled' = FALSE
    /\ UNCHANGED <<timer, members, req, appVars, tangled, uninvited>>

\* Requests and goroutines are gone, and Redis may come back empty.
Crash ==
    /\ crashes < MaxCrashes
    /\ crashes' = crashes + 1
    /\ app' = "down"
    /\ boot' = NoBoot
    /\ cached' \in {cached, {}}
    /\ filled' = (filled /\ cached' = cached)
    /\ req' = [r \in Req |-> Idle]
    /\ tangled' = tangled \cup {u \in User : Busy(u)}
    /\ notice' = FALSE
    /\ leftover' = (leftover \/ notice \/ \E r \in Req : Active(r))
    /\ UNCHANGED <<timer, members, faults, uninvited>>

\* The tick stream is read from here on; Invoke runs before any request.
Restart ==
    /\ app = "down"
    /\ app' = "read"
    /\ UNCHANGED <<timer, members, cached, req, notice, boot, crashes, faults, history>>

\* The application serves requests, whatever Invoke has returned.
Serve == /\ app' = "up"
         /\ boot' = NoBoot

InvokeFails == /\ Fault
               /\ Serve
               /\ tangled' = IF filled THEN tangled ELSE User

InvokeRead ==
    /\ app = "read"
    /\ \/ /\ timer = "live"
          /\ app' = "get"
          /\ boot' = [boot EXCEPT !.read = members]
          /\ UNCHANGED <<faults, tangled>>
       \/ timer # "live" /\ Serve /\ UNCHANGED <<faults, tangled>>
       \/ InvokeFails
    /\ UNCHANGED <<timer, members, cached, req, notice, crashes, uninvited, filled, leftover>>

\* One user in the set is enough for the whole list to be refused, and Invoke
\* takes the refusal for success.
InvokeGet ==
    /\ app = "get"
    /\ \/ /\ boot.read \cap cached = {}
          /\ app' = "set"
          /\ boot' = [boot EXCEPT !.got = cached]
          /\ UNCHANGED <<faults, tangled>>
       \/ boot.read \cap cached # {} /\ Serve /\ UNCHANGED <<faults, tangled>>
       \/ InvokeFails
    /\ UNCHANGED <<timer, members, cached, req, notice, crashes, uninvited, filled, leftover>>

InvokeSet ==
    /\ app = "set"
    /\ \/ /\ cached' = boot.got \cup boot.read
          /\ Serve
          /\ filled' = TRUE
          /\ tangled' = IF boot.got = {} THEN {} ELSE tangled
          /\ uninvited' = IF boot.got = {} THEN {} ELSE uninvited
          /\ UNCHANGED faults
       \/ /\ InvokeFails
          /\ cached' \in Outcomes(cached, boot.got \cup boot.read)
          /\ UNCHANGED <<filled, uninvited>>
    /\ UNCHANGED <<timer, members, req, notice, crashes, leftover>>

-----------------------------------------------------------------------------
RequestStep(r) ==
    \/ Create(r)
    \/ \E u \in User : Ask(r, "subscribe", u) \/ Ask(r, "unsubscribe", u)
    \/ CacheGet(r) \/ CacheSet(r) \/ Store(r)
    \/ ServiceAdd(r) \/ UndoCache(r) \/ UndoInsert(r)

Next == \/ \E r \in Req : RequestStep(r)
        \/ MarkDeleted \/ DropKey
        \/ Crash \/ Restart \/ InvokeRead \/ InvokeGet \/ InvokeSet

Spec == Init /\ [][Next]_vars

-----------------------------------------------------------------------------
(* Properties *)

\* No order of the reads and writes of subscribing and unsubscribing users
\* loses the creator from the set that he was put into, by Create or Invoke,
\* until the key is dropped (subscriberstorage.Subscribe, Unsubscribe).
CreatorCached == filled => Creator \in cached

\* A subscriber is in the cache, and who is in the cache is a subscriber, or
\* one of those whom the undoing of an Unsubscribe has put there: the code never
\* asks whether he was a subscriber before.
Agrees(u) == /\ u \in members => u \in cached
             /\ u \in cached => u \in members \/ u \in uninvited

\* The two stores agree on every user who has no request in progress, unless
\* his requests overlapped, another request wrote a stale set over his, a call
\* took effect although it failed, or a call failed that nothing undoes; all
\* other failures are undone as they should, but for the Unsubscribe of a user
\* who is no subscriber, and Invoke restores what Redis has lost (usecase.go
\* Subscribe, Unsubscribe).
CacheMatchesStorage ==
    app = "up" /\ timer = "live" =>
        \A u \in User \ tangled : ~Busy(u) => Agrees(u)

\* Redis keeps nothing of a deleted timer once its key was dropped, unless a
\* request that had read the timer before was still in progress.
DeletedForgotten ==
    timer = "deleted" /\ ~notice /\ ~leftover => cached = {}
=============================================================================
