---------------------------- MODULE TickerProofs ----------------------------
(***************************************************************************)
(* Theorems about the in-process ticker, for every set of timers, streams  *)
(* and goroutines, every capacity and every horizon.                       *)
(***************************************************************************)
EXTENDS Ticker, TLAPS

LEMMA TimesAreSeconds == Times \subseteq Nat /\ 0 \notin Times
BY BoundsAssumption DEF Times

\* Where the elements of a concatenation and of an appended list come from.
LEMMA ConcatElements ==
    ASSUME NEW S, NEW s \in Seq(S), NEW t \in Seq(S)
    PROVE  /\ s \o t \in Seq(S)
           /\ \A i \in DOMAIN s : i \in DOMAIN (s \o t) /\ (s \o t)[i] = s[i]
           /\ \A i \in DOMAIN t : /\ Len(s) + i \in DOMAIN (s \o t)
                                 /\ (s \o t)[Len(s) + i] = t[i]
           /\ \A i \in DOMAIN (s \o t) :
                 \/ i \in DOMAIN s /\ (s \o t)[i] = s[i]
                 \/ i - Len(s) \in DOMAIN t /\ (s \o t)[i] = t[i - Len(s)]
OBVIOUS

LEMMA AppendElements ==
    ASSUME NEW S, NEW s \in Seq(S), NEW e \in S
    PROVE  /\ Append(s, e) \in Seq(S)
           /\ DOMAIN s = 1..Len(s)
           /\ Len(s) \in Nat
           /\ DOMAIN Append(s, e) = DOMAIN s \cup {Len(s) + 1}
           /\ Append(s, e)[Len(s) + 1] = e
           /\ \A i \in DOMAIN s : Append(s, e)[i] = s[i]
OBVIOUS

-----------------------------------------------------------------------------
(* The table: the types of its two indexes, and how they agree *)

TableType == /\ timers \in [Id -> {0} \cup Times]
             /\ endTime \in [Times -> Seq(Id)]
             /\ keys \subseteq Times
             /\ \A t \in Times \ keys : endTime[t] = <<>>
             /\ readded \subseteq Id

TableInv == TableType /\ Indexed /\ NoGhost

\* Removing the i-th element by overwriting it with the last keeps all others.
LEMMA SwapOutElements ==
    ASSUME NEW S, NEW list \in Seq(S), NEW i \in 1..Len(list)
    PROVE  /\ SwapOut(list, i) \in Seq(S)
           /\ DOMAIN SwapOut(list, i) = 1..(Len(list) - 1)
           /\ \A j \in 1..(Len(list) - 1) :
                 SwapOut(list, i)[j] = IF j = i THEN list[Len(list)] ELSE list[j]
<1> DEFINE moved == [list EXCEPT ![i] = list[Len(list)]]
<1>1. moved \in Seq(S) /\ Len(moved) = Len(list)
    OBVIOUS
<1>2. \A j \in 1..Len(list) : moved[j] = IF j = i THEN list[Len(list)] ELSE list[j]
    OBVIOUS
<1>3. SwapOut(list, i) = SubSeq(moved, 1, Len(list) - 1)
    BY DEF SwapOut
<1> HIDE DEF moved
<1>4. QED
    BY <1>1, <1>2, <1>3

\* The table survives a step that leaves it alone.
LEMMA TableStays ==
    TableInv /\ UNCHANGED tableVars => TableInv'
BY DEF TableInv, TableType, Indexed, NoGhost, Listed, tableVars

LEMMA TableAfterAddTimer ==
    ASSUME TableInv, NEW id \in Id, NEW end \in Times, AddTimer(id, end)
    PROVE  TableInv'
<1>0. TableType
    BY DEF TableInv
<1>1. /\ timers[id] = 0
      /\ timers' = [timers EXCEPT ![id] = end]
      /\ endTime' = [endTime EXCEPT ![end] = Append(@, id)]
      /\ keys' = keys \cup {end}
      /\ readded' = readded
    BY DEF AddTimer
<1>2. endTime[end] \in Seq(Id)
    BY <1>0 DEF TableType
<1> DEFINE n == Len(endTime[end]) + 1
<1>3. /\ Append(endTime[end], id) \in Seq(Id)
      /\ DOMAIN Append(endTime[end], id) = DOMAIN endTime[end] \cup {n}
      /\ n \notin DOMAIN endTime[end]
      /\ Append(endTime[end], id)[n] = id
      /\ \A i \in DOMAIN endTime[end] : Append(endTime[end], id)[i] = endTime[end][i]
    BY <1>2, AppendElements
<1> HIDE DEF n
<1>4. /\ endTime'[end] = Append(endTime[end], id)
      /\ \A t \in Times : t # end => endTime'[t] = endTime[t]
    BY <1>0, <1>1 DEF TableType
<1>5. \A k \in Id : timers'[k] = IF k = id THEN end ELSE timers[k]
    BY <1>0, <1>1 DEF TableType
<1>6. \A u \in Times : \A j \in DOMAIN endTime[u] : endTime[u][j] = id => id \in readded
    BY <1>1, TimesAreSeconds DEF TableInv, NoGhost
<1>7. TableType'
    <2>1. endTime' \in [Times -> Seq(Id)]
        BY <1>0, <1>1, <1>3 DEF TableType
    <2>2. timers' \in [Id -> {0} \cup Times]
        BY <1>0, <1>1 DEF TableType
    <2>3. \A t \in Times \ keys' : endTime'[t] = <<>>
        BY <1>0, <1>1, <1>4 DEF TableType
    <2>4. QED
        BY <1>0, <1>1, <2>1, <2>2, <2>3 DEF TableType
<1>8. Indexed'
    <2> SUFFICES ASSUME NEW k \in Id, timers'[k] # 0
                 PROVE  \E i \in DOMAIN endTime'[timers'[k]] : endTime'[timers'[k]][i] = k
        BY DEF Indexed, Listed
    <2>1. CASE k = id
        BY <1>3, <1>4, <1>5, <2>1
    <2>2. CASE k # id
        <3>1. timers'[k] = timers[k] /\ timers[k] \in Times
            BY <1>0, <1>5, <2>2 DEF TableType
        <3>2. PICK i \in DOMAIN endTime[timers[k]] : endTime[timers[k]][i] = k
            BY <3>1 DEF TableInv, Indexed, Listed
        <3>3. i \in DOMAIN endTime'[timers[k]] /\ endTime'[timers[k]][i] = k
            BY <1>3, <1>4, <3>1, <3>2
        <3>4. QED
            BY <3>1, <3>3
    <2>3. QED
        BY <2>1, <2>2
<1>9. NoGhost'
    <2> SUFFICES ASSUME NEW k \in Id \ readded, NEW t \in Times,
                        NEW i \in DOMAIN endTime'[t], endTime'[t][i] = k
                 PROVE  /\ timers'[k] = t
                        /\ \A j \in DOMAIN endTime'[t] : endTime'[t][j] = k => j = i
        BY <1>1 DEF NoGhost
    <2>1. CASE k = id
        <3>1. t = end
            BY <1>4, <1>6, <2>1
        <3>2. \A j \in DOMAIN endTime'[end] : endTime'[end][j] = id => j = n
            BY <1>3, <1>4, <1>6, <2>1
        <3>3. QED
            BY <1>5, <2>1, <3>1, <3>2
    <2>2. CASE k # id
        <3>1. \A j \in DOMAIN endTime'[t] : endTime'[t][j] = k =>
                  j \in DOMAIN endTime[t] /\ endTime[t][j] = k
            BY <1>3, <1>4, <2>2
        <3>2. QED
            BY <1>5, <2>2, <3>1 DEF TableInv, NoGhost
    <2>3. QED
        BY <2>1, <2>2
<1>10. QED
    BY <1>7, <1>8, <1>9 DEF TableInv

LEMMA TableAfterAddManyTimers ==
    ASSUME TableInv, NEW batch \in Batches, AddManyTimers(batch)
    PROVE  TableInv'
<1> DEFINE stale == {id \in Id : SecondsOf(batch, id) # {} /\ ~FreshIn(batch, id)}
<1>0. TableType
    BY DEF TableInv
<1>1. /\ timers' \in [Id -> {0} \cup Times]
      /\ \A id \in Id : IF SecondsOf(batch, id) = {} THEN timers'[id] = timers[id]
                                                    ELSE timers'[id] \in SecondsOf(batch, id)
      /\ endTime' = [t \in Times |-> endTime[t] \o batch[t]]
      /\ keys' = keys \cup {t \in Times : batch[t] # <<>>}
      /\ readded' = readded \cup stale
    BY DEF AddManyTimers
<1>b. batch \in [Times -> Seq(Id)]
    BY BatchesAssumption
<1> HIDE DEF stale
<1>2. \A t \in Times : /\ endTime[t] \in Seq(Id) /\ batch[t] \in Seq(Id)
                       /\ endTime'[t] = endTime[t] \o batch[t]
    BY <1>0, <1>1, <1>b DEF TableType
<1>3. TableType'
    <2>1. endTime' \in [Times -> Seq(Id)]
        <3>1. \A t \in Times : endTime[t] \o batch[t] \in Seq(Id)
            BY <1>2, ConcatElements
        <3>2. QED
            BY <1>1, <3>1
    <2>2. \A t \in Times \ keys' : endTime'[t] = <<>>
        <3> TAKE t \in Times \ keys'
        <3>1. endTime[t] = <<>> /\ batch[t] = <<>>
            BY <1>0, <1>1 DEF TableType
        <3>2. endTime'[t] = <<>> \o <<>>
            BY <1>2, <3>1
        <3>3. QED
            BY <3>2
    <2>3. readded' \subseteq Id
        BY <1>0, <1>1 DEF TableType, stale
    <2>4. QED
        BY <1>0, <1>1, <2>1, <2>2, <2>3 DEF TableType
<1>c. \A t \in Times :
          /\ \A i \in DOMAIN endTime[t] :
                i \in DOMAIN endTime'[t] /\ endTime'[t][i] = endTime[t][i]
          /\ \A i \in DOMAIN batch[t] :
                /\ Len(endTime[t]) + i \in DOMAIN endTime'[t]
                /\ endTime'[t][Len(endTime[t]) + i] = batch[t][i]
          /\ \A i \in DOMAIN endTime'[t] :
                \/ i \in DOMAIN endTime[t] /\ endTime'[t][i] = endTime[t][i]
                \/ /\ i - Len(endTime[t]) \in DOMAIN batch[t]
                   /\ endTime'[t][i] = batch[t][i - Len(endTime[t])]
    <2> TAKE t \in Times
    <2> HIDE DEF stale
    <2> DEFINE s == endTime[t]
               b == batch[t]
    <2>1. s \in Seq(Id) /\ b \in Seq(Id) /\ endTime'[t] = s \o b
        BY <1>2
    <2> HIDE DEF s, b
    <2>2. /\ \A i \in DOMAIN s : i \in DOMAIN (s \o b) /\ (s \o b)[i] = s[i]
          /\ \A i \in DOMAIN b : /\ Len(s) + i \in DOMAIN (s \o b)
                                 /\ (s \o b)[Len(s) + i] = b[i]
          /\ \A i \in DOMAIN (s \o b) :
                \/ i \in DOMAIN s /\ (s \o b)[i] = s[i]
                \/ i - Len(s) \in DOMAIN b /\ (s \o b)[i] = b[i - Len(s)]
        BY <2>1, ConcatElements
    <2>3. QED
        BY <2>1, <2>2 DEF s, b
<1>4. \A t \in Times : \A i \in DOMAIN endTime[t] :
          i \in DOMAIN endTime'[t] /\ endTime'[t][i] = endTime[t][i]
    BY <1>c
<1>5. \A t \in Times : \A i \in DOMAIN batch[t] :
          /\ Len(endTime[t]) + i \in DOMAIN endTime'[t]
          /\ endTime'[t][Len(endTime[t]) + i] = batch[t][i]
    BY <1>c
<1>6. \A t \in Times : \A i \in DOMAIN endTime'[t] :
          \/ i \in DOMAIN endTime[t] /\ endTime'[t][i] = endTime[t][i]
          \/ /\ i - Len(endTime[t]) \in DOMAIN batch[t]
             /\ endTime'[t][i] = batch[t][i - Len(endTime[t])]
    BY <1>c
<1>7. Indexed'
    <2> SUFFICES ASSUME NEW id \in Id, timers'[id] # 0
                 PROVE  \E i \in DOMAIN endTime'[timers'[id]] : endTime'[timers'[id]][i] = id
        BY DEF Indexed, Listed
    <2>1. CASE SecondsOf(batch, id) = {}
        <3>1. timers'[id] = timers[id] /\ timers[id] \in Times
            BY <1>0, <1>1, <2>1 DEF TableType
        <3>2. PICK i \in DOMAIN endTime[timers[id]] : endTime[timers[id]][i] = id
            BY <3>1 DEF TableInv, Indexed, Listed
        <3>3. QED
            BY <1>4, <3>1, <3>2
    <2>2. CASE SecondsOf(batch, id) # {}
        <3>1. timers'[id] \in Times /\ \E i \in DOMAIN batch[timers'[id]] : batch[timers'[id]][i] = id
            BY <1>1, <2>2 DEF SecondsOf
        <3>2. QED
            BY <1>5, <3>1
    <2>3. QED
        BY <2>1, <2>2
<1>8. NoGhost'
    <2> SUFFICES ASSUME NEW id \in Id, id \notin readded, id \notin stale, NEW t \in Times,
                        NEW i \in DOMAIN endTime'[t], endTime'[t][i] = id
                 PROVE  /\ timers'[id] = t
                        /\ \A j \in DOMAIN endTime'[t] : endTime'[t][j] = id => j = i
        BY <1>1 DEF NoGhost
    <2>1. CASE SecondsOf(batch, id) = {}
        <3>1. \A u \in Times : \A j \in DOMAIN batch[u] : batch[u][j] # id
            BY <2>1 DEF SecondsOf
        <3>2. \A j \in DOMAIN endTime'[t] : endTime'[t][j] = id =>
                  j \in DOMAIN endTime[t] /\ endTime[t][j] = id
            BY <1>6, <3>1
        <3>3. timers'[id] = timers[id]
            BY <1>1, <2>1
        <3>4. QED
            BY <3>2, <3>3 DEF TableInv, NoGhost
    <2>2. CASE SecondsOf(batch, id) # {}
        <3>1. FreshIn(batch, id)
            BY <2>2 DEF stale
        <3>2. \A u \in Times : \A j \in DOMAIN endTime[u] : endTime[u][j] # id
            BY <3>1, TimesAreSeconds DEF TableInv, NoGhost, FreshIn
        <3>3. \A j \in DOMAIN endTime'[t] : endTime'[t][j] = id =>
                  /\ j - Len(endTime[t]) \in DOMAIN batch[t]
                  /\ batch[t][j - Len(endTime[t])] = id
            BY <1>6, <3>2
        <3>4. \A j \in DOMAIN endTime'[t] : endTime'[t][j] = id => j = i
            <4> TAKE j \in DOMAIN endTime'[t]
            <4> HAVE endTime'[t][j] = id
            <4>0. /\ j - Len(endTime[t]) \in DOMAIN batch[t]
                  /\ batch[t][j - Len(endTime[t])] = id
                  /\ i - Len(endTime[t]) \in DOMAIN batch[t]
                  /\ batch[t][i - Len(endTime[t])] = id
                BY <3>3
            <4>1. j - Len(endTime[t]) = i - Len(endTime[t])
                BY <3>1, <4>0 DEF FreshIn
            <4>2. i \in Nat /\ j \in Nat /\ Len(endTime[t]) \in Nat
                <5>1. endTime[t] \in Seq(Id) /\ endTime'[t] \in Seq(Id)
                    BY <1>2, <1>3 DEF TableType
                <5>2. QED
                    BY <5>1
            <4>3. QED
                BY <4>1, <4>2
        <3>5. timers'[id] = t
            <4>1. timers'[id] \in SecondsOf(batch, id)
                BY <1>1, <2>2
            <4>2. t \in SecondsOf(batch, id)
                BY <3>3 DEF SecondsOf
            <4>3. \A u, v \in SecondsOf(batch, id) : u = v
                BY <3>1 DEF SecondsOf, FreshIn
            <4>4. QED
                BY <4>1, <4>2, <4>3
        <3>6. QED
            BY <3>4, <3>5
    <2>3. QED
        BY <2>1, <2>2
<1>9. QED
    BY <1>3, <1>7, <1>8 DEF TableInv

LEMMA TableAfterRemoveTimer ==
    ASSUME TableInv, NEW id \in Id, RemoveTimer(id)
    PROVE  TableInv'
<1> DEFINE end  == timers[id]
           list == endTime[end]
<1>0. TableType
    BY DEF TableInv
<1>1. end \in Times /\ list \in Seq(Id)
    BY <1>0 DEF TableType, RemoveTimer
<1>2. PICK i \in DOMAIN list : list[i] = id /\ endTime' = [endTime EXCEPT ![end] = SwapOut(@, i)]
    BY DEF RemoveTimer
<1>3. /\ \A k \in Id : timers'[k] = IF k = id THEN 0 ELSE timers[k]
      /\ timers' \in [Id -> {0} \cup Times]
      /\ keys' = keys /\ readded' = readded
    BY <1>0 DEF TableType, RemoveTimer
<1> DEFINE last == Len(list)
           rest == SwapOut(list, i)
<1>4. last \in Nat /\ DOMAIN list = 1..last /\ i \in 1..last
    BY <1>1, <1>2
<1>5. endTime'[end] = rest /\ \A t \in Times : t # end => endTime'[t] = endTime[t]
    BY <1>0, <1>1, <1>2 DEF TableType
<1> HIDE DEF end
<1>6. /\ rest \in Seq(Id)
      /\ DOMAIN rest = 1..(last - 1)
      /\ \A j \in 1..(last - 1) : rest[j] = IF j = i THEN list[last] ELSE list[j]
    BY <1>1, <1>4, SwapOutElements
<1> HIDE DEF list, rest, last
<1>7. TableType'
    <2>1. endTime' \in [Times -> Seq(Id)]
        BY <1>0, <1>2, <1>6 DEF TableType, list, rest
    <2>2. \A t \in Times \ keys' : endTime'[t] = <<>>
        <3>1. end \in keys
            <4>1. list # <<>>
                BY <1>2
            <4>2. QED
                BY <1>0, <1>1, <4>1 DEF TableType, list
        <3>2. QED
            BY <1>0, <1>3, <1>5, <3>1 DEF TableType
    <2>3. QED
        BY <1>0, <1>3, <2>1, <2>2 DEF TableType
<1>8. Indexed'
    <2> SUFFICES ASSUME NEW k \in Id, timers'[k] # 0
                 PROVE  \E j \in DOMAIN endTime'[timers'[k]] : endTime'[timers'[k]][j] = k
        BY DEF Indexed, Listed
    <2>1. k # id /\ timers'[k] = timers[k] /\ timers[k] \in Times
        BY <1>0, <1>3 DEF TableType
    <2>2. PICK j \in DOMAIN endTime[timers[k]] : endTime[timers[k]][j] = k
        BY <2>1 DEF TableInv, Indexed, Listed
    <2>3. CASE timers[k] # end
        BY <1>5, <2>1, <2>2, <2>3
    <2>4. CASE timers[k] = end
        <3>1. j \in 1..last /\ list[j] = k /\ j # i
            BY <1>2, <1>4, <2>1, <2>2, <2>4 DEF list
        <3>2. CASE j = last
            <4>1. i \in 1..(last - 1) /\ rest[i] = k
                BY <1>4, <1>6, <3>1, <3>2
            <4>2. QED
                BY <1>5, <1>6, <2>1, <2>4, <4>1
        <3>3. CASE j # last
            <4>1. j \in 1..(last - 1) /\ rest[j] = k
                BY <1>4, <1>6, <3>1, <3>3
            <4>2. QED
                BY <1>5, <1>6, <2>1, <2>4, <4>1
        <3>4. QED
            BY <3>2, <3>3
    <2>5. QED
        BY <2>3, <2>4
<1>9. NoGhost'
    <2> SUFFICES ASSUME NEW k \in Id \ readded, NEW t \in Times,
                        NEW j \in DOMAIN endTime'[t], endTime'[t][j] = k
                 PROVE  /\ timers'[k] = t
                        /\ \A h \in DOMAIN endTime'[t] : endTime'[t][h] = k => h = j
        BY <1>3 DEF NoGhost
    <2>1. \A u \in Times : \A h \in DOMAIN endTime[u] : endTime[u][h] = k =>
              timers[k] = u /\ \A g \in DOMAIN endTime[u] : endTime[u][g] = k => g = h
        BY DEF TableInv, NoGhost
    <2>2. CASE t # end
        <3>1. timers[k] = t /\ \A h \in DOMAIN endTime'[t] : endTime'[t][h] = k => h = j
            BY <1>5, <2>1, <2>2
        <3>2. k # id
            BY <2>2, <3>1 DEF end
        <3>3. QED
            BY <1>3, <3>1, <3>2
    <2>3. CASE t = end
        <3>1. \A h, g \in 1..last : list[h] = k /\ list[g] = k => timers[k] = end /\ h = g
            BY <1>1, <1>4, <2>1 DEF list
        <3>2. \A h \in 1..(last - 1) : rest[h] = k =>
                  /\ list[IF h = i THEN last ELSE h] = k
                  /\ (IF h = i THEN last ELSE h) \in 1..last
                  /\ (IF h = i THEN last ELSE h) # i
            BY <1>4, <1>6
        <3>3. j \in 1..(last - 1) /\ rest[j] = k
            BY <1>5, <1>6, <2>3
        <3>4. k # id
            BY <1>2, <1>4, <3>1, <3>2, <3>3
        <3>5. \A h \in 1..(last - 1) : rest[h] = k => h = j
            BY <1>4, <3>1, <3>2, <3>3
        <3>6. timers[k] = end
            BY <3>1, <3>2, <3>3
        <3>7. QED
            BY <1>3, <1>5, <1>6, <2>3, <3>4, <3>5, <3>6
    <2>4. QED
        BY <2>2, <2>3
<1>10. QED
    BY <1>7, <1>8, <1>9 DEF TableInv

LEMMA TableAfterFinish ==
    ASSUME TableInv, NEW g \in Tick, now[g] \in Times, Finish(g)
    PROVE  TableInv'
<1>0. TableType
    BY DEF TableInv
<1>1. /\ \A id \in Id : timers'[id] = IF Listed(id, now[g]) THEN 0 ELSE timers[id]
      /\ timers' \in [Id -> {0} \cup Times]
      /\ endTime' = [endTime EXCEPT ![now[g]] = <<>>]
      /\ keys' = keys \ {now[g]}
      /\ readded' = readded
    BY <1>0 DEF TableType, Finish
<1>2. endTime'[now[g]] = <<>> /\ \A t \in Times : t # now[g] => endTime'[t] = endTime[t]
    BY <1>0, <1>1 DEF TableType
<1>3. TableType'
    <2>1. endTime' \in [Times -> Seq(Id)]
        BY <1>0, <1>1 DEF TableType
    <2>2. \A t \in Times \ keys' : endTime'[t] = <<>>
        BY <1>0, <1>1, <1>2 DEF TableType
    <2>3. QED
        BY <1>0, <1>1, <2>1, <2>2 DEF TableType
<1>4. Indexed'
    <2> SUFFICES ASSUME NEW k \in Id, timers'[k] # 0
                 PROVE  \E j \in DOMAIN endTime'[timers'[k]] : endTime'[timers'[k]][j] = k
        BY DEF Indexed, Listed
    <2>1. ~Listed(k, now[g]) /\ timers'[k] = timers[k] /\ timers[k] \in Times
        BY <1>0, <1>1 DEF TableType
    <2>2. Listed(k, timers[k])
        BY <2>1 DEF TableInv, Indexed
    <2>3. timers[k] # now[g]
        BY <2>1, <2>2
    <2>4. QED
        BY <1>2, <2>1, <2>2, <2>3 DEF Listed
<1>5. NoGhost'
    <2> SUFFICES ASSUME NEW k \in Id \ readded, NEW t \in Times,
                        NEW j \in DOMAIN endTime'[t], endTime'[t][j] = k
                 PROVE  /\ timers'[k] = t
                        /\ \A h \in DOMAIN endTime'[t] : endTime'[t][h] = k => h = j
        BY <1>1 DEF NoGhost
    <2>1. t # now[g] /\ endTime'[t] = endTime[t]
        BY <1>2
    <2>2. timers[k] = t /\ \A h \in DOMAIN endTime[t] : endTime[t][h] = k => h = j
        BY <2>1 DEF TableInv, NoGhost
    <2>3. ~Listed(k, now[g])
        BY <2>1, <2>2 DEF TableInv, NoGhost, Listed
    <2>4. QED
        BY <1>1, <2>1, <2>2, <2>3
<1>6. QED
    BY <1>3, <1>4, <1>5 DEF TableInv

LEMMA TableAfterClose ==
    ASSUME TableInv, CloseTicker
    PROVE  TableInv'
<1>1. \A t \in Times : endTime'[t] = <<>>
    BY DEF CloseTicker
<1>2. TableType'
    BY DEF TableInv, TableType, CloseTicker
<1>3. Indexed'
    BY DEF CloseTicker, Indexed
<1>4. NoGhost'
    BY <1>1 DEF NoGhost
<1>5. QED
    BY <1>2, <1>3, <1>4 DEF TableInv

-----------------------------------------------------------------------------
(* The goroutines: who holds which mutex, and which second they have read *)

ControlType == /\ clock \in Nat
               /\ mu \in {Free, Closer} \cup Tick
               /\ subMu \in {Free, Leaked} \cup Tick
               /\ tpc \in [Tick -> {"idle", "spawned", "captured", "locked", "sending"}]
               /\ now \in [Tick -> Nat]
               /\ togo \in [Tick -> SUBSET Stream]
               /\ captured \subseteq Nat
               /\ storage \subseteq Stream

StreamType == /\ channel \in [Stream -> Seq(Seq(Id))]
              /\ \A s \in Stream : Len(channel[s]) <= Capacity
              /\ reader \in [Stream -> {"none", "reading", "closing", "closed"}]
              /\ loop \in {"none", "checking", "sleeping", "returned"}
              /\ cancelled \in BOOLEAN

\* The mutex of the ticker is held by the goroutine that found timers for its
\* second, that of the streams by the one that serves them.
Locks == \A g \in Tick : /\ tpc[g] \in {"locked", "sending"} <=> mu = g
                         /\ tpc[g] = "sending" <=> subMu = g
                         /\ mu = g => now[g] \in keys

\* Nobody has read a second that is to come.
Past == captured \subseteq 0..clock /\ \A g \in Tick : now[g] <= clock

\* A goroutine that has not read the clock has no second.
Fresh == \A g \in Tick : tpc[g] \in {"idle", "spawned"} => now[g] = 0

ControlInv == ControlType /\ Locks /\ SendsToOpen /\ Past /\ Fresh

IInv == TableInv /\ ControlInv /\ StreamType /\ OverdueOnlyIfSkipped

LEMMA TypesAreParts == TypeOK <=> TableType /\ ControlType /\ StreamType
BY DEF TypeOK, TableType, ControlType, StreamType

LEMMA MutexValues == Free \notin Tick /\ Closer \notin Tick /\ Leaked \notin Tick
                     /\ Free # Closer /\ Free # Leaked
BY TickAssumption DEF Free, Closer, Leaked

LEMMA InitInv == Init => IInv
<1> SUFFICES ASSUME Init PROVE IInv
    OBVIOUS
<1>1. TableInv
    BY DEF Init, TableInv, TableType, Indexed, NoGhost
<1>2. ControlInv
    BY MutexValues DEF Init, ControlInv, ControlType, Locks, SendsToOpen, Past, Fresh
<1>3. StreamType
    <2>1. Len(<<>>) <= Capacity /\ <<>> \in Seq(Seq(Id))
        BY BoundsAssumption
    <2>2. QED
        BY <2>1 DEF Init, StreamType
<1>4. OverdueOnlyIfSkipped
    BY DEF Init, OverdueOnlyIfSkipped
<1>5. QED
    BY <1>1, <1>2, <1>3, <1>4 DEF IInv

-----------------------------------------------------------------------------
(* The table in a step *)

LEMMA TableInvKept == ASSUME IInv, [Next]_vars PROVE TableInv'
<1>1. TableInv /\ ControlInv
    BY DEF IInv
<1>2. CASE UNCHANGED tableVars
    BY <1>1, <1>2, TableStays
<1>3. CASE TableStep
    <2>1. CASE \E id \in Id, end \in Times : AddTimer(id, end)
        BY <1>1, <2>1, TableAfterAddTimer
    <2>2. CASE \E batch \in Batches : AddManyTimers(batch)
        BY <1>1, <2>2, TableAfterAddManyTimers
    <2>3. CASE \E id \in Id : RemoveTimer(id)
        BY <1>1, <2>3, TableAfterRemoveTimer
    <2>4. QED
        BY <1>3, <2>1, <2>2, <2>3 DEF TableStep
<1>4. ASSUME NEW g \in Tick, Finish(g) PROVE TableInv'
    <2>1. now[g] \in keys /\ keys \subseteq Times
        BY <1>1, <1>4 DEF ControlInv, ControlType, Locks, TableInv, TableType, Finish
    <2>2. QED
        BY <1>1, <1>4, <2>1, TableAfterFinish
<1>5. CASE CloseTicker
    BY <1>1, <1>5, TableAfterClose
<1>6. ASSUME NEW g \in Tick, TickStep(g), ~Finish(g) PROVE UNCHANGED tableVars
    BY <1>6 DEF TickStep, Spawn, Capture, LockTicker, LockStreams, Sends, Send, tableVars
<1>7. CASE Start \/ Cancel \/ CheckContext \/ CloseStreams \/ Clock
    BY <1>2, <1>7 DEF Start, Cancel, CheckContext, CloseStreams, Clock
<1>8. ASSUME NEW s \in Stream, StreamStep(s) PROVE UNCHANGED tableVars
    BY <1>8 DEF StreamStep
<1>9. CASE UNCHANGED vars
    BY <1>2, <1>9 DEF vars
<1>10. QED
    BY <1>2, <1>3, <1>4, <1>5, <1>6, <1>7, <1>8, <1>9 DEF Next

-----------------------------------------------------------------------------
(* The goroutines in a step *)

LEMMA ControlStays ==
    ControlInv /\ keys \subseteq keys'
        /\ UNCHANGED <<clock, mu, subMu, storage, tickVars>> => ControlInv'
BY DEF ControlInv, ControlType, Locks, SendsToOpen, Past, Fresh, tickVars

LEMMA ControlAfterTick ==
    ASSUME ControlInv, NEW g \in Tick, TickStep(g)
    PROVE  ControlInv'
<1>0. UNCHANGED <<clock, storage>>
    BY DEF TickStep
<1>1. CASE Spawn(g)
    BY <1>0, <1>1 DEF Spawn, ControlInv, ControlType, Locks, SendsToOpen, Past, Fresh, tableVars
<1>2. CASE Capture(g)
    BY <1>0, <1>2 DEF Capture, ControlInv, ControlType, Locks, SendsToOpen, Past, Fresh, tableVars
<1>3. CASE LockTicker(g)
    <2>1. CASE HoldTicker(g) /\ now[g] \in keys
        BY <1>0, <1>3, <2>1, MutexValues
        DEF LockTicker, HoldTicker, ControlInv, ControlType, Locks, SendsToOpen, Past, Fresh, tableVars
    <2>2. CASE Return(g) /\ UNCHANGED mu
        BY <1>0, <1>3, <2>2, MutexValues
        DEF LockTicker, Return, ControlInv, ControlType, Locks, SendsToOpen, Past, Fresh, tableVars
    <2>3. QED
        BY <1>3, <2>1, <2>2 DEF LockTicker
<1>4. CASE LockStreams(g)
    BY <1>0, <1>4, MutexValues
    DEF LockStreams, ControlInv, ControlType, Locks, SendsToOpen, Past, Fresh, tableVars
<1>5. CASE Sends(g)
    BY <1>0, <1>5 DEF Sends, Send, ControlInv, ControlType, Locks, SendsToOpen, Past, Fresh, tableVars
<1>6. CASE Finish(g)
    BY <1>0, <1>6, MutexValues
    DEF Finish, Return, ControlInv, ControlType, Locks, SendsToOpen, Past, Fresh
<1>7. QED
    BY <1>1, <1>2, <1>3, <1>4, <1>5, <1>6 DEF TickStep

LEMMA ControlAfterStream ==
    ASSUME ControlInv, NEW s \in Stream, StreamStep(s)
    PROVE  ControlInv'
<1>0. UNCHANGED <<clock, mu, keys, tickVars>>
    BY DEF StreamStep, tableVars
<1>1. CASE NewStream(s)
    BY <1>0, <1>1 DEF NewStream, ControlInv, ControlType, Locks, SendsToOpen, Past, Fresh, tickVars
<1>2. CASE Receive(s)
    BY <1>0, <1>2 DEF Receive, ControlInv, ControlType, Locks, SendsToOpen, Past, Fresh, tickVars
<1>3. CASE StopReading(s)
    BY <1>0, <1>3 DEF StopReading, ControlInv, ControlType, Locks, SendsToOpen, Past, Fresh, tickVars
<1>4. CASE Unsubscribe(s)
    BY <1>0, <1>4, MutexValues
    DEF Unsubscribe, ControlInv, ControlType, Locks, SendsToOpen, Past, Fresh, tickVars
<1>5. QED
    BY <1>1, <1>2, <1>3, <1>4 DEF StreamStep

LEMMA ControlInvKept == ASSUME IInv, [Next]_vars PROVE ControlInv'
<1>1. ControlInv
    BY DEF IInv
<1>2. CASE TableStep
    <2>1. keys \subseteq keys'
        BY <1>2 DEF TableStep, AddTimer, AddManyTimers, RemoveTimer
    <2>2. QED
        BY <1>1, <1>2, <2>1, ControlStays DEF TableStep, streamVars
<1>3. CASE Start \/ Cancel \/ CheckContext
    BY <1>1, <1>3, ControlStays DEF Start, Cancel, CheckContext, streamVars, tableVars
<1>4. ASSUME NEW g \in Tick, TickStep(g) PROVE ControlInv'
    BY <1>1, <1>4, ControlAfterTick
<1>5. ASSUME NEW s \in Stream, StreamStep(s) PROVE ControlInv'
    BY <1>1, <1>5, ControlAfterStream
<1>6. CASE CloseTicker
    BY <1>1, <1>6, MutexValues
    DEF CloseTicker, ControlInv, ControlType, Locks, SendsToOpen, Past, Fresh, tickVars, streamVars
<1>7. CASE CloseStreams
    BY <1>1, <1>7, MutexValues
    DEF CloseStreams, ControlInv, ControlType, Locks, SendsToOpen, Past, Fresh, tickVars, tableVars
<1>8. CASE Clock
    BY <1>1, <1>8
    DEF Clock, ControlInv, ControlType, Locks, SendsToOpen, Past, Fresh, tickVars, tableVars, streamVars
<1>9. CASE UNCHANGED vars
    BY <1>1, <1>9, ControlStays DEF vars, tableVars, streamVars
<1>10. QED
    BY <1>2, <1>3, <1>4, <1>5, <1>6, <1>7, <1>8, <1>9 DEF Next

-----------------------------------------------------------------------------
(* The streams in a step *)

LEMMA StreamTypeKept == ASSUME IInv, [Next]_vars PROVE StreamType'
<1>0. TableInv /\ ControlInv /\ StreamType
    BY DEF IInv
<1>1. CASE UNCHANGED <<channel, reader, loopVars>>
    BY <1>0, <1>1 DEF StreamType, loopVars
<1>2. CASE Start \/ Cancel \/ CheckContext
    BY <1>0, <1>2 DEF Start, Cancel, CheckContext, Loop, StreamType, streamVars
<1>3. CASE TableStep \/ CloseStreams \/ Clock
    BY <1>1, <1>3 DEF TableStep, CloseStreams, Clock, streamVars
<1>4. CASE CloseTicker
    BY <1>0, <1>4 DEF CloseTicker, StreamType, streamVars
<1>5. ASSUME NEW g \in Tick, NEW s \in Stream, Send(g, s) PROVE
          /\ channel' \in [Stream -> Seq(Seq(Id))]
          /\ \A r \in Stream : Len(channel'[r]) <= Capacity
    <2>1. now[g] \in Times
        BY <1>0, <1>5 DEF Send, ControlInv, ControlType, Locks, TableInv, TableType
    <2>2. channel[s] \in Seq(Seq(Id)) /\ endTime[now[g]] \in Seq(Id)
        BY <1>0, <2>1 DEF StreamType, TableInv, TableType
    <2>3. /\ Append(channel[s], endTime[now[g]]) \in Seq(Seq(Id))
          /\ Len(Append(channel[s], endTime[now[g]])) = Len(channel[s]) + 1
          /\ Len(channel[s]) \in Nat
        BY <2>2
    <2>4. Len(channel[s]) + 1 <= Capacity
        BY <1>5, <2>3, BoundsAssumption DEF Send
    <2>5. QED
        BY <1>0, <1>5, <2>3, <2>4 DEF Send, StreamType
<1>6. ASSUME NEW g \in Tick, TickStep(g) PROVE StreamType'
    <2>1. CASE Sends(g)
        BY <1>0, <1>5, <1>6, <2>1 DEF Sends, TickStep, Spawn, Send, StreamType
    <2>2. CASE Spawn(g)
        BY <1>0, <1>6, <2>2 DEF TickStep, Spawn, Loop, StreamType
    <2>3. CASE ~Sends(g) /\ ~Spawn(g)
        BY <1>0, <1>6, <2>3
        DEF TickStep, Capture, LockTicker, LockStreams, Finish, StreamType
    <2>4. QED
        BY <2>1, <2>2, <2>3
<1>7. ASSUME NEW s \in Stream, StreamStep(s) PROVE StreamType'
    <2>0. UNCHANGED loopVars
        BY <1>7 DEF StreamStep
    <2>1. CASE Receive(s)
        <3>1. channel[s] \in Seq(Seq(Id)) /\ channel[s] # <<>>
            BY <1>0, <2>1 DEF StreamType, Receive
        <3>2. /\ Tail(channel[s]) \in Seq(Seq(Id))
              /\ Len(Tail(channel[s])) = Len(channel[s]) - 1
              /\ Len(channel[s]) \in Nat
            BY <3>1
        <3>3. Len(Tail(channel[s])) <= Capacity
            BY <1>0, <3>2, BoundsAssumption DEF StreamType
        <3>4. QED
            BY <1>0, <2>0, <2>1, <3>2, <3>3 DEF StreamType, Receive, loopVars
    <2>2. CASE NewStream(s) \/ StopReading(s) \/ Unsubscribe(s)
        BY <1>0, <2>0, <2>2 DEF NewStream, StopReading, Unsubscribe, StreamType, loopVars
    <2>3. QED
        BY <1>7, <2>1, <2>2 DEF StreamStep
<1>8. CASE UNCHANGED vars
    BY <1>1, <1>8 DEF vars, streamVars
<1>9. QED
    BY <1>2, <1>3, <1>4, <1>6, <1>7, <1>8 DEF Next

-----------------------------------------------------------------------------
(* Overdue timers in a step *)

\* Nothing that is due is registered in this step, so what is overdue after it
\* was overdue, or its second has been read now, or its goroutine is gone.
LEMMA OverdueStays ==
    ASSUME IInv, UNCHANGED <<tpc, now, captured>>,
           \A id \in Id : timers'[id] \in {0, timers[id]} \/ clock < timers'[id]
    PROVE  OverdueOnlyIfSkipped'
<1> SUFFICES ASSUME NEW id \in Id, timers'[id] # 0, timers'[id] \in captured
             PROVE  \E g \in Tick : tpc[g] # "idle" /\ now[g] = timers'[id]
    BY DEF OverdueOnlyIfSkipped
<1>1. captured \subseteq 0..clock /\ clock \in Nat
    BY DEF IInv, ControlInv, ControlType, Past
<1>2. ~(clock < timers'[id])
    <2> DEFINE t == timers'[id]
    <2>1. t \in 0..clock
        BY <1>1
    <2> HIDE DEF t
    <2>2. ~(clock < t)
        BY <1>1, <2>1
    <2>3. QED
        BY <2>2 DEF t
<1>3. timers'[id] = timers[id]
    BY <1>2
<1>4. QED
    BY <1>3 DEF IInv, OverdueOnlyIfSkipped

LEMMA OverdueAfterTick ==
    ASSUME IInv, NEW g \in Tick, TickStep(g)
    PROVE  OverdueOnlyIfSkipped'
<1>0. TableType /\ ControlType /\ Locks /\ Indexed /\ OverdueOnlyIfSkipped
    BY DEF IInv, TableInv, ControlInv
<1>1. CASE Spawn(g) \/ LockStreams(g) \/ Sends(g)
    <2>1. /\ UNCHANGED <<timers, now, captured>>
          /\ \A h \in Tick : tpc[h] # "idle" => tpc'[h] # "idle"
        BY <1>0, <1>1 DEF Spawn, LockStreams, Sends, Send, ControlType, tableVars
    <2>2. QED
        BY <1>0, <2>1 DEF OverdueOnlyIfSkipped
<1>2. CASE Capture(g)
    <2>1. /\ UNCHANGED timers
          /\ captured' = captured \cup {clock}
          /\ tpc'[g] # "idle" /\ now'[g] = clock
          /\ \A h \in Tick : h # g => tpc'[h] = tpc[h] /\ now'[h] = now[h]
        BY <1>0, <1>2 DEF Capture, ControlType, tableVars
    <2>2. \A id \in Id : timers[id] # 0 /\ timers[id] \in captured =>
              \E h \in Tick : tpc[h] # "idle" /\ now[h] = timers[id]
        BY <1>0 DEF OverdueOnlyIfSkipped
    <2>3. tpc[g] = "spawned" => now[g] = 0
        BY <1>2 DEF Capture, IInv, ControlInv, Fresh
    <2>4. QED
        BY <1>0, <1>2, <2>1, <2>2, <2>3 DEF OverdueOnlyIfSkipped, Capture
<1>3. CASE LockTicker(g)
    <2>1. CASE HoldTicker(g)
        BY <1>0, <1>3, <2>1
        DEF LockTicker, HoldTicker, ControlType, OverdueOnlyIfSkipped, tableVars
    <2>2. CASE Return(g) /\ now[g] \notin keys
        <3>1. \A id \in Id : timers[id] # 0 => timers[id] # now[g]
            BY <1>0, <2>2 DEF TableType, Indexed, Listed
        <3>2. /\ UNCHANGED <<timers, captured>>
              /\ \A h \in Tick : h # g => tpc'[h] = tpc[h] /\ now'[h] = now[h]
            BY <1>0, <1>3, <2>2 DEF LockTicker, Return, ControlType, tableVars
        <3>3. QED
            BY <1>0, <3>1, <3>2 DEF OverdueOnlyIfSkipped
    <2>3. QED
        BY <1>3, <2>1, <2>2 DEF LockTicker
<1>4. CASE Finish(g)
    <2>1. \A id \in Id : timers'[id] = IF Listed(id, now[g]) THEN 0 ELSE timers[id]
        BY <1>4 DEF Finish
    <2>2. \A id \in Id : timers'[id] # 0 => timers'[id] = timers[id] /\ timers[id] # now[g]
        BY <1>0, <2>1 DEF Indexed
    <2>3. /\ UNCHANGED captured
          /\ \A h \in Tick : h # g => tpc'[h] = tpc[h] /\ now'[h] = now[h]
        BY <1>0, <1>4 DEF Finish, Return, ControlType
    <2>4. QED
        BY <1>0, <2>2, <2>3 DEF OverdueOnlyIfSkipped
<1>5. QED
    BY <1>1, <1>2, <1>3, <1>4 DEF TickStep

LEMMA OverdueKept == ASSUME IInv, [Next]_vars PROVE OverdueOnlyIfSkipped'
<1>0. TableType
    BY DEF IInv, TableInv
<1>1. CASE UNCHANGED <<timers, tpc, now, captured>>
    BY <1>1, OverdueStays
<1>2. CASE TableStep
    <2>1. UNCHANGED <<tpc, now, captured>>
        BY <1>2 DEF TableStep, tickVars
    <2>2. \A id \in Id : timers'[id] \in {0, timers[id]} \/ clock < timers'[id]
        <3>1. ASSUME NEW k \in Id, NEW end \in Times, AddTimer(k, end)
              PROVE  \A id \in Id : timers'[id] \in {0, timers[id]} \/ clock < timers'[id]
            BY <1>0, <3>1 DEF AddTimer, TableType
        <3>2. ASSUME NEW k \in Id, RemoveTimer(k)
              PROVE  \A id \in Id : timers'[id] \in {0, timers[id]} \/ clock < timers'[id]
            BY <1>0, <3>2 DEF RemoveTimer, TableType
        <3>3. ASSUME NEW batch \in Batches, AddManyTimers(batch), NEW id \in Id
              PROVE  timers'[id] = timers[id] \/ clock < timers'[id]
            <4>1. CASE SecondsOf(batch, id) = {}
                BY <3>3, <4>1 DEF AddManyTimers
            <4>2. CASE SecondsOf(batch, id) # {}
                <5>1. timers'[id] \in SecondsOf(batch, id)
                    BY <3>3, <4>2 DEF AddManyTimers
                <5>2. timers'[id] \in Times /\ DOMAIN batch[timers'[id]] # {}
                    BY <5>1 DEF SecondsOf
                <5>3. batch[timers'[id]] # <<>>
                    BY <5>2
                <5>4. QED
                    BY <3>3, <5>2, <5>3 DEF AddManyTimers
            <4>3. QED
                BY <4>1, <4>2
        <3>4. QED
            BY <1>2, <3>1, <3>2, <3>3 DEF TableStep
    <2>3. QED
        BY <2>1, <2>2, OverdueStays
<1>3. ASSUME NEW g \in Tick, TickStep(g) PROVE OverdueOnlyIfSkipped'
    BY <1>3, OverdueAfterTick
<1>4. CASE CloseTicker
    BY <1>4 DEF CloseTicker, OverdueOnlyIfSkipped
<1>5. CASE Start \/ Cancel \/ CheckContext \/ CloseStreams \/ Clock \/ UNCHANGED vars
    BY <1>1, <1>5
    DEF Start, Cancel, CheckContext, CloseStreams, Clock, vars, tableVars, tickVars
<1>6. ASSUME NEW s \in Stream, StreamStep(s) PROVE OverdueOnlyIfSkipped'
    BY <1>1, <1>6 DEF StreamStep, tableVars, tickVars
<1>7. QED
    BY <1>2, <1>3, <1>4, <1>5, <1>6 DEF Next

-----------------------------------------------------------------------------
(* Theorems *)

\* The inductive invariant holds in every state: the two indexes agree, the
\* mutexes are held by the goroutines that use them, and all types are right.
THEOREM Invariance == Spec => []IInv
<1>1. IInv /\ [Next]_vars => IInv'
    BY TableInvKept, ControlInvKept, StreamTypeKept, OverdueKept DEF IInv
<1>2. QED
    BY <1>1, InitInv, PTL DEF Spec

\* Every variable has its type; in particular no channel holds more than its
\* capacity.
THEOREM TypeCorrect == Spec => []TypeOK
<1>1. IInv => TypeOK
    BY TypesAreParts DEF IInv, TableInv, ControlInv
<1>2. QED
    BY <1>1, Invariance, PTL

\* A registered timer is in the list of its second, so the loop of Start will
\* find it there (AddTimer, AddManyTimers and RemoveTimer change both indexes).
THEOREM RegisteredAreListed == Spec => []Indexed
<1>1. IInv => Indexed
    BY DEF IInv, TableInv
<1>2. QED
    BY <1>1, Invariance, PTL

\* What was never registered twice is in no list but the one of its second, and
\* in none twice: RemoveTimer, which overwrites the removed element with the
\* last of the list, leaves nothing behind that would fire later.
THEOREM ListedAreRegistered == Spec => []NoGhost
<1>1. IInv => NoGhost
    BY DEF IInv, TableInv
<1>2. QED
    BY <1>1, Invariance, PTL

\* SendAll sends to open channels only.
THEOREM NoSendOnClosed == Spec => []SendsToOpen
<1>1. IInv => SendsToOpen
    BY DEF IInv, ControlInv
<1>2. QED
    BY <1>1, Invariance, PTL

\* A timer is overdue only when no tick has read its second, or while one that
\* has is on its way.
THEOREM OverdueWasSkipped == Spec => []OverdueOnlyIfSkipped
<1>1. IInv => OverdueOnlyIfSkipped
    BY DEF IInv
<1>2. QED
    BY <1>1, Invariance, PTL

\* What a goroutine sends is the list of a second that has come, and every
\* timer in it that was never registered twice is registered for that second.
LEMMA SendRegistered ==
    ASSUME IInv, NEW g \in Tick, NEW r \in Stream, Send(g, r),
           NEW s \in Stream, Len(channel'[s]) > Len(channel[s])
    PROVE  LET batch == channel'[s][Len(channel'[s])] IN
           \A i \in DOMAIN batch :
               batch[i] \notin readded => timers[batch[i]] \in 1..clock
<1>0. TableType /\ ControlType /\ StreamType /\ Locks /\ Past /\ NoGhost
    BY DEF IInv, TableInv, ControlInv
<1> DEFINE list == endTime[now[g]]
<1>1. now[g] \in Times /\ now[g] \in 1..clock
    BY <1>0, TimesAreSeconds DEF Send, ControlType, Locks, TableType, Past
<1>2. list \in Seq(Id) /\ channel[s] \in Seq(Seq(Id))
    BY <1>0, <1>1 DEF TableType, StreamType
<1>3. channel'[s] = Append(channel[s], list)
    BY <1>0, <1>2 DEF Send, StreamType
<1> HIDE DEF list
<1>4. channel'[s][Len(channel'[s])] = list
    BY <1>2, <1>3
<1>5. \A i \in DOMAIN list : list[i] \in Id
    BY <1>2
<1>6. \A i \in DOMAIN list : list[i] \notin readded => timers[list[i]] = now[g]
    BY <1>0, <1>1, <1>5 DEF NoGhost, list
<1>7. QED
    BY <1>1, <1>4, <1>6

\* A stream is sent registered timers only, at their second or later.
THEOREM SendsAreDue == Spec => FiresRegistered
<1> DEFINE A == \A s \in Stream :
                   Len(channel'[s]) > Len(channel[s]) =>
                       LET batch == channel'[s][Len(channel'[s])] IN
                       \A i \in DOMAIN batch :
                           batch[i] \notin readded => timers[batch[i]] \in 1..clock
<1>1. IInv /\ [Next]_vars => [A]_vars
    <2> SUFFICES ASSUME IInv, Next, NEW s \in Stream, Len(channel'[s]) > Len(channel[s])
                 PROVE  LET batch == channel'[s][Len(channel'[s])] IN
                        \A i \in DOMAIN batch :
                            batch[i] \notin readded => timers[batch[i]] \in 1..clock
        OBVIOUS
    <2>0. channel[s] \in Seq(Seq(Id)) /\ channel \in [Stream -> Seq(Seq(Id))]
        BY DEF IInv, StreamType
    <2>1. channel'[s] # channel[s]
        BY <2>0
    <2>2. ASSUME NEW r \in Stream, StreamStep(r) PROVE FALSE
        <3>1. CASE Receive(r)
            <4>1. channel[r] # <<>> /\ channel' = [channel EXCEPT ![r] = Tail(@)]
                BY <3>1 DEF Receive
            <4>2. s = r /\ channel'[s] = Tail(channel[s])
                BY <2>0, <2>1, <4>1
            <4>3. Len(Tail(channel[s])) = Len(channel[s]) - 1 /\ Len(channel[s]) \in Nat
                BY <2>0, <4>1, <4>2
            <4>4. QED
                BY <4>2, <4>3
        <3>2. QED
            BY <2>1, <2>2, <3>1 DEF StreamStep, NewStream, StopReading, Unsubscribe
    <2>3. ~TableStep /\ ~Start /\ ~Cancel /\ ~CheckContext /\ ~CloseTicker /\ ~CloseStreams /\ ~Clock
        BY <2>1
        DEF TableStep, Start, Cancel, CheckContext, CloseTicker, CloseStreams, Clock, streamVars
    <2>4. PICK g \in Tick : TickStep(g)
        BY <2>2, <2>3 DEF Next
    <2>5. Sends(g)
        BY <2>1, <2>4 DEF TickStep, Spawn, Capture, LockTicker, LockStreams, Finish
    <2>6. QED
        BY <2>5, SendRegistered DEF Sends
<1>2. QED
    BY <1>1, Invariance, PTL DEF Spec, FiresRegistered

-----------------------------------------------------------------------------
(* The ticker is a timer service *)

NoReadds == IInv /\ readded = {}

LEMMA NoReaddsKept == ASSUME ~Readds, NoReadds, [Next]_vars PROVE NoReadds'
<1>1. IInv'
    BY TableInvKept, ControlInvKept, StreamTypeKept, OverdueKept DEF IInv, NoReadds
<1>2. CASE UNCHANGED tableVars
    BY <1>1, <1>2 DEF NoReadds, tableVars
<1>3. CASE TableStep
    BY <1>1, <1>3 DEF TableStep, AddTimer, AddManyTimers, RemoveTimer, NoReadds
<1>4. ASSUME NEW g \in Tick, TickStep(g) PROVE readded' = readded
    BY <1>4 DEF TickStep, Spawn, Capture, LockTicker, LockStreams, Sends, Send, Finish, tableVars
<1>5. CASE CloseTicker
    BY <1>1, <1>5 DEF CloseTicker, NoReadds
<1>6. CASE Start \/ Cancel \/ CheckContext \/ CloseStreams \/ Clock \/ UNCHANGED vars
    BY <1>2, <1>6 DEF Start, Cancel, CheckContext, CloseStreams, Clock, vars
<1>7. ASSUME NEW s \in Stream, StreamStep(s) PROVE UNCHANGED tableVars
    BY <1>7 DEF StreamStep
<1>8. QED
    BY <1>1, <1>2, <1>3, <1>4, <1>5, <1>6, <1>7 DEF Next, NoReadds

\* What it takes to add a set of timers to the table.
LEMMA AddImplements ==
    ASSUME TableType, TableType', clock' = clock, NEW ids \in SUBSET Id,
           \A id \in ids : timers[id] = 0 /\ timers'[id] # 0 /\ clock < timers'[id],
           \A id \in Id \ ids : timers'[id] = timers[id]
    PROVE  Table!TableNext
<1>1. \A id \in Id : /\ timers[id] \in Int /\ timers'[id] \in Int
                     /\ timers[id] # -1 /\ timers'[id] # -1
    BY TimesAreSeconds DEF TableType
<1>2. Table!Add(ids)
    BY <1>1 DEF Table!Add, Table!AcceptsAdd, Table!Registered, Table!NoEntry
<1>3. QED
    BY <1>2 DEF Table!TableNext

LEMMA TableStepImplements ==
    ASSUME ~Readds, NoReadds, TableStep
    PROVE  Table!TableNext
<1>0. TableType /\ clock \in Nat /\ clock' = clock
    <2>1. TableType /\ clock \in Nat
        BY DEF NoReadds, IInv, TableInv, ControlInv, ControlType
    <2>2. clock' = clock
        BY DEF TableStep
    <2>3. QED
        BY <2>1, <2>2
<1>n. TableType'
    BY TableInvKept DEF Next, NoReadds, TableInv
<1>1. ASSUME NEW id \in Id, NEW end \in Times, AddTimer(id, end) PROVE Table!TableNext
    <2>1. /\ timers[id] = 0 /\ timers'[id] = end /\ clock < end
          /\ \A k \in Id \ {id} : timers'[k] = timers[k]
        BY <1>0, <1>1 DEF AddTimer, TableType
    <2>2. QED
        BY <1>0, <1>n, <2>1, AddImplements, TimesAreSeconds
<1>2. ASSUME NEW batch \in Batches, AddManyTimers(batch)
      PROVE  Table!TableNext
    <2>1. \A id \in Id : SecondsOf(batch, id) # {} => timers[id] = 0
        BY <1>2 DEF AddManyTimers, FreshIn
    <2>2. \A id \in Id : SecondsOf(batch, id) # {} => timers'[id] \in Times /\ clock < timers'[id]
        <3> SUFFICES ASSUME NEW id \in Id, SecondsOf(batch, id) # {}
                     PROVE  timers'[id] \in Times /\ clock < timers'[id]
            OBVIOUS
        <3>1. timers'[id] \in SecondsOf(batch, id)
            BY <1>2 DEF AddManyTimers
        <3>2. timers'[id] \in Times /\ DOMAIN batch[timers'[id]] # {}
            BY <3>1 DEF SecondsOf
        <3>3. batch[timers'[id]] # <<>>
            BY <3>2
        <3>4. QED
            BY <1>2, <3>2, <3>3 DEF AddManyTimers
    <2>3. /\ timers' \in [Id -> {0} \cup Times]
          /\ \A id \in Id : SecondsOf(batch, id) = {} => timers'[id] = timers[id]
        BY <1>2 DEF AddManyTimers
    <2> DEFINE added == {id \in Id : SecondsOf(batch, id) # {}}
    <2>4. /\ \A id \in added : timers[id] = 0 /\ timers'[id] # 0 /\ clock < timers'[id]
          /\ \A id \in Id \ added : timers'[id] = timers[id]
          /\ added \in SUBSET Id
        BY <2>1, <2>2, <2>3, TimesAreSeconds
    <2> HIDE DEF added
    <2>5. QED
        BY <1>0, <1>n, <2>4, AddImplements
<1>3. ASSUME NEW id \in Id, RemoveTimer(id) PROVE Table!Remove(id)
    BY <1>0, <1>3, TimesAreSeconds
    DEF RemoveTimer, TableType, Table!Remove, Table!AcceptsRemove, Table!Registered,
        Table!NoEntry, Table!Forget
<1>4. QED
    BY <1>1, <1>2, <1>3 DEF TableStep, Table!TableNext

LEMMA FinishImplements ==
    ASSUME NoReadds, NEW g \in Tick, Finish(g), clock' = clock
    PROVE  \E ids \in SUBSET Id : Table!FireDue(ids)
<1> DEFINE ids == {id \in Id : Listed(id, now[g])}
<1>0. TableType /\ ControlType /\ Locks /\ Past /\ NoGhost
    BY DEF NoReadds, IInv, TableInv, ControlInv
<1>1. now[g] \in Times
    BY <1>0 DEF Finish, Locks, TableType, ControlType
<1>2. \A id \in Id : Listed(id, now[g]) => timers[id] = now[g]
    BY <1>0, <1>1 DEF NoGhost, Listed, NoReadds
<1>3. now[g] \in Nat /\ now[g] # 0 /\ now[g] <= clock
    BY <1>0, <1>1, TimesAreSeconds DEF Past
<1>4. \A id \in Id : timers'[id] = IF id \in ids THEN 0 ELSE timers[id]
    BY DEF Finish
<1>5. \A id \in ids : timers[id] # 0 /\ timers[id] <= clock
    BY <1>2, <1>3
<1>6. ids \in SUBSET Id
    OBVIOUS
<1> HIDE DEF ids
<1>7. QED
    BY <1>4, <1>5, <1>6 DEF Table!FireDue, Table!Forget, Table!NoEntry

LEMMA NextImplements ==
    ASSUME ~Readds, NoReadds, [Next]_vars
    PROVE  [Table!TableNext]_Table!tableVars
<1>1. CASE UNCHANGED <<timers, clock>>
    BY <1>1 DEF Table!tableVars
<1>2. CASE TableStep
    BY <1>2, TableStepImplements
<1>3. ASSUME NEW g \in Tick, TickStep(g) PROVE [Table!TableNext]_Table!tableVars
    <2>1. CASE Finish(g)
        <3>1. \E ids \in SUBSET Id : Table!FireDue(ids)
            BY <1>3, <2>1, FinishImplements DEF TickStep
        <3>2. QED
            BY <3>1 DEF Table!TableNext
    <2>2. CASE ~Finish(g)
        BY <1>1, <1>3, <2>2
        DEF TickStep, Spawn, Capture, LockTicker, LockStreams, Sends, Send, tableVars
    <2>3. QED
        BY <2>1, <2>2
<1>4. CASE CloseTicker
    <2>1. Table!CloseTable
        BY <1>4 DEF CloseTicker, Table!CloseTable, Table!Forget, Table!NoEntry
    <2>2. QED
        BY <2>1 DEF Table!TableNext
<1>5. CASE Clock
    <2>1. clock \in Nat
        BY DEF NoReadds, IInv, ControlInv, ControlType
    <2>2. Table!Advance
        BY <1>5, <2>1 DEF Clock, Table!Advance, tableVars
    <2>3. QED
        BY <2>2 DEF Table!TableNext
<1>6. CASE Start \/ Cancel \/ CheckContext \/ CloseStreams \/ UNCHANGED vars
    BY <1>1, <1>6 DEF Start, Cancel, CheckContext, CloseStreams, vars, tableVars
<1>7. ASSUME NEW s \in Stream, StreamStep(s) PROVE [Table!TableNext]_Table!tableVars
    BY <1>1, <1>7 DEF StreamStep, tableVars
<1>8. QED
    BY <1>2, <1>3, <1>4, <1>5, <1>6, <1>7 DEF Next

\* As long as AddManyTimers is given new ids only, every step of the ticker is
\* a step of the timer service that TimerTable describes, or changes nothing
\* that its client can see.
THEOREM TickerIsTimerService == ASSUME ~Readds PROVE Spec => ImplementsTable
<1>1. Init => NoReadds /\ Table!TableInit
    BY InitInv DEF Init, NoReadds, Table!TableInit, Table!NoEntry
<1>2. NoReadds /\ [Next]_vars => NoReadds'
    BY NoReaddsKept
<1>3. NoReadds /\ [Next]_vars => [Table!TableNext]_Table!tableVars
    BY NextImplements
<1>4. QED
    BY <1>1, <1>2, <1>3, PTL DEF Spec, ImplementsTable, Table!TableSpec
=============================================================================
