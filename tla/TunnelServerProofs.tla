------------------------- MODULE TunnelServerProofs -------------------------
(***************************************************************************)
(* Proofs, for any lists, loaders, window, sessions and bounds, that the   *)
(* file never undoes a push that is less than Window old, that the         *)
(* registry holds exactly the sessions that are served, and that           *)
(* connections are spread evenly over a list that stays the same.          *)
(***************************************************************************)
EXTENDS TunnelServer, SequenceTheorems, TLAPS

\* The age of a push is a number no greater than Window, or None.
AgeInv == lastPush \in 0..Window \cup {None}

PushInv == AgeInv /\ PushHolds

\* What Init establishes about handleReload and loadTargetsFromFile every step
\* of the server, its client and its surroundings keeps.
LEMMA PushInductive == Spec => []PushInv
<1>1. Init => PushInv
  BY DEF Init, PushInv, AgeInv, PushHolds
<1>2. PushInv /\ [Next]_vars => PushInv'
  <2> SUFFICES ASSUME PushInv, [Next]_vars PROVE PushInv'
    OBVIOUS
  <2> USE ServerAssumption DEF PushInv, AgeInv, PushHolds
  <2> DEFINE Same == UNCHANGED <<targets, pushTargets, lastPush>>
  <2>1. Same => PushInv'
    OBVIOUS
  <2>2. ASSUME NEW l \in Lists, Push(l) PROVE PushInv'
    BY <2>2 DEF Push, AcceptPush, SetTargets
  <2>3. ASSUME NEW l \in Loaders, LoadTargets(l) PROVE PushInv'
    <3>1. CASE PushWins(loaded[l])
      BY <2>3, <3>1, <2>1 DEF LoadTargets, targetVars
    <3>2. CASE ~PushWins(loaded[l])
      <4>1. targets' = loaded[l] /\ pushTargets' = pushTargets /\ lastPush' = lastPush
        BY <2>3, <3>2 DEF LoadTargets, SetTargets
      <4>2. (lastPush # None /\ lastPush < Window) => loaded[l] = pushTargets
        BY <3>2 DEF PushWins
      <4> QED BY <4>1, <4>2
    <3> QED BY <3>1, <3>2
  <2>4. CASE Tick
    BY <2>4 DEF Tick
  <2>5. CASE Restart
    BY <2>5 DEF Restart, StartServer
  <2>6. ASSUME NEW l \in Loaders, ReadFile(l) PROVE Same
    BY <2>6 DEF ReadFile, StartLoad, targetVars
  <2>7. ASSUME NEW l \in Lists, WriteFile(l) PROVE Same
    BY <2>7 DEF WriteFile, RefreshFile, targetVars
  <2>8. ASSUME NEW s \in Sessions,
               Dial(s) \/ Register(s) \/ Unregister(s) \/ Cut(s) \/ Expire(s)
        PROVE Same
    BY <2>8 DEF Dial, Register, Unregister, Cut, Expire, targetVars
  <2>9. CASE HangUp
    BY <2>9, <2>1 DEF HangUp, targetVars
  <2>10. ASSUME NEW c \in Conns,
                Select(c) \/ OpenStream(c) \/ EndRelay(c) \/ AbortRelay(c)
         PROVE Same
    BY <2>10 DEF Select, OpenStream, EndRelay, AbortRelay, MoveConn, targetVars
  <2>11. CASE UNCHANGED vars
    BY <2>11, <2>1 DEF vars, targetVars
  <2> HIDE DEF Same, PushInv
  <2> QED
    BY <2>1, <2>2, <2>3, <2>4, <2>5, <2>6, <2>7, <2>8, <2>9, <2>10, <2>11, Zenon
       DEF Next, Serve, Environment
<1> QED BY <1>1, <1>2, PTL DEF Spec

\* However the watcher, requests and pushes interleave, and whatever old file
\* a loader has read, for Window ticks the targets are those of the last push.
THEOREM PushHoldsTheorem == Spec => []PushHolds
<1>1. PushInv => PushHolds
  BY DEF PushInv
<1> QED BY <1>1, PushInductive, PTL
-----------------------------------------------------------------------------
(* The types, the registry of sessions and the spread of connections.      *)

\* What RemoveAt, the append of two slices in handleWS, leaves of a sequence.
LEMMA RemoveAtProperties ==
  ASSUME NEW S, NEW s \in Seq(S), NEW i \in 1..Len(s)
  PROVE  /\ RemoveAt(s, i) \in Seq(S)
         /\ Len(RemoveAt(s, i)) = Len(s) - 1
         /\ \A j \in 1..(i - 1) : RemoveAt(s, i)[j] = s[j]
         /\ \A j \in i..(Len(s) - 1) : RemoveAt(s, i)[j] = s[j + 1]
<1>1. Len(s) \in Nat /\ \A j \in 1..Len(s) : s[j] \in S
  BY LenProperties, ElementOfSeq
<1> DEFINE front == SubSeq(s, 1, i - 1)
           back == SubSeq(s, i + 1, Len(s))
<1>2. /\ front \in Seq(S) /\ Len(front) = i - 1
      /\ \A j \in 1..(i - 1) : front[j] = s[j]
  <2>1. i - 1 \in Int /\ \A j \in 1..(i - 1) : s[j] \in S
    BY <1>1
  <2>2. /\ front \in Seq(S)
        /\ Len(front) = IF 1 <= i - 1 THEN (i - 1) - 1 + 1 ELSE 0
        /\ \A j \in 1..((i - 1) - 1 + 1) : front[j] = s[1 + j - 1]
    BY <2>1, SubSeqProperties
  <2> HIDE DEF front
  <2> QED BY <2>2, <1>1
<1>3. /\ back \in Seq(S) /\ Len(back) = Len(s) - i
      /\ \A j \in 1..(Len(s) - i) : back[j] = s[i + j]
  <2>1. i + 1 \in Int /\ Len(s) \in Int /\ \A j \in (i + 1)..Len(s) : s[j] \in S
    BY <1>1
  <2>2. /\ back \in Seq(S)
        /\ Len(back) = IF i + 1 <= Len(s) THEN Len(s) - (i + 1) + 1 ELSE 0
        /\ \A j \in 1..(Len(s) - (i + 1) + 1) : back[j] = s[(i + 1) + j - 1]
    BY <2>1, SubSeqProperties
  <2> HIDE DEF back
  <2>3. \A j \in 1..(Len(s) - i) : (i + 1) + j - 1 = i + j
    BY <1>1
  <2> QED BY <2>2, <2>3, <1>1
<1>4. /\ front \o back \in Seq(S)
      /\ Len(front \o back) = Len(front) + Len(back)
      /\ \A j \in 1..(Len(front) + Len(back)) :
           (front \o back)[j] = IF j <= Len(front) THEN front[j] ELSE back[j - Len(front)]
  BY <1>2, <1>3, ConcatProperties
<1>5. RemoveAt(s, i) = front \o back
  BY DEF RemoveAt
<1> HIDE DEF front, back
<1>6. ASSUME NEW j \in 1..(i - 1)
      PROVE  (front \o back)[j] = s[j]
  BY <1>1, <1>2, <1>3, <1>4
<1>7. ASSUME NEW j \in i..(Len(s) - 1)
      PROVE  (front \o back)[j] = s[j + 1]
  <2> DEFINE k == j - (i - 1)
  <2>1. k \in 1..(Len(s) - i) /\ i + k = j + 1
    BY <1>1
  <2>2. (front \o back)[j] = back[k]
    BY <1>1, <1>2, <1>3, <1>4, SMTT(30)
  <2> HIDE DEF k
  <2>3. back[k] = s[i + k]
    BY <2>1, <1>3
  <2> QED BY <2>1, <2>2, <2>3
<1>8. Len(front) + Len(back) = Len(s) - 1
  BY <1>1, <1>2, <1>3
<1> QED BY <1>4, <1>5, <1>6, <1>7, <1>8

\* handleTCP's index stays within a list.
LEMMA ModRange ==
  ASSUME NEW n \in Nat \ {0}, NEW r \in Nat
  PROVE  r % n \in 0..(n - 1) /\ (r % n) + 1 \in 1..n
<1>1. r % n \in 0..(n - 1)
  BY SMT
<1> QED BY <1>1, SMT

\* Its next value is the next position, or the first.
LEMMA ModSucc ==
  ASSUME NEW n \in Nat \ {0}, NEW r \in Nat
  PROVE  (r + 1) % n = IF (r % n) + 1 = n THEN 0 ELSE (r % n) + 1
<1> DEFINE q == r \div n
           a == r % n
           q1 == (r + 1) \div n
           a1 == (r + 1) % n
           d == q1 - q
<1>1. r = n * q + a /\ a \in 0..(n - 1) /\ q \in Int
  BY SMT
<1>2. r + 1 = n * q1 + a1 /\ a1 \in 0..(n - 1) /\ q1 \in Int
  BY SMT
<1>3. d \in Int /\ n * d = a + 1 - a1
  BY <1>1, <1>2, SMT
<1> HIDE DEF a, a1, q, q1, d
<1>4. (d >= 2 => n * d >= 2 * n) /\ (d <= -1 => n * d <= -n)
  BY <1>3, SMT
<1>5. d = 0 \/ d = 1
  BY <1>1, <1>2, <1>3, <1>4, SMT
<1>6. (d = 0 => n * d = 0) /\ (d = 1 => n * d = n)
  OBVIOUS
<1>7. a1 = IF a + 1 = n THEN 0 ELSE a + 1
  BY <1>1, <1>2, <1>3, <1>5, <1>6, SMT
<1> QED BY <1>7 DEF a, a1

\* A list comes with a count for each of its entries.
LEMMA SetTargetsType ==
  ASSUME TypeOK, NEW l \in Lists, SetTargets(l)
  PROVE  targets' \in Lists /\ served' \in [1..Len(targets') -> Nat]
<1>1. NotServed(l) \in [1..Len(l) -> Nat]
  BY DEF NotServed
<1> QED BY <1>1 DEF SetTargets, TypeOK

\* There is nothing to count before a list is known.
LEMMA NothingServed == <<>> \in [1..Len(<<>>) -> Nat]
OBVIOUS

\* Every handler and every event of the surroundings keeps the types: what
\* handleTCP takes from the lists by its index is there.
THEOREM TypeCorrect == Spec => []TypeOK
<1>1. Init => TypeOK
  BY ServerAssumption, EmptySeq, NothingServed DEF Init, TypeOK, NewConn
<1>2. TypeOK /\ [Next]_vars => TypeOK'
  <2> SUFFICES ASSUME TypeOK, [Next]_vars PROVE TypeOK'
    OBVIOUS
  <2> USE ServerAssumption DEF TypeOK
  <2>1. ASSUME NEW l \in Lists, Push(l) PROVE TypeOK'
    BY <2>1, SetTargetsType DEF Push, Event, AcceptPush, sessionVars
  <2>2. ASSUME NEW l \in Loaders, ReadFile(l) PROVE TypeOK'
    BY <2>2 DEF ReadFile, Event, StartLoad, targetVars, sessionVars
  <2>3. ASSUME NEW l \in Loaders, LoadTargets(l) PROVE TypeOK'
    <3>1. loaded[l] \in Lists
      BY <2>3 DEF LoadTargets
    <3>2. targets' \in Lists /\ served' \in [1..Len(targets') -> Nat]
      BY <2>3, <3>1, SetTargetsType DEF LoadTargets, targetVars
    <3> QED BY <2>3, <3>2 DEF LoadTargets, targetVars, sessionVars
  <2>4. ASSUME NEW l \in Lists, WriteFile(l) PROVE TypeOK'
    BY <2>4 DEF WriteFile, Event, RefreshFile, targetVars, sessionVars
  <2>5. CASE Tick
    BY <2>5 DEF Tick, sessionVars
  <2>6. ASSUME NEW s \in Sessions, Dial(s) PROVE TypeOK'
    BY <2>6 DEF Dial, targetVars
  <2>7. ASSUME NEW s \in Sessions, Register(s) PROVE TypeOK'
    <3>1. Append(sessions, s) \in Seq(Sessions)
      BY AppendProperties
    <3> QED BY <2>7, <3>1 DEF Register, targetVars
  <2>8. ASSUME NEW s \in Sessions, Unregister(s) PROVE TypeOK'
    <3>1. \A i \in 1..Len(sessions) : RemoveAt(sessions, i) \in Seq(Sessions)
      BY RemoveAtProperties
    <3>2. sessions' \in Seq(Sessions)
      BY <2>8, <3>1 DEF Unregister
    <3> QED BY <2>8, <3>2 DEF Unregister, targetVars
  <2>9. ASSUME NEW s \in Sessions, Cut(s) PROVE TypeOK'
    BY <2>9, SMTT(30) DEF Cut, Event, targetVars
  <2>10. ASSUME NEW s \in Sessions, Expire(s) PROVE TypeOK'
    BY <2>10 DEF Expire, targetVars
  <2>11. CASE HangUp
    BY <2>11 DEF HangUp, targetVars
  <2>12. ASSUME NEW c \in Conns, Select(c) PROVE TypeOK'
    <3>1. CASE sessions = <<>> \/ targets = <<>>
      <4>1. conns' = [conns EXCEPT ![c].pc = "dropped"] /\ UNCHANGED <<rrIndex, served>>
        BY <2>12, <3>1 DEF Select
      <4>2. conns' \in [Conns -> [pc : {"new", "open", "relay", "done", "dropped"},
                                  sess : Sessions \cup {None}]]
        BY <4>1
      <4> QED BY <2>12, <4>1, <4>2 DEF Select, sessionVars
    <3>2. CASE ~(sessions = <<>> \/ targets = <<>>)
      <4> DEFINE entry == (rrIndex % Len(targets)) + 1
                 sess  == sessions[(rrIndex % Len(sessions)) + 1]
      <4>1. Len(targets) \in Nat \ {0} /\ Len(sessions) \in Nat \ {0}
        BY <3>2, EmptySeq
      <4>2. /\ (rrIndex % Len(targets)) + 1 \in 1..Len(targets)
            /\ (rrIndex % Len(sessions)) + 1 \in 1..Len(sessions)
        <5>1. rrIndex \in Nat
          OBVIOUS
        <5> QED BY <4>1, <5>1, ModRange, Zenon
      <4>3. entry \in 1..Len(targets) /\ sess \in Sessions
        BY <4>2, ElementOfSeq
      <4>4. /\ conns' = [conns EXCEPT ![c] = [pc |-> "open", sess |-> sess]]
            /\ served' = [served EXCEPT ![entry] = @ + 1]
            /\ rrIndex' = rrIndex + 1
        BY <2>12, <3>2 DEF Select
      <4> HIDE DEF entry, sess
      <4>5. rrIndex' \in Nat
        BY <4>4
      <4>6. served' \in [1..Len(targets) -> Nat]
        <5>1. served \in [1..Len(targets) -> Nat]
          OBVIOUS
        <5> HIDE DEF TypeOK
        <5> QED BY <5>1, <4>3, <4>4
      <4>7. conns' \in [Conns -> [pc : {"new", "open", "relay", "done", "dropped"},
                                  sess : Sessions \cup {None}]]
        BY <4>3, <4>4
      <4>8. targets' = targets
        BY <2>12 DEF Select
      <4> QED BY <2>12, <4>5, <4>6, <4>7, <4>8 DEF Select, sessionVars
    <3> QED BY <3>1, <3>2
  <2>13. ASSUME NEW c \in Conns, OpenStream(c) \/ EndRelay(c) \/ AbortRelay(c)
         PROVE TypeOK'
    <3>1. ASSUME NEW pc \in {"relay", "done", "dropped"}, MoveConn(c, pc) PROVE TypeOK'
      BY <3>1 DEF MoveConn, targetVars, sessionVars
    <3> QED BY <2>13, <3>1 DEF OpenStream, EndRelay, AbortRelay
  <2>14. CASE Restart
    <3>1. sessions' \in Seq(Sessions)
      BY <2>14, EmptySeq DEF Restart, StartServer
    <3>2. ws' \in [Sessions -> {"undialled", "accepted", "serving", "left"}]
      BY <2>14 DEF Restart, StartServer
    <3>3. conns' \in [Conns -> [pc : {"new", "open", "relay", "done", "dropped"},
                                sess : Sessions \cup {None}]]
      BY <2>14, ZenonT(40) DEF Restart, StartServer
    <3>4. /\ targets' = <<>> /\ pushTargets' = <<>> /\ lastPush' = None /\ up' = {}
          /\ loaded' = [l \in Loaders |-> None] /\ served' = <<>>
          /\ rrIndex' = 0 /\ events' \in 0..MaxEvents /\ UNCHANGED <<file, client, closed>>
      BY <2>14 DEF Restart, Event, StartServer
    <3> QED BY <3>1, <3>2, <3>3, <3>4, NothingServed
  <2>15. CASE UNCHANGED vars
    BY <2>15 DEF vars, targetVars, sessionVars
  <2> HIDE DEF TypeOK
  <2> QED
    BY <2>1, <2>2, <2>3, <2>4, <2>5, <2>6, <2>7, <2>8, <2>9, <2>10, <2>11, <2>12,
       <2>13, <2>14, <2>15, Zenon DEF Next, Serve, Environment
<1> QED BY <1>1, <1>2, PTL DEF Spec

\* Sessions are registered once, at the end, by the handler that leaves them,
\* and a handler takes out exactly its own, wherever it has moved to.
THEOREM RegistryExactTheorem == Spec => []RegistryExact
<1>1. Init => RegistryExact
  BY DEF Init, RegistryExact
<1>2. TypeOK /\ RegistryExact /\ [Next]_vars => RegistryExact'
  <2> SUFFICES ASSUME TypeOK, RegistryExact, [Next]_vars PROVE RegistryExact'
    OBVIOUS
  <2> DEFINE Same == UNCHANGED <<sessions, ws>>
  <2>1. Same => RegistryExact'
    BY DEF RegistryExact
  <2>2. ASSUME NEW s \in Sessions, Dial(s) PROVE RegistryExact'
    BY <2>2 DEF RegistryExact, Dial, TypeOK
  <2>3. ASSUME NEW s \in Sessions, Register(s) PROVE RegistryExact'
    <3>1. sessions' = Append(sessions, s) /\ ws' = [ws EXCEPT ![s] = "serving"]
      BY <2>3 DEF Register
    <3>2. \A i \in 1..Len(sessions) : sessions[i] # s
      BY <2>3 DEF RegistryExact, Register
    <3>3. /\ Len(sessions) \in Nat
          /\ Len(sessions') = Len(sessions) + 1 /\ sessions'[Len(sessions) + 1] = s
          /\ \A i \in 1..Len(sessions) : sessions'[i] = sessions[i]
      BY <3>1, AppendProperties, LenProperties DEF TypeOK
    <3>4. ASSUME NEW t \in Sessions
          PROVE  ws'[t] = "serving" <=> \E i \in 1..Len(sessions') : sessions'[i] = t
      <4>1. CASE t = s
        BY <4>1, <3>1, <3>3 DEF TypeOK
      <4>2. CASE t # s
        <5>1. ws'[t] = ws[t]
          BY <4>2, <3>1 DEF TypeOK
        <5>2. ASSUME NEW i \in 1..Len(sessions'), sessions'[i] = t
              PROVE  \E j \in 1..Len(sessions) : sessions[j] = t
          BY <5>2, <4>2, <3>3
        <5>3. ASSUME NEW j \in 1..Len(sessions), sessions[j] = t
              PROVE  \E i \in 1..Len(sessions') : sessions'[i] = t
          BY <5>3, <3>3
        <5> QED BY <5>1, <5>2, <5>3 DEF RegistryExact
      <4> QED BY <4>1, <4>2
    <3>5. ASSUME NEW i \in 1..Len(sessions'), NEW j \in 1..Len(sessions'),
                 sessions'[i] = sessions'[j]
          PROVE  i = j
      BY <3>2, <3>3, <3>5 DEF RegistryExact
    <3> QED BY <3>4, <3>5 DEF RegistryExact
  <2>4. ASSUME NEW s \in Sessions, Unregister(s) PROVE RegistryExact'
    <3>1. ws[s] = "serving" /\ ws' = [ws EXCEPT ![s] = "left"]
      BY <2>4 DEF Unregister
    <3>2. PICK k \in 1..Len(sessions) : sessions[k] = s /\ sessions' = RemoveAt(sessions, k)
      BY <3>1, <2>4 DEF Unregister, RegistryExact
    <3>3. /\ Len(sessions) \in Nat /\ Len(sessions') = Len(sessions) - 1
          /\ \A j \in 1..(k - 1) : sessions'[j] = sessions[j]
          /\ \A j \in k..(Len(sessions) - 1) : sessions'[j] = sessions[j + 1]
      <4>1. sessions \in Seq(Sessions)
        BY DEF TypeOK
      <4>2. Len(sessions) \in Nat
        BY <4>1, LenProperties
      <4>3. /\ Len(RemoveAt(sessions, k)) = Len(sessions) - 1
            /\ \A j \in 1..(k - 1) : RemoveAt(sessions, k)[j] = sessions[j]
            /\ \A j \in k..(Len(sessions) - 1) : RemoveAt(sessions, k)[j] = sessions[j + 1]
        BY <4>1, RemoveAtProperties
      <4> QED BY <4>2, <4>3, <3>2
    <3> DEFINE Old(j) == IF j < k THEN j ELSE j + 1
    <3>4. \A j \in 1..Len(sessions') :
            /\ Old(j) \in 1..Len(sessions) /\ Old(j) # k
            /\ sessions'[j] = sessions[Old(j)]
      <4> TAKE j \in 1..Len(sessions')
      <4>1. CASE j < k
        <5>1. j \in 1..(k - 1) /\ j \in 1..Len(sessions) /\ j # k
          BY <4>1, <3>3
        <5>2. Old(j) = j
          BY <4>1
        <5> QED BY <5>1, <5>2, <3>3, Zenon
      <4>2. CASE ~(j < k)
        <5>1. j \in k..(Len(sessions) - 1) /\ j + 1 \in 1..Len(sessions) /\ j + 1 # k
          BY <4>2, <3>3
        <5>2. Old(j) = j + 1
          BY <4>2
        <5> QED BY <5>1, <5>2, <3>3, Zenon
      <4> QED BY <4>1, <4>2
    <3>5. \A i \in 1..Len(sessions) : i # k => \E j \in 1..Len(sessions') : Old(j) = i
      <4> TAKE i \in 1..Len(sessions)
      <4>1. CASE i < k
        <5>1. i \in 1..Len(sessions') /\ Old(i) = i
          BY <4>1, <3>3
        <5> QED BY <5>1
      <4>2. CASE i > k
        <5>1. i - 1 \in 1..Len(sessions') /\ Old(i - 1) = i
          BY <4>2, <3>3
        <5> QED BY <5>1
      <4> QED BY <4>1, <4>2, <3>3
    <3>6. \A i, j \in 1..Len(sessions') : Old(i) = Old(j) => i = j
      BY <3>3
    <3> HIDE DEF Old
    <3>7. \A i \in 1..Len(sessions) : sessions[i] = s => i = k
      BY <3>2 DEF RegistryExact
    <3>8. ASSUME NEW t \in Sessions
          PROVE  ws'[t] = "serving" <=> \E j \in 1..Len(sessions') : sessions'[j] = t
      <4>1. CASE t = s
        <5>1. ws'[t] # "serving"
          BY <4>1, <3>1 DEF TypeOK
        <5>2. ~ \E j \in 1..Len(sessions') : sessions'[j] = t
          BY <4>1, <3>4, <3>7
        <5> QED BY <5>1, <5>2
      <4>2. CASE t # s
        <5>1. ws'[t] = ws[t]
          BY <4>2, <3>1 DEF TypeOK
        <5>2. ASSUME NEW j \in 1..Len(sessions'), sessions'[j] = t
              PROVE  \E i \in 1..Len(sessions) : sessions[i] = t
          BY <5>2, <3>4
        <5>3. ASSUME NEW i \in 1..Len(sessions), sessions[i] = t
              PROVE  \E j \in 1..Len(sessions') : sessions'[j] = t
          BY <5>3, <4>2, <3>2, <3>4, <3>5
        <5> QED BY <5>1, <5>2, <5>3 DEF RegistryExact
      <4> QED BY <4>1, <4>2
    <3>9. ASSUME NEW i \in 1..Len(sessions'), NEW j \in 1..Len(sessions'),
                 sessions'[i] = sessions'[j]
          PROVE  i = j
      BY <3>9, <3>4, <3>6 DEF RegistryExact
    <3> QED BY <3>8, <3>9 DEF RegistryExact
  <2>5. CASE Restart
    BY <2>5 DEF Restart, StartServer, RegistryExact
  <2>6. ASSUME NEW l \in Lists, Push(l) \/ WriteFile(l) PROVE Same
    BY <2>6 DEF Push, AcceptPush, WriteFile, RefreshFile, sessionVars
  <2>7. ASSUME NEW l \in Loaders, ReadFile(l) \/ LoadTargets(l) PROVE Same
    BY <2>7 DEF ReadFile, StartLoad, LoadTargets, sessionVars
  <2>8. CASE Tick \/ HangUp
    BY <2>8, <2>1 DEF Tick, HangUp, sessionVars
  <2>9. ASSUME NEW s \in Sessions, Cut(s) \/ Expire(s) PROVE Same
    BY <2>9 DEF Cut, Expire
  <2>10. ASSUME NEW c \in Conns, Select(c) \/ OpenStream(c) \/ EndRelay(c) \/ AbortRelay(c)
         PROVE Same
    BY <2>10 DEF Select, OpenStream, EndRelay, AbortRelay, MoveConn, sessionVars
  <2>11. CASE UNCHANGED vars
    BY <2>11, <2>1 DEF vars, sessionVars
  <2> HIDE DEF Same
  <2> QED
    BY <2>1, <2>2, <2>3, <2>4, <2>5, <2>6, <2>7, <2>8, <2>9, <2>10, <2>11,
       ServerAssumption, Zenon
       DEF Next, Serve, Environment
<1> QED BY <1>1, <1>2, TypeCorrect, PTL DEF Spec

\* Positions from..(to - 1), round the end of the list.
Between(from, to, i) == IF from <= to THEN from <= i /\ i < to ELSE from <= i \/ i < to

\* What handleTCP keeps about the counts: one full round after the other, and
\* the positions since the last round began, at b, are one ahead.
Rounds(m, b) ==
  \A i \in 0..(Len(targets) - 1) :
    served[i + 1] =
      IF Between(b, rrIndex % Len(targets), i) THEN m + 1 ELSE m

SpreadInv ==
  targets # <<>> => \E m \in 0..rrIndex : \E b \in 0..(Len(targets) - 1) : Rounds(m, b)

\* The entry a connection goes to is the one that is due, and it alone moves
\* ahead: entries are counted by their place, so that an address may repeat.
LEMMA SelectKeepsRounds ==
  ASSUME TypeOK, SpreadInv, targets # <<>>,
         served' = [served EXCEPT ![(rrIndex % Len(targets)) + 1] = @ + 1],
         rrIndex' = rrIndex + 1, targets' = targets
  PROVE  SpreadInv'
<1> DEFINE n == Len(targets)
           p == rrIndex % n
           p1 == rrIndex' % n
<1>1. n \in Nat \ {0} /\ rrIndex \in Nat
  BY ServerAssumption, EmptySeq DEF TypeOK
<1>2. p \in 0..(n - 1) /\ p1 \in 0..(n - 1) /\ p1 = IF p + 1 = n THEN 0 ELSE p + 1
  <2>1. rrIndex + 1 \in Nat
    BY <1>1
  <2> QED BY <1>1, <2>1, ModRange, ModSucc
<1>3. \A i \in 0..(n - 1) :
        served'[i + 1] = IF i = p THEN served[i + 1] + 1 ELSE served[i + 1]
  <2>1. served \in [1..n -> Nat] /\ served' = [served EXCEPT ![p + 1] = @ + 1]
    BY DEF TypeOK
  <2> HIDE DEF p, n
  <2>2. \A i \in 0..(n - 1) : i + 1 \in 1..n /\ (i + 1 = p + 1 => i = p)
    BY <1>1, <1>2
  <2> QED BY <2>1, <2>2, <1>2
<1>4. PICK m \in 0..rrIndex, b \in 0..(n - 1) :
        \A i \in 0..(n - 1) : served[i + 1] = IF Between(b, p, i) THEN m + 1 ELSE m
  BY DEF SpreadInv, Rounds
<1> HIDE DEF n, p, p1
<1>5. CASE p1 = b
  <2>1. \A i \in 0..(n - 1) : (Between(b, p, i) <=> i # p) /\ ~Between(b, p1, i)
    BY <1>1, <1>2, <1>5 DEF Between
  <2>2. \A i \in 0..(n - 1) :
          served'[i + 1] = IF Between(b, p1, i) THEN (m + 1) + 1 ELSE m + 1
    BY <2>1, <1>2, <1>3, <1>4
  <2>3. m + 1 \in 0..rrIndex'
    BY <1>1
  <2>4. b \in 0..(Len(targets') - 1) /\ Rounds(m + 1, b)'
    BY <2>2 DEF Rounds, n, p1
  <2> QED BY <2>3, <2>4, Zenon DEF SpreadInv
<1>6. CASE p1 # b
  <2>1. \A i \in 0..(n - 1) : Between(b, p1, i) <=> (i = p \/ Between(b, p, i))
    BY <1>1, <1>2, <1>6 DEF Between
  <2>2. ~Between(b, p, p)
    BY <1>1, <1>2 DEF Between
  <2>3. \A i \in 0..(n - 1) : served'[i + 1] = IF Between(b, p1, i) THEN m + 1 ELSE m
    BY <2>1, <2>2, <1>2, <1>3, <1>4
  <2>4. m \in 0..rrIndex'
    BY <1>1
  <2>5. b \in 0..(Len(targets') - 1) /\ Rounds(m, b)'
    BY <2>3 DEF Rounds, n, p1
  <2> QED BY <2>4, <2>5, Zenon DEF SpreadInv
<1> QED BY <1>5, <1>6

\* A list that is replaced starts with no connections.
LEMMA SetTargetsKeepsRounds ==
  ASSUME TypeOK, SpreadInv, NEW l \in Lists, SetTargets(l), rrIndex' = rrIndex
  PROVE  SpreadInv'
<1>1. CASE l = targets
  BY <1>1 DEF SetTargets, SpreadInv, Rounds
<1>2. CASE l # targets
  <2>1. ASSUME targets' # <<>>
        PROVE  \E m \in 0..rrIndex' : \E b \in 0..(Len(targets') - 1) : Rounds(m, b)'
    <3> DEFINE n == Len(targets')
    <3>1. targets' \in Seq(Targets) /\ n \in Nat \ {0} /\ rrIndex' \in Nat
      BY <2>1, ServerAssumption, EmptySeq DEF SetTargets, TypeOK
    <3>2. PICK p \in 0..(n - 1) : p = rrIndex' % n
      BY <3>1, ModRange
    <3>3. \A i \in 0..(n - 1) : served'[i + 1] = 0
      <4> TAKE i \in 0..(n - 1)
      <4>1. i + 1 \in 1..n
        BY <3>1
      <4> QED BY <4>1, <1>2 DEF SetTargets, NotServed
    <3>4. \A i \in 0..(n - 1) : ~Between(p, p, i)
      BY <3>1, <3>2 DEF Between
    <3>5. 0 \in 0..rrIndex'
      BY <3>1
    <3>6. \A i \in 0..(n - 1) : served'[i + 1] = IF Between(p, p, i) THEN 0 + 1 ELSE 0
      BY <3>3, <3>4
    <3>7. Rounds(0, p)'
      BY <3>2, <3>6 DEF Rounds
    <3> QED BY <3>5, <3>7, Zenon
  <2> QED BY <2>1 DEF SpreadInv
<1> QED BY <1>1, <1>2

\* However pushes, files, sessions and connections interleave, an entry of
\* the list is never two connections ahead of another since the list was last
\* changed, whether or not addresses repeat in it.
THEOREM SpreadEvenTheorem == Spec => []SpreadEven
<1>1. Init => SpreadInv
  BY DEF Init, SpreadInv
<1>2. TypeOK /\ SpreadInv /\ [Next]_vars => SpreadInv'
  <2> SUFFICES ASSUME TypeOK, SpreadInv, [Next]_vars PROVE SpreadInv'
    OBVIOUS
  <2> DEFINE Same == UNCHANGED <<targets, served, rrIndex>>
  <2>1. Same => SpreadInv'
    BY DEF SpreadInv, Rounds
  <2>2. ASSUME NEW l \in Lists, Push(l) PROVE SpreadInv'
    BY <2>2, SetTargetsKeepsRounds DEF Push, AcceptPush
  <2>3. ASSUME NEW l \in Loaders, LoadTargets(l) PROVE SpreadInv'
    <3>1. CASE PushWins(loaded[l])
      BY <2>3, <3>1, <2>1 DEF LoadTargets, targetVars
    <3>2. CASE ~PushWins(loaded[l])
      <4>1. loaded[l] \in Lists /\ SetTargets(loaded[l]) /\ rrIndex' = rrIndex
        BY <2>3, <3>2 DEF LoadTargets, TypeOK
      <4> QED BY <4>1, SetTargetsKeepsRounds
    <3> QED BY <3>1, <3>2
  <2>4. ASSUME NEW c \in Conns, Select(c) PROVE SpreadInv'
    <3>1. CASE sessions = <<>> \/ targets = <<>>
      BY <2>4, <3>1, <2>1 DEF Select
    <3>2. CASE ~(sessions = <<>> \/ targets = <<>>)
      <4>1. /\ served' = [served EXCEPT ![(rrIndex % Len(targets)) + 1] = @ + 1]
            /\ rrIndex' = rrIndex + 1 /\ targets' = targets
        BY <2>4, <3>2 DEF Select
      <4> QED BY <4>1, <3>2, SelectKeepsRounds
    <3> QED BY <3>1, <3>2
  <2>5. CASE Restart
    BY <2>5 DEF Restart, StartServer, SpreadInv
  <2>6. ASSUME NEW l \in Lists, WriteFile(l) PROVE Same
    BY <2>6 DEF WriteFile, RefreshFile, targetVars
  <2>7. ASSUME NEW l \in Loaders, ReadFile(l) PROVE Same
    BY <2>7 DEF ReadFile, StartLoad, targetVars
  <2>8. CASE Tick \/ HangUp
    BY <2>8, <2>1 DEF Tick, HangUp, targetVars
  <2>9. ASSUME NEW s \in Sessions,
               Dial(s) \/ Register(s) \/ Unregister(s) \/ Cut(s) \/ Expire(s)
        PROVE Same
    BY <2>9 DEF Dial, Register, Unregister, Cut, Expire, targetVars
  <2>10. ASSUME NEW c \in Conns, OpenStream(c) \/ EndRelay(c) \/ AbortRelay(c) PROVE Same
    BY <2>10 DEF OpenStream, EndRelay, AbortRelay, MoveConn, targetVars
  <2>11. CASE UNCHANGED vars
    BY <2>11, <2>1 DEF vars, targetVars
  <2> HIDE DEF Same
  <2> QED
    BY <2>1, <2>2, <2>3, <2>4, <2>5, <2>6, <2>7, <2>8, <2>9, <2>10, <2>11,
       ServerAssumption, Zenon DEF Next, Serve, Environment
<1>3. TypeOK /\ SpreadInv => SpreadEven
  <2> SUFFICES ASSUME TypeOK, SpreadInv,
                      NEW i \in 1..Len(targets), NEW j \in 1..Len(targets)
               PROVE  served[i] <= served[j] + 1
    BY DEF SpreadEven
  <2>1. Len(targets) \in Nat /\ targets # <<>>
    BY ServerAssumption, LenProperties, EmptySeq DEF TypeOK
  <2>2. PICK m \in 0..rrIndex, b \in 0..(Len(targets) - 1) : Rounds(m, b)
    BY <2>1 DEF SpreadInv
  <2>3. \A k \in 1..Len(targets) : served[k] \in {m, m + 1}
    <3> TAKE k \in 1..Len(targets)
    <3>1. k - 1 \in 0..(Len(targets) - 1) /\ (k - 1) + 1 = k
      BY <2>1
    <3> QED BY <3>1, <2>2 DEF Rounds
  <2>4. m \in Nat
    BY DEF TypeOK
  <2> QED BY <2>3, <2>4
<1> QED BY <1>1, <1>2, <1>3, TypeCorrect, PTL DEF Spec
=============================================================================
