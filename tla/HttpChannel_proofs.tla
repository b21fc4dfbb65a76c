---------------------------- MODULE HttpChannel_proofs ----------------------------
(***************************************************************************)
(* Proofs about the life of sessions and about the channels that use them. *)
(* First, of HttpSession: whatever the number of sessions and channels, no *)
(* command has a session that is destroyed, and the watches of a session   *)
(* hold the channels that wait.  Then, of HttpChannel: with its queues,    *)
(* its pipelined requests and its proxy, the server implements the life of *)
(* sessions, so that what is proved of it holds.  And however many         *)
(* requests a client sends at a time, and whoever answers them, an orderly *)
(* client gets the responses in the order of its requests, and all of them *)
(* before the channel closes.                                              *)
(***************************************************************************)
EXTENDS HttpChannelProps, FiniteSetTheorems, TLAPS

(* The inductive invariant.  That a session is in use is told from its two *)
(* counters only, so that it is safe to destroy one rests on the counters  *)
(* being exact, and that the counters stay so on commands having sessions  *)
(* that are listed.                                                        *)
IInv == TypeOK /\ CountersExact /\ UsedIsListed /\ OneStage

(* The channels of a session are finitely many.                            *)
LEMMA UsersFinite == ASSUME NEW s PROVE IsFiniteSet(Users(s))
  BY HttpSessionAssumption, FS_Subset DEF Users

(* The initial state is as it should be.                                   *)
LEMMA InitInv == Init => IInv
<1> SUFFICES ASSUME Init PROVE IInv
  OBVIOUS
<1>1. TypeOK
  BY DEF Init, TypeOK, Phases
<1>2. CountersExact
  <2> SUFFICES ASSUME NEW s \in Sessions
               PROVE  activity[s] = destroyed[s] + Cardinality(Users(s)) + owed[s]
    BY DEF CountersExact
  <2>1. Users(s) = {}
    BY HttpSessionAssumption DEF Init, Users
  <2> QED
    BY <2>1, FS_EmptySet DEF Init
<1>3. UsedIsListed /\ OneStage
  BY DEF Init, UsedIsListed, OneStage
<1> QED
  BY <1>1, <1>2, <1>3 DEF IInv

(* A command locates a session: one more that is in use.                   *)
LEMMA LocateInv ==
  ASSUME IInv, NEW h \in Chans, NEW s \in Sessions, LocateSession(h, s)
  PROVE  IInv'
<1> USE DEF LocateSession
<1>1. using[h] = None /\ h \notin Users(s)
  BY HttpSessionAssumption DEF MayLocate, Users
<1>2. TypeOK'
  BY DEF IInv, TypeOK
<1>3. CountersExact'
  <2> SUFFICES ASSUME NEW r \in Sessions
               PROVE  activity'[r] = destroyed'[r] + Cardinality(Users(r)') + owed'[r]
    BY DEF CountersExact
  <2>1. CASE r = s
    <3>1. Users(r)' = Users(s) \cup {h}
      BY <2>1 DEF Users, IInv, TypeOK
    <3>2. Cardinality(Users(r)') = Cardinality(Users(s)) + 1
      BY <3>1, <1>1, UsersFinite, FS_AddElement
    <3> QED
      BY <3>2, <2>1, UsersFinite, FS_CardinalityType DEF IInv, CountersExact, TypeOK
  <2>2. CASE r # s
    <3>1. Users(r)' = Users(r)
      BY <2>2, <1>1, HttpSessionAssumption DEF Users, IInv, TypeOK
    <3> QED
      BY <3>1, <2>2 DEF IInv, CountersExact, TypeOK
  <2> QED
    BY <2>1, <2>2
<1>4. UsedIsListed' /\ OneStage'
  BY DEF IInv, UsedIsListed, OneStage, TypeOK
<1> QED
  BY <1>2, <1>3, <1>4 DEF IInv

(* A command releases its session with its response.                       *)
LEMMA ReleaseInv ==
  ASSUME IInv, NEW h \in Chans, using[h] # None, ReleaseSession(h), TypeOK'
  PROVE  IInv'
<1> USE DEF ReleaseSession
<1> DEFINE s == using[h]
<1>1. s \in Sessions /\ h \in Users(s)
  BY DEF IInv, TypeOK, Users
<1>2. CountersExact'
  <2> SUFFICES ASSUME NEW r \in Sessions
               PROVE  activity'[r] = destroyed'[r] + Cardinality(Users(r)') + owed'[r]
    BY DEF CountersExact
  <2>1. CASE r = s
    <3>1. Users(r)' = Users(s) \ {h}
      BY <2>1, HttpSessionAssumption, <1>1 DEF Users, IInv, TypeOK
    <3>2. Cardinality(Users(r)') = Cardinality(Users(s)) - 1
      BY <3>1, <1>1, UsersFinite, FS_RemoveElement
    <3>3. Cardinality(Users(s)) \in Nat
      BY UsersFinite, FS_CardinalityType
    <3>4. activity'[r] = activity[s] /\ destroyed'[r] = destroyed[s] + 1 /\ owed'[r] = owed[s]
      BY <2>1, <1>1 DEF IInv, TypeOK
    <3>5. /\ activity[s] = destroyed[s] + Cardinality(Users(s)) + owed[s]
          /\ destroyed[s] \in Nat /\ owed[s] \in Nat
      BY <1>1 DEF IInv, CountersExact, TypeOK
    <3> HIDE DEF s
    <3> QED
      BY <3>2, <3>3, <3>4, <3>5
  <2>2. CASE r # s
    <3>1. Users(r)' = Users(r)
      BY <2>2, <1>1, HttpSessionAssumption DEF Users, IInv, TypeOK
    <3> QED
      BY <3>1, <2>2, <1>1 DEF IInv, CountersExact, TypeOK
  <2> QED
    BY <2>1, <2>2
<1>3. UsedIsListed' /\ OneStage'
  BY DEF IInv, UsedIsListed, OneStage, TypeOK
<1> QED
  BY <1>2, <1>3 DEF IInv

(* A command that waits owes the release of its session, ...               *)
LEMMA BlockInv ==
  ASSUME IInv, NEW h \in Chans, NEW w \in Watches, Block(h, w)
  PROVE  IInv'
<1> USE DEF Block
<1> DEFINE s == using[h]
<1>1. s \in Sessions /\ h \in Users(s)
  BY DEF IInv, TypeOK, Users
<1>2. TypeOK'
  BY <1>1 DEF IInv, TypeOK, Phases
<1>3. CountersExact'
  <2> SUFFICES ASSUME NEW r \in Sessions
               PROVE  activity'[r] = destroyed'[r] + Cardinality(Users(r)') + owed'[r]
    BY DEF CountersExact
  <2>1. CASE r = s
    <3>1. Users(r)' = Users(s) \ {h}
      BY <2>1, HttpSessionAssumption, <1>1 DEF Users, IInv, TypeOK
    <3>2. Cardinality(Users(r)') = Cardinality(Users(s)) - 1
      BY <3>1, <1>1, UsersFinite, FS_RemoveElement
    <3>3. Cardinality(Users(s)) \in Nat
      BY UsersFinite, FS_CardinalityType
    <3>4. activity'[r] = activity[s] /\ destroyed'[r] = destroyed[s] /\ owed'[r] = owed[s] + 1
      BY <2>1, <1>1 DEF IInv, TypeOK
    <3>5. /\ activity[s] = destroyed[s] + Cardinality(Users(s)) + owed[s]
          /\ destroyed[s] \in Nat /\ owed[s] \in Nat
      BY <1>1 DEF IInv, CountersExact, TypeOK
    <3> HIDE DEF s
    <3> QED
      BY <3>2, <3>3, <3>4, <3>5
  <2>2. CASE r # s
    <3>1. Users(r)' = Users(r)
      BY <2>2, <1>1, HttpSessionAssumption DEF Users, IInv, TypeOK
    <3> QED
      BY <3>1, <2>2, <1>1 DEF IInv, CountersExact, TypeOK
  <2> QED
    BY <2>1, <2>2
<1>4. UsedIsListed' /\ OneStage'
  BY <1>1 DEF IInv, UsedIsListed, OneStage, TypeOK
<1> QED
  BY <1>2, <1>3, <1>4 DEF IInv

(* ... and comes to it.                                                    *)
LEMMA OwedInv ==
  ASSUME IInv, NEW s \in Sessions, ReleaseOwed(s)
  PROVE  IInv'
<1> USE DEF ReleaseOwed
<1>1. TypeOK' /\ UsedIsListed' /\ OneStage'
  BY DEF IInv, TypeOK, UsedIsListed, OneStage
<1>2. CountersExact'
  <2> SUFFICES ASSUME NEW r \in Sessions
               PROVE  activity'[r] = destroyed'[r] + Cardinality(Users(r)') + owed'[r]
    BY DEF CountersExact
  <2>1. Users(r)' = Users(r)
    BY DEF Users
  <2>2. Cardinality(Users(r)) \in Nat
    BY UsersFinite, FS_CardinalityType
  <2> QED
    BY <2>1, <2>2 DEF IInv, CountersExact, TypeOK
<1> QED
  BY <1>1, <1>2 DEF IInv

(* What the counters say: a session that may be destroyed has no users.    *)
LEMMA NotInUse ==
  ASSUME IInv, NEW s \in Sessions, ~InUse(s)
  PROVE  owed[s] = 0 /\ \A h \in Chans : using[h] # s
<1>1. Cardinality(Users(s)) = 0 /\ owed[s] = 0
  BY UsersFinite, FS_CardinalityType DEF IInv, CountersExact, TypeOK, InUse
<1>2. Users(s) = {}
  BY <1>1, UsersFinite, FS_EmptySet
<1> QED
  BY <1>1, <1>2 DEF Users

(* The steps that leave the counters and the commands alone.               *)
LEMMA OtherInv ==
  ASSUME IInv, TypeOK', UNCHANGED <<activity, destroyed, using, owed>>,
         UsedIsListed', OneStage'
  PROVE  IInv'
<1>1. \A s : Users(s)' = Users(s)
  BY DEF Users
<1> QED
  BY <1>1 DEF IInv, CountersExact

(* Every step keeps the invariant.                                         *)
LEMMA NextInv == IInv /\ [Next]_vars => IInv'
<1> SUFFICES ASSUME IInv, [Next]_vars PROVE IInv'
  OBVIOUS
<1> USE DEF IInv, TypeOK, UsedIsListed, OneStage
<1>1. ASSUME NEW h \in Chans, Request(h) PROVE IInv'
  BY <1>1, OtherInv DEF Request, Phases
<1>2. ASSUME NEW h \in Chans, NoSession(h) PROVE IInv'
  BY <1>2, OtherInv DEF NoSession, Phases
<1>3. ASSUME NEW h \in Chans, Respond(h) PROVE IInv'
  <2>1. TypeOK'
    BY <1>3 DEF Respond, ReleaseSession, Phases
  <2> QED
    BY <1>3, <2>1, ReleaseInv DEF Respond
<1>4. ASSUME NEW h \in Chans, ChannelDestroy(h) PROVE IInv'
  <2>1. TypeOK'
    BY <1>4 DEF ChannelDestroy, Phases
  <2> QED
    BY <1>4, <2>1, OtherInv DEF ChannelDestroy
<1>5. ASSUME NEW h \in Chans, NEW s \in Sessions, LocateSession(h, s) PROVE IInv'
  BY <1>5, LocateInv
<1>6. ASSUME NEW h \in Chans, NEW w \in Watches, Block(h, w) PROVE IInv'
  BY <1>6, BlockInv
<1>7. ASSUME NEW s \in Sessions, HttpSessionCreate(s) PROVE IInv'
  BY <1>7, OtherInv DEF HttpSessionCreate
<1>8. ASSUME NEW s \in Sessions, HttpSessionDestroy(s) PROVE IInv'
  <2>1. UsedIsListed'
    BY <1>8, NotInUse DEF HttpSessionDestroy
  <2> QED
    BY <1>8, <2>1, OtherInv DEF HttpSessionDestroy
<1>9. ASSUME NEW s \in Sessions, DestroyForReal(s) PROVE IInv'
  BY <1>9, OtherInv DEF DestroyForReal
<1>10. ASSUME NEW s \in Sessions, NEW w \in Watches, Alert(s, w) PROVE IInv'
  <2>1. TypeOK'
    BY <1>10 DEF Alert, Phases
  <2> QED
    BY <1>10, <2>1, OtherInv DEF Alert
<1>11. ASSUME NEW s \in Sessions, ReleaseOwed(s) PROVE IInv'
  BY <1>11, OwedInv
<1>12. ASSUME UNCHANGED vars PROVE IInv'
  BY <1>12, OtherInv DEF vars
<1> QED
  BY <1>1, <1>2, <1>3, <1>4, <1>5, <1>6, <1>7, <1>8, <1>9, <1>10, <1>11, <1>12
     DEF Next, ChannelStep, SessionStep

-----------------------------------------------------------------------------
(* The invariant always holds.                                             *)
THEOREM Safety == Spec => []IInv
  BY InitInv, NextInv, PTL DEF Spec

(* Every variable keeps its type.                                          *)
THEOREM TypeOKAlways == Spec => []TypeOK
<1>1. IInv => TypeOK
  BY DEF IInv
<1> QED
  BY <1>1, Safety, PTL

(* No command ever has a session that is being destroyed or was, for any   *)
(* number of sessions, channels and requests, whichever way commands and   *)
(* timeouts interleave (locate_session, http_session_destroy).             *)
THEOREM UsedIsListedAlways == Spec => [](UsedIsListed /\ OneStage)
<1>1. IInv => UsedIsListed /\ OneStage
  BY DEF IInv
<1> QED
  BY <1>1, Safety, PTL

(* The two counters tell exactly how many commands have a session.         *)
THEOREM CountersExactAlways == Spec => []CountersExact
<1>1. IInv => CountersExact
  BY DEF IInv
<1> QED
  BY <1>1, Safety, PTL

-----------------------------------------------------------------------------
(* Watches.  The counting of WatchesTrue comes from three facts that single *)
(* watches show: only channels that wait are in watches, in no two, and     *)
(* each that waits is in one.  A command that has a session does not wait.  *)
UsingRuns == \A h \in Chans : using[h] # None => phase[h] \in {"command", "ready"}

WatchedWaits ==
    \A s \in Sessions, w \in Watches :
        watch[s][w] # None => phase[watch[s][w]] = "blocked"

WatchedOnce ==
    \A s1, s2 \in Sessions, w1, w2 \in Watches :
        watch[s1][w1] # None /\ watch[s1][w1] = watch[s2][w2] => s1 = s2 /\ w1 = w2

WaitsSomewhere ==
    \A h \in Chans : phase[h] = "blocked" => \E s \in Sessions, w \in Watches : watch[s][w] = h

WatchInv == TypeOK /\ UsingRuns /\ WatchedWaits /\ WatchedOnce /\ WaitsSomewhere

(* Every step keeps them.                                                  *)
LEMMA WatchStep == WatchInv /\ TypeOK' /\ [Next]_vars => WatchInv'
<1> SUFFICES ASSUME WatchInv, TypeOK', [Next]_vars
             PROVE  UsingRuns' /\ WatchedWaits' /\ WatchedOnce' /\ WaitsSomewhere'
  BY DEF WatchInv
<1>a. ASSUME NEW h \in Chans, Request(h) \/ NoSession(h)
      PROVE  /\ watch' = watch /\ using' = using
             /\ using[h] # None => phase'[h] \in {"command", "ready"}
             /\ \A g \in Chans : g # h => phase'[g] = phase[g]
             /\ \A g \in Chans : (phase'[g] = "blocked") <=> (phase[g] = "blocked")
  <2>1. phase \in [Chans -> Phases]
    BY DEF WatchInv, TypeOK
  <2>2. CASE Request(h)
    BY <2>1, <2>2 DEF Request
  <2>3. CASE NoSession(h)
    BY <2>1, <2>3 DEF NoSession, MayLocate
  <2> QED
    BY <1>a, <2>2, <2>3
<1>b. ASSUME NEW h \in Chans, Respond(h)
      PROVE  /\ watch' = watch
             /\ \A g \in Chans : (phase'[g] = "blocked") <=> (phase[g] = "blocked")
  <2>1. phase = [g \in Chans |-> phase[g]] /\ (using[h] # None => phase[h] # "blocked")
    BY DEF WatchInv, TypeOK, UsingRuns
  <2> QED
    BY <1>b, <2>1 DEF Respond, ReleaseSession
<1> USE HttpSessionAssumption
        DEF WatchInv, TypeOK, UsingRuns, WatchedWaits, WatchedOnce, WaitsSomewhere
<1>0. ASSUME watch' = watch, \A g \in Chans : (phase'[g] = "blocked") <=> (phase[g] = "blocked")
      PROVE  WatchedWaits' /\ WatchedOnce' /\ WaitsSomewhere'
  <2>1. WatchedWaits'
    BY <1>0
  <2>2. WatchedOnce'
    BY <1>0
  <2>3. WaitsSomewhere'
    BY <1>0
  <2> QED
    BY <2>1, <2>2, <2>3
<1>1. ASSUME NEW h \in Chans, Request(h) \/ NoSession(h)
      PROVE  UsingRuns' /\ WatchedWaits' /\ WatchedOnce' /\ WaitsSomewhere'
  <2>1. UsingRuns'
    BY <1>1, <1>a
  <2> QED
    BY <1>1, <1>a, <2>1, <1>0
<1>2. ASSUME NEW h \in Chans, Respond(h)
      PROVE  UsingRuns' /\ WatchedWaits' /\ WatchedOnce' /\ WaitsSomewhere'
  <2>1. UsingRuns'
    BY <1>2 DEF Respond, ReleaseSession
  <2> QED
    BY <1>2, <1>b, <2>1, <1>0
<1>3. ASSUME NEW h \in Chans, ChannelDestroy(h)
      PROVE  UsingRuns' /\ WatchedWaits' /\ WatchedOnce' /\ WaitsSomewhere'
  <2>1. UsingRuns' /\ WatchedWaits' /\ WatchedOnce'
    BY <1>3 DEF ChannelDestroy
  <2>2. WaitsSomewhere'
    <3> SUFFICES ASSUME NEW g \in Chans, phase'[g] = "blocked"
                 PROVE  \E s \in Sessions, w \in Watches : watch'[s][w] = g
      OBVIOUS
    <3>1. g # h /\ phase[g] = "blocked"
      BY <1>3 DEF ChannelDestroy
    <3>2. PICK s \in Sessions, w \in Watches : watch[s][w] = g
      BY <3>1
    <3>3. watch'[s][w] = g
      BY <1>3, <3>1, <3>2 DEF ChannelDestroy
    <3> QED
      BY <3>3
  <2> QED
    BY <2>1, <2>2
<1>4. ASSUME NEW h \in Chans, NEW s \in Sessions, LocateSession(h, s)
      PROVE  UsingRuns' /\ WatchedWaits' /\ WatchedOnce' /\ WaitsSomewhere'
  <2>1. watch' = watch /\ phase' = phase /\ UsingRuns'
    BY <1>4 DEF LocateSession, MayLocate
  <2> QED
    BY <2>1, <1>0
<1>5. ASSUME NEW h \in Chans, NEW w \in Watches, Block(h, w)
      PROVE  UsingRuns' /\ WatchedWaits' /\ WatchedOnce' /\ WaitsSomewhere'
  <2> DEFINE u == using[h]
  <2>0. using[h] # None /\ watch[u][w] = None
    BY <1>5 DEF Block
  <2>1. u \in Sessions /\ phase[h] # "blocked" /\ watch[u][w] = None
    <3>1. phase[h] \in {"command", "ready"}
      BY <2>0
    <3> QED
      BY <2>0, <3>1
  <2>2. \A s \in Sessions, v \in Watches : watch[s][v] # h
    BY <2>1
  <2>3. \A s \in Sessions, v \in Watches :
           watch'[s][v] = IF s = u /\ v = w THEN h ELSE watch[s][v]
    BY <1>5, <2>1 DEF Block
  <2>4. phase' = [phase EXCEPT ![h] = "blocked"] /\ using' = [using EXCEPT ![h] = None]
    BY <1>5 DEF Block
  <2>5. UsingRuns' /\ WatchedWaits'
    BY <2>3, <2>4
  <2>6. WatchedOnce'
    BY <2>2, <2>3
  <2>7. WaitsSomewhere'
    <3> SUFFICES ASSUME NEW g \in Chans, phase'[g] = "blocked"
                 PROVE  \E s \in Sessions, v \in Watches : watch'[s][v] = g
      OBVIOUS
    <3>1. CASE g = h
      BY <3>1, <2>1, <2>3
    <3>2. CASE g # h
      <4>1. PICK s \in Sessions, v \in Watches : watch[s][v] = g
        BY <3>2, <2>4
      <4>2. g # None
        BY HttpSessionAssumption
      <4>3. ~(s = u /\ v = w)
        BY ONLY <2>1, <4>1, <4>2
      <4>4. watch'[s][v] = g
        BY ONLY <2>3, <4>1, <4>3
      <4> QED
        BY <4>4
    <3> QED
      BY <3>1, <3>2
  <2> QED
    BY <2>5, <2>6, <2>7
<1>6. ASSUME NEW s \in Sessions,
             HttpSessionCreate(s) \/ HttpSessionDestroy(s) \/ DestroyForReal(s) \/ ReleaseOwed(s)
      PROVE  UsingRuns' /\ WatchedWaits' /\ WatchedOnce' /\ WaitsSomewhere'
  BY <1>6 DEF HttpSessionCreate, HttpSessionDestroy, DestroyForReal, ReleaseOwed
<1>7. ASSUME NEW s \in Sessions, NEW w \in Watches, Alert(s, w)
      PROVE  UsingRuns' /\ WatchedWaits' /\ WatchedOnce' /\ WaitsSomewhere'
  <2> DEFINE h == watch[s][w]
  <2>1. h \in Chans /\ phase[h] = "blocked"
    BY <1>7 DEF Alert
  <2>2. \A r \in Sessions, v \in Watches :
           watch'[r][v] = IF r = s /\ v = w THEN None ELSE watch[r][v]
    BY <1>7 DEF Alert
  <2>3. phase' = [phase EXCEPT ![h] = "ready"] /\ using' = using
    BY <1>7 DEF Alert
  <2>4. UsingRuns'
    BY <2>1, <2>3
  <2>5. WatchedWaits' /\ WatchedOnce'
    BY <2>1, <2>2, <2>3
  <2>6. WaitsSomewhere'
    <3> SUFFICES ASSUME NEW g \in Chans, phase'[g] = "blocked"
                 PROVE  \E r \in Sessions, v \in Watches : watch'[r][v] = g
      OBVIOUS
    <3>1. g # h /\ phase[g] = "blocked"
      BY <2>1, <2>3
    <3>2. PICK r \in Sessions, v \in Watches : watch[r][v] = g
      BY <3>1
    <3>3. watch'[r][v] = g
      BY <3>1, <3>2, <2>2
    <3> QED
      BY <3>3
  <2> QED
    BY <2>4, <2>5, <2>6
<1>8. ASSUME UNCHANGED vars
      PROVE  UsingRuns' /\ WatchedWaits' /\ WatchedOnce' /\ WaitsSomewhere'
  BY <1>8 DEF vars
<1> QED
  BY <1>1, <1>2, <1>3, <1>4, <1>5, <1>6, <1>7, <1>8 DEF Next, ChannelStep, SessionStep

(* They count.                                                             *)
LEMMA WatchCount == WatchInv => WatchesTrue
<1> SUFFICES ASSUME WatchInv, NEW h \in Chans
             PROVE  Cardinality({p \in Sessions \X Watches : watch[p[1]][p[2]] = h})
                        = (IF phase[h] = "blocked" THEN 1 ELSE 0)
  BY DEF WatchesTrue
<1> DEFINE W == {p \in Sessions \X Watches : watch[p[1]][p[2]] = h}
<1>0. h # None
  BY HttpSessionAssumption
<1>1. CASE phase[h] = "blocked"
  <2>1. PICK s \in Sessions, w \in Watches : watch[s][w] = h
    BY <1>1 DEF WatchInv, WaitsSomewhere
  <2>2. W = {<<s, w>>}
    BY <2>1, <1>0 DEF WatchInv, WatchedOnce
  <2> QED
    BY <1>1, <2>2, FS_Singleton
<1>2. CASE phase[h] # "blocked"
  <2>1. W = {}
    BY <1>2, <1>0 DEF WatchInv, WatchedWaits
  <2> QED
    BY <1>2, <2>1, FS_EmptySet
<1> QED
  BY <1>1, <1>2

(* They hold always.                                                       *)
THEOREM WatchInvAlways == Spec => []WatchInv
<1>1. Init => WatchInv
  BY DEF Init, WatchInv, TypeOK, Phases, UsingRuns, WatchedWaits, WatchedOnce, WaitsSomewhere
<1>2. WatchInv /\ TypeOK' /\ [Next]_vars => WatchInv'
  BY WatchStep
<1> QED
  BY <1>1, <1>2, TypeOKAlways, PTL DEF Spec

(* A channel that waits is in exactly one watch, and no other is in any:   *)
(* an alert, a new watch and the end of a channel find each other's work   *)
(* done, in whatever order they come (session_set_watch,                   *)
(* session_alert_watch, session_watch_cancel).                             *)
THEOREM WatchesTrueAlways == Spec => []WatchesTrue
  BY WatchInvAlways, WatchCount, PTL
-----------------------------------------------------------------------------
(* The end of a channel is one of its session's watches, or nothing.       *)
LEMMA DestroyStep ==
  ASSUME NEW h \in Chans, NEW stage, NEW answered, Destroy(h, stage, answered)
  PROVE  [Next]_vars
<1>1. CASE phase[h] = "blocked"
  BY <1>1 DEF Destroy, Next, ChannelStep
<1>2. CASE phase[h] # "blocked"
  BY <1>2 DEF Destroy
<1> QED
  BY <1>1, <1>2

(* What http_io and proxy_io do is a step of a session's life or none.     *)
LEMMA HttpIoStep ==
  ASSUME NEW h \in Chans, HttpIo(h) \/ ProxyIo(h) \/ Accept(h) \/ ClientSend(h)
  PROVE  [Next]_vars
<1>1. CASE Accept(h) \/ ClientSend(h) \/ Input(h) \/ InputEnds(h) \/ BadRequest(h) \/ ProxyRequest(h)
  BY <1>1 DEF Accept, ClientSend, Input, InputEnds, BadRequest, ProxyRequest
<1>2. CASE CommandStarts(h)
  BY <1>2 DEF CommandStarts, Next, ChannelStep
<1>3. CASE Output(h)
  BY <1>3, DestroyStep DEF Output
<1>4. CASE Drop(h)
  BY <1>4, DestroyStep DEF Drop
<1>5. CASE ProxyOutput(h) \/ \E last \in BOOLEAN : ProxyInput(h, last)
  BY <1>5 DEF ProxyOutput, ProxyInput
<1>6. CASE ProxyClosed(h)
  BY <1>6, DestroyStep DEF ProxyClosed
<1> QED
  BY <1>1, <1>2, <1>3, <1>4, <1>5, <1>6 DEF HttpIo, ProxyIo

(* So is what commands do.                                                 *)
LEMMA CommandIsStep ==
  ASSUME NEW h \in Chans, Command(h)
  PROVE  [Next]_vars
  BY DEF Command, CommandResponds, CommandStep, Next, ChannelStep

(* A step of a session is one of HttpSession.                               *)
LEMMA SessionIsStep ==
  ASSUME NEW s \in Sessions, SessionSteps(s)
  PROVE  [Next]_vars
  BY DEF SessionSteps, Next, SessionStep

(* Every step of the server is one of HttpSession or leaves its variables  *)
(* alone: in particular a channel ends only where HttpSession lets it,     *)
(* whether it wrote its last response, lost its client or its web server.  *)
THEOREM ImplementsSessions == ChannelSpec => Spec
<1>1. ChannelInit => Init
  BY DEF ChannelInit
<1>2. [ChannelNext]_channelVars => [Next]_vars
  <2> SUFFICES ASSUME [ChannelNext]_channelVars PROVE [Next]_vars
    OBVIOUS
  <2>1. CASE \E h \in Chans : Accept(h) \/ ClientSend(h) \/ HttpIo(h) \/ ProxyIo(h) \/ Command(h)
    BY <2>1, HttpIoStep, CommandIsStep
  <2>2. CASE \E s \in Sessions : SessionSteps(s)
    BY <2>2, SessionIsStep
  <2>3. CASE UNCHANGED channelVars
    BY <2>3 DEF channelVars
  <2> QED
    BY <2>1, <2>2, <2>3 DEF ChannelNext
<1> QED
  BY <1>1, <1>2, PTL DEF ChannelSpec, Spec

(* What holds of sessions holds when channels and proxies run them.        *)
THEOREM SessionsSafe == ChannelSpec => [](CountersExact /\ UsedIsListed /\ WatchesTrue)
  BY ImplementsSessions, CountersExactAlways, UsedIsListedAlways, WatchesTrueAlways, PTL

-----------------------------------------------------------------------------
(* The order of responses                                                  *)

(* The types of a channel's fields.                                        *)
Pieces == [of : Nat, last : BOOLEAN]

ChannelType ==
    [stage : {"new", "open", "lost", "done"}, script : Seq(Requests),
     sent : Nat, taken : Nat, answered : Nat, wire : Seq(Nat), iqueue : Seq(Nat),
     oqueue : Seq(Pieces), input : BOOLEAN, output : BOOLEAN, keep_alive : BOOLEAN,
     proxy : {"none", "open", "closed"}, pqueue : Seq(Nat),
     backend : Seq([of : Nat, half : BOOLEAN])]

(* The number of the response that the next piece belongs to.              *)
AfterPiece(p) == IF p.last THEN p.of + 1 ELSE p.of
Reached(q, answered) == IF q = <<>> THEN answered + 1 ELSE AfterPiece(q[Len(q)])

(* The pieces yet to be written are in order, of requests that were taken; *)
(* only the web server answers in more than one piece.                     *)
InOrder(q, answered, taken, script) ==
    /\ q # <<>> => q[1].of = answered + 1
    /\ \A i \in 1 .. Len(q) : q[i].of <= taken /\ (~q[i].last => script[q[i].of].kind = "proxy")
    /\ \A i, j \in 1 .. Len(q) : i < j => q[j].of >= AfterPiece(q[i])
    /\ \A i \in 1 .. Len(q) : i < Len(q) => q[i + 1].of = AfterPiece(q[i])

(* Requests that were sent and not yet taken, by their numbers.            *)
Numbered(sent, taken, iqueue, wire) ==
    /\ sent = taken + Len(iqueue) + Len(wire)
    /\ \A i \in 1 .. Len(iqueue) : iqueue[i] = taken + i
    /\ \A i \in 1 .. Len(wire) : wire[i] = taken + Len(iqueue) + i

(* What is sent alone was sent when all before it had been answered.       *)
AloneWaited(script, sent, answered) ==
    /\ sent <= Len(script)
    /\ \A n \in 1 .. sent : script[n].alone => n <= answered + 1

(* A channel serves nothing: the next response is that of the next request.*)
Free(c, idle) ==
    /\ idle /\ Reached(c.oqueue, c.answered) = c.taken + 1
    /\ c.pqueue = <<>> /\ c.backend = <<>>

(* It serves a command, ...                                                *)
Busy(c, idle) ==
    /\ ~idle /\ Reached(c.oqueue, c.answered) = c.taken
    /\ c.taken > 0 /\ c.script[c.taken].kind = "command"
    /\ c.pqueue = <<>> /\ c.backend = <<>>

(* ... or the web server has the request, or nobody after a failure.       *)
Proxied(c, idle) ==
    /\ idle /\ Reached(c.oqueue, c.answered) = c.taken
    /\ c.taken > 0 /\ c.script[c.taken].kind = "proxy"
    /\ \/ c.pqueue = <<>> /\ c.backend = <<>>
       \/ c.pqueue = <<c.taken>> /\ c.backend = <<>>
       \/ c.pqueue = <<>> /\ \E half \in BOOLEAN : c.backend = <<[of |-> c.taken, half |-> half]>>

KeptAlive(c) ==
    c.taken > 0 =>
        c.keep_alive = (c.script[c.taken].kind # "bad" /\ ~c.script[c.taken].close)

OrderlyScript(script) ==
    \A n \in 1 .. Len(script) :
        /\ script[n].close => script[n].kind # "proxy" /\ script[n].alone
        /\ ~script[n].alone => script[n - 1].kind = "command" /\ script[n].kind # "proxy"

(* The invariant of a channel with an orderly client, while it is open.    *)
InService(c, idle) ==
    /\ Numbered(c.sent, c.taken, c.iqueue, c.wire)
    /\ InOrder(c.oqueue, c.answered, c.taken, c.script)
    /\ AloneWaited(c.script, c.sent, c.answered)
    /\ KeptAlive(c)
    /\ Free(c, idle) \/ Busy(c, idle) \/ Proxied(c, idle)

(* The invariant of a channel: idle says that no command of it runs.       *)
Good(c, idle) ==
    /\ {"stage", "input", "script"} \subseteq DOMAIN c
    /\ c.stage = "new" => c = Closed
    /\ c.stage # "open" => idle /\ ~c.input
    /\ OrderlyScript(c.script) =>
          /\ c \in ChannelType
          /\ c.stage = "open" => InService(c, idle)
          /\ c.stage = "done" => c.answered = c.taken

ChannelInv ==
    /\ DOMAIN chan = Chans
    /\ \A h \in Chans : Good(chan[h], phase[h] = "idle")

-----------------------------------------------------------------------------
(* Queues of pieces                                                        *)

(* The next response is none of those that were written.                   *)
LEMMA ReachedAbove ==
  ASSUME NEW q \in Seq(Pieces), NEW a \in Nat, NEW t \in Nat, NEW script, InOrder(q, a, t, script)
  PROVE  Reached(q, a) \in Nat /\ Reached(q, a) >= a + 1
<1>1. CASE q = <<>>
  BY <1>1 DEF Reached
<1>2. CASE q # <<>>
  <2>1. Len(q) \in Nat /\ Len(q) >= 1 /\ q[1] \in Pieces /\ q[Len(q)] \in Pieces
    BY <1>2
  <2>2. q[1].of = a + 1 /\ q[1].of \in Nat /\ q[Len(q)].of \in Nat
    BY <1>2, <2>1 DEF InOrder, Pieces
  <2>3. CASE Len(q) = 1
    BY <1>2, <2>1, <2>2, <2>3 DEF Reached, AfterPiece, Pieces
  <2>4. CASE 1 < Len(q)
    <3>1. 1 \in 1 .. Len(q) /\ Len(q) \in 1 .. Len(q)
      BY <2>1
    <3>2. q[Len(q)].of >= AfterPiece(q[1])
      BY <2>4, <3>1 DEF InOrder
    <3> QED
      BY <1>2, <2>1, <2>2, <3>2 DEF Reached, AfterPiece, Pieces
  <2> QED
    BY <2>1, <2>3, <2>4
<1> QED
  BY <1>1, <1>2

(* One more piece of the response that is next keeps the order.            *)
LEMMA AppendOrder ==
  ASSUME NEW q \in Seq(Pieces), NEW a \in Nat, NEW t \in Nat, NEW u \in Nat, NEW script,
         InOrder(q, a, t, script), NEW p \in Pieces,
         p.of = Reached(q, a), t <= u, p.of <= u, ~p.last => script[p.of].kind = "proxy"
  PROVE  /\ InOrder(Append(q, p), a, u, script)
         /\ Append(q, p) \in Seq(Pieces) /\ Append(q, p) # <<>>
         /\ Reached(Append(q, p), a) = AfterPiece(p)
<1> DEFINE r == Append(q, p)
<1>1. /\ r \in Seq(Pieces) /\ Len(r) = Len(q) + 1 /\ r[Len(q) + 1] = p
      /\ \A i \in 1 .. Len(q) : r[i] = q[i] /\ q[i] \in Pieces
  OBVIOUS
<1>2. Len(q) \in Nat /\ r # <<>>
  BY <1>1
<1> HIDE DEF r
<1>3. Reached(r, a) = AfterPiece(p)
  BY <1>1, <1>2 DEF Reached
<1>4. r[1].of = a + 1
  <2>1. CASE q = <<>>
    BY <2>1, <1>1 DEF Reached
  <2>2. CASE q # <<>>
    BY <2>2, <1>1, <1>2 DEF InOrder
  <2> QED
    BY <2>1, <2>2
<1>5. ASSUME NEW i \in 1 .. Len(r)
      PROVE  r[i].of <= u /\ (~r[i].last => script[r[i].of].kind = "proxy")
  <2>1. CASE i = Len(q) + 1
    BY <2>1, <1>1
  <2>2. CASE i \in 1 .. Len(q)
    <3>1. r[i] = q[i] /\ q[i].of \in Nat /\ q[i].of <= t
      BY <2>2, <1>1 DEF InOrder, Pieces
    <3> QED
      BY <2>2, <3>1 DEF InOrder
  <2> QED
    BY <2>1, <2>2, <1>1, <1>2
<1>6. ASSUME NEW i \in 1 .. Len(q)
      PROVE  p.of >= AfterPiece(q[i]) /\ (i = Len(q) => p.of = AfterPiece(q[i]))
  <2>1. q # <<>> /\ Len(q) \in 1 .. Len(q)
    BY <1>2
  <2>2. p.of = AfterPiece(q[Len(q)])
    BY <2>1 DEF Reached
  <2>3. q[i] \in Pieces /\ q[Len(q)] \in Pieces
    BY <2>1, <1>1
  <2>4. i < Len(q) => q[Len(q)].of >= AfterPiece(q[i])
    BY <2>1 DEF InOrder
  <2>5. AfterPiece(q[Len(q)]) >= q[Len(q)].of
    BY <2>3 DEF AfterPiece, Pieces
  <2>6. AfterPiece(q[i]) \in Nat /\ AfterPiece(q[Len(q)]) \in Nat /\ q[Len(q)].of \in Nat
    <3>1. \A x \in Pieces : AfterPiece(x) \in Nat /\ x.of \in Nat
      BY DEF AfterPiece, Pieces
    <3> QED
      BY <2>3, <3>1
  <2>7. CASE i = Len(q)
    BY <2>2, <2>6, <2>7
  <2>8. CASE i < Len(q)
    BY <2>2, <2>4, <2>5, <2>6, <2>8
  <2> QED
    BY <2>7, <2>8, <1>2
<1>7. ASSUME NEW i \in 1 .. Len(r), NEW j \in 1 .. Len(r), i < j
      PROVE  r[j].of >= AfterPiece(r[i])
  <2>1. CASE j = Len(q) + 1
    <3>1. i \in 1 .. Len(q)
      BY <2>1, <1>1, <1>7
    <3>2. r[j] = p
      BY <2>1, <1>1
    <3>3. r[i] = q[i]
      BY <3>1, <1>1
    <3> QED
      BY <3>1, <3>2, <3>3, <1>6
  <2>2. CASE j \in 1 .. Len(q)
    BY <2>2, <1>1, <1>2, <1>7 DEF InOrder
  <2> QED
    BY <2>1, <2>2, <1>1, <1>2
<1>8. ASSUME NEW i \in 1 .. Len(r), i < Len(r)
      PROVE  r[i + 1].of = AfterPiece(r[i])
  <2>1. CASE i = Len(q)
    BY <2>1, <1>1, <1>2, <1>6
  <2>2. CASE i < Len(q)
    BY <2>2, <1>1, <1>2 DEF InOrder
  <2> QED
    BY <2>1, <2>2, <1>1, <1>2, <1>8
<1> QED
  BY <1>1, <1>2, <1>3, <1>4, <1>5, <1>7, <1>8 DEF InOrder, r

(* So does writing the first one.                                          *)
LEMMA TailOrder ==
  ASSUME NEW q \in Seq(Pieces), q # <<>>, NEW a \in Nat, NEW t \in Nat, NEW script,
         InOrder(q, a, t, script)
  PROVE  LET b == IF Head(q).last THEN a + 1 ELSE a
         IN  /\ InOrder(Tail(q), b, t, script) /\ Tail(q) \in Seq(Pieces)
             /\ Reached(Tail(q), b) = Reached(q, a)
<1> DEFINE b == IF Head(q).last THEN a + 1 ELSE a
           r == Tail(q)
<1>1. /\ Head(q) = q[1] /\ q[1] \in Pieces
      /\ r \in Seq(Pieces) /\ Len(q) \in Nat /\ Len(q) >= 1 /\ Len(r) = Len(q) - 1
      /\ \A i \in 1 .. Len(r) : r[i] = q[i + 1]
  OBVIOUS
<1>2. q[1].of = a + 1 /\ AfterPiece(q[1]) = b + 1
  BY <1>1 DEF InOrder, AfterPiece, Pieces
<1> HIDE DEF r, b
<1>3. r # <<>> => r[1].of = b + 1
  <2> SUFFICES ASSUME r # <<>> PROVE r[1].of = b + 1
    OBVIOUS
  <2>1. Len(r) >= 1
    BY <1>1
  <2>2. 1 < Len(q) /\ 1 \in 1 .. Len(q) /\ r[1] = q[1 + 1]
    BY <2>1, <1>1
  <2>3. \A i \in 1 .. Len(q) : i < Len(q) => q[i + 1].of = AfterPiece(q[i])
    BY DEF InOrder
  <2>4. q[1 + 1].of = AfterPiece(q[1])
    BY <2>2, <2>3
  <2> QED
    BY <2>2, <2>4, <1>2
<1>4. \A i \in 1 .. Len(r) : r[i].of <= t /\ (~r[i].last => script[r[i].of].kind = "proxy")
  <2>1. \A i \in 1 .. Len(q) : q[i].of <= t /\ (~q[i].last => script[q[i].of].kind = "proxy")
    BY DEF InOrder
  <2>2. \A i \in 1 .. Len(r) : i + 1 \in 1 .. Len(q) /\ r[i] = q[i + 1]
    BY <1>1
  <2> QED
    BY <2>1, <2>2
<1>5. ASSUME NEW i \in 1 .. Len(r), NEW j \in 1 .. Len(r), i < j PROVE r[j].of >= AfterPiece(r[i])
  <2>1. i + 1 \in 1 .. Len(q) /\ j + 1 \in 1 .. Len(q) /\ i + 1 < j + 1
    BY <1>1, <1>5
  <2>2. q[j + 1].of >= AfterPiece(q[i + 1])
    BY <2>1 DEF InOrder
  <2> QED
    BY <1>1, <2>2
<1>6. ASSUME NEW i \in 1 .. Len(r), i < Len(r) PROVE r[i + 1].of = AfterPiece(r[i])
  <2>1. i + 1 \in 1 .. Len(q) /\ i + 1 < Len(q) /\ r[i] = q[i + 1]
    BY <1>1, <1>6
  <2>2. r[i + 1] = q[(i + 1) + 1]
    BY <1>1, <1>6
  <2>3. q[(i + 1) + 1].of = AfterPiece(q[i + 1])
    BY <2>1 DEF InOrder
  <2> QED
    BY <2>1, <2>2, <2>3
<1>7. Reached(r, b) = Reached(q, a)
  <2>1. CASE r = <<>>
    <3>1. Len(q) = 1
      BY <2>1, <1>1
    <3> QED
      BY <2>1, <3>1, <1>2 DEF Reached
  <2>2. CASE r # <<>>
    <3>1. Len(r) \in 1 .. Len(r) /\ r[Len(r)] = q[Len(q)]
      BY <2>2, <1>1
    <3> QED
      BY <2>2, <3>1 DEF Reached
  <2> QED
    BY <2>1, <2>2
<1> QED
  BY <1>1, <1>3, <1>4, <1>5, <1>6, <1>7 DEF InOrder, r, b

(* That more requests were taken keeps it too.                             *)
LEMMA OrderLater ==
  ASSUME NEW q \in Seq(Pieces), NEW a \in Nat, NEW t \in Nat, NEW script, InOrder(q, a, t, script)
  PROVE  InOrder(q, a, t + 1, script)
<1>1. \A i \in 1 .. Len(q) : q[i] \in Pieces
  OBVIOUS
<1>2. \A i \in 1 .. Len(q) : q[i].of \in Nat
  BY <1>1 DEF Pieces
<1>3. \A i \in 1 .. Len(q) : q[i].of <= t + 1
  BY <1>2 DEF InOrder
<1> QED
  BY <1>3 DEF InOrder

-----------------------------------------------------------------------------
(* Queues of requests                                                      *)

(* The client sends one more.                                              *)
LEMMA SendNumbered ==
  ASSUME NEW sent \in Nat, NEW taken \in Nat, NEW iq \in Seq(Nat), NEW wire \in Seq(Nat),
         Numbered(sent, taken, iq, wire)
  PROVE  Numbered(sent + 1, taken, iq, Append(wire, sent + 1))
<1> DEFINE v == Append(wire, sent + 1)
<1>1. /\ Len(v) = Len(wire) + 1 /\ v[Len(wire) + 1] = sent + 1
      /\ \A i \in 1 .. Len(wire) : v[i] = wire[i]
      /\ Len(wire) \in Nat /\ Len(iq) \in Nat
  OBVIOUS
<1> HIDE DEF v
<1>2. ASSUME NEW i \in 1 .. Len(v) PROVE v[i] = taken + Len(iq) + i
  <2>1. CASE i = Len(wire) + 1
    BY <2>1, <1>1 DEF Numbered
  <2>2. CASE i \in 1 .. Len(wire)
    BY <2>2, <1>1 DEF Numbered
  <2> QED
    BY <2>1, <2>2, <1>1
<1> QED
  BY <1>1, <1>2 DEF Numbered, v

(* The server receives all there is.                                       *)
LEMMA ReceiveNumbered ==
  ASSUME NEW sent \in Nat, NEW taken \in Nat, NEW iq \in Seq(Nat), NEW wire \in Seq(Nat),
         Numbered(sent, taken, iq, wire)
  PROVE  Numbered(sent, taken, iq \o wire, <<>>)
<1> DEFINE r == iq \o wire
<1>1. /\ Len(r) = Len(iq) + Len(wire) /\ Len(wire) \in Nat /\ Len(iq) \in Nat
      /\ \A i \in 1 .. Len(iq) : r[i] = iq[i]
      /\ \A i \in Len(iq) + 1 .. Len(r) : r[i] = wire[i - Len(iq)]
  OBVIOUS
<1> HIDE DEF r
<1>2. ASSUME NEW i \in 1 .. Len(r) PROVE r[i] = taken + i
  <2>1. CASE i <= Len(iq)
    BY <2>1, <1>1 DEF Numbered
  <2>2. CASE i > Len(iq)
    <3> DEFINE j == i - Len(iq)
    <3>1. j \in 1 .. Len(wire) /\ i \in Len(iq) + 1 .. Len(r)
      BY <2>2, <1>1
    <3>2. r[i] = wire[j]
      BY <3>1, <1>1
    <3>3. i = Len(iq) + j
      BY <3>1, <1>1
    <3> HIDE DEF j
    <3>4. wire[j] = taken + Len(iq) + j
      BY <3>1 DEF Numbered
    <3> QED
      BY <3>1, <3>2, <3>3, <3>4, <1>1
  <2> QED
    BY <2>1, <2>2, <1>1
<1> QED
  BY <1>1, <1>2 DEF Numbered, r

(* The server takes the next one.                                          *)
LEMMA TakeNumbered ==
  ASSUME NEW sent \in Nat, NEW taken \in Nat, NEW iq \in Seq(Nat), NEW wire \in Seq(Nat),
         Numbered(sent, taken, iq, wire), iq # <<>>
  PROVE  /\ Head(iq) = taken + 1 /\ taken + 1 <= sent /\ Tail(iq) \in Seq(Nat)
         /\ Numbered(sent, taken + 1, Tail(iq), wire)
<1> DEFINE r == Tail(iq)
<1>1. /\ Len(iq) \in Nat /\ Len(wire) \in Nat /\ Len(iq) >= 1 /\ Len(r) = Len(iq) - 1
      /\ Head(iq) = iq[1] /\ r \in Seq(Nat)
      /\ \A i \in 1 .. Len(r) : r[i] = iq[i + 1]
  OBVIOUS
<1> HIDE DEF r
<1>2. Head(iq) = taken + 1 /\ taken + 1 <= sent
  BY <1>1 DEF Numbered
<1>3. \A i \in 1 .. Len(r) : r[i] = taken + 1 + i
  BY <1>1 DEF Numbered
<1>4. \A i \in 1 .. Len(wire) : wire[i] = taken + 1 + Len(r) + i
  BY <1>1 DEF Numbered
<1> QED
  BY <1>1, <1>2, <1>3, <1>4 DEF Numbered, r

(* Queues of numbers stay queues of numbers.                               *)
LEMMA Queues ==
  ASSUME NEW iq \in Seq(Nat), NEW wire \in Seq(Nat), NEW n \in Nat
  PROVE  iq \o wire \in Seq(Nat) /\ Append(wire, n) \in Seq(Nat) /\ <<>> \in Seq(Nat)
  OBVIOUS

(* Sequences of one element, and of none.                                  *)
LEMMA Single ==
  ASSUME NEW S, NEW x \in S
  PROVE  /\ Append(<<>>, x) = <<x>> /\ <<x>> \in Seq(S) /\ <<>> \in Seq(S)
         /\ Head(<<x>>) = x /\ Tail(<<x>>) = <<>> /\ <<x>> \o <<>> = <<x>>
  OBVIOUS

(* What was sent and is in no queue was taken.                             *)
LEMMA AllTaken ==
  ASSUME NEW sent \in Nat, NEW taken \in Nat, NEW iq \in Seq(Nat), NEW wire \in Seq(Nat),
         Numbered(sent, taken, iq, wire)
  PROVE  taken <= sent /\ (sent = taken => iq = <<>> /\ wire = <<>>)
<1>1. Len(iq) \in Nat /\ Len(wire) \in Nat
  OBVIOUS
<1>2. taken <= sent /\ (sent = taken => Len(iq) = 0 /\ Len(wire) = 0)
  BY <1>1 DEF Numbered
<1> QED
  BY <1>2

-----------------------------------------------------------------------------
(* Steps of one channel                                                    *)

(* What the type of a channel says of its fields.                          *)
LEMMA Fields ==
  ASSUME NEW c \in ChannelType
  PROVE  /\ c.script \in Seq(Requests) /\ Len(c.script) \in Nat
         /\ c.sent \in Nat /\ c.taken \in Nat /\ c.answered \in Nat
         /\ c.wire \in Seq(Nat) /\ Len(c.wire) \in Nat
         /\ c.iqueue \in Seq(Nat) /\ Len(c.iqueue) \in Nat
         /\ c.oqueue \in Seq(Pieces) /\ Len(c.oqueue) \in Nat
         /\ c.pqueue \in Seq(Nat) /\ c.backend \in Seq([of : Nat, half : BOOLEAN])
         /\ c.keep_alive \in BOOLEAN /\ c.input \in BOOLEAN /\ c.output \in BOOLEAN
         /\ c.stage \in {"new", "open", "lost", "done"}
         /\ c.proxy \in {"none", "open", "closed"}
  BY DEF ChannelType

(* While the web server has a request the client has sent nothing else.    *)
LEMMA NothingBehindProxied ==
  ASSUME NEW c \in ChannelType, NEW idle \in BOOLEAN, OrderlyScript(c.script),
         InService(c, idle), Proxied(c, idle)
  PROVE  c.sent = c.taken /\ c.iqueue = <<>> /\ c.wire = <<>>
<1>1. c.answered + 1 <= c.taken /\ c.answered \in Nat /\ c.taken \in Nat /\ c.sent \in Nat
  BY ReachedAbove, Fields DEF InService, Proxied
<1>2. c.taken <= c.sent /\ (c.sent = c.taken => c.iqueue = <<>> /\ c.wire = <<>>)
  BY AllTaken, Fields DEF InService
<1>3. c.sent <= Len(c.script) /\ Len(c.script) \in Nat
  BY Fields DEF InService, AloneWaited
<1>4. ~(c.taken + 1 <= c.sent)
  <2> SUFFICES ASSUME c.taken + 1 <= c.sent PROVE FALSE
    OBVIOUS
  <2>1. PICK n : n = c.taken + 1
    OBVIOUS
  <2>2. n \in 1 .. c.sent /\ n \in 1 .. Len(c.script) /\ n - 1 = c.taken /\ ~(n <= c.answered + 1)
    BY <1>1, <1>3, <2>1
  <2>3. ~c.script[n].alone
    BY <2>2 DEF InService, AloneWaited
  <2>4. c.script[n - 1].kind = "command"
    BY <2>2, <2>3, Zenon DEF OrderlyScript
  <2> QED
    BY <2>2, <2>4 DEF Proxied
<1>5. c.sent = c.taken
  BY <1>1, <1>2, <1>4
<1> QED
  BY <1>2, <1>5

(* A request that can be taken has the next number, and nothing is served. *)
LEMMA NextIsFree ==
  ASSUME NEW c \in ChannelType, OrderlyScript(c.script), InService(c, TRUE), c.iqueue # <<>>
  PROVE  /\ Head(c.iqueue) = c.taken + 1 /\ c.taken + 1 \in 1 .. c.sent
         /\ c.taken + 1 \in 1 .. Len(c.script) /\ Free(c, TRUE)
<1>1. Free(c, TRUE)
  BY NothingBehindProxied DEF InService, Busy
<1>2. Head(c.iqueue) = c.taken + 1 /\ c.taken + 1 <= c.sent
  BY TakeNumbered, Fields DEF InService
<1>3. c.sent <= Len(c.script) /\ Len(c.script) \in Nat /\ c.taken \in Nat /\ c.sent \in Nat
  BY Fields DEF InService, AloneWaited
<1>4. PICK m \in Nat : m = c.taken
  BY <1>3
<1>5. m + 1 \in 1 .. c.sent /\ m + 1 \in 1 .. Len(c.script)
  BY <1>2, <1>3, <1>4
<1> QED
  BY <1>1, <1>2, <1>4, <1>5, Zenon

(* The client sends a request.                                             *)
LEMMA SendService ==
  ASSUME NEW c \in ChannelType, NEW idle \in BOOLEAN, InService(c, idle),
         c.sent + 1 <= Len(c.script), c.script[c.sent + 1].alone => c.answered = c.sent
  PROVE  LET d == [c EXCEPT !.sent = c.sent + 1, !.wire = Append(@, c.sent + 1)]
         IN  d \in ChannelType /\ InService(d, idle)
<1>1. PICK n \in Nat : n = c.sent + 1
  BY Fields
<1>2. PICK v \in Seq(Nat) : v = Append(c.wire, n)
  BY Fields, Queues, Zenon
<1> DEFINE d == [c EXCEPT !.sent = n, !.wire = v]
<1>3. /\ d \in ChannelType /\ d.sent = n /\ d.wire = v
      /\ d.script = c.script /\ d.taken = c.taken /\ d.answered = c.answered
      /\ d.iqueue = c.iqueue /\ d.oqueue = c.oqueue /\ d.keep_alive = c.keep_alive
      /\ d.pqueue = c.pqueue /\ d.backend = c.backend
  BY DEF ChannelType
<1>4. d = [c EXCEPT !.sent = c.sent + 1, !.wire = Append(@, c.sent + 1)]
  BY <1>1, <1>2
<1> HIDE DEF d
<1>5. Numbered(d.sent, d.taken, d.iqueue, d.wire)
  <2>1. Numbered(c.sent, c.taken, c.iqueue, c.wire)
    BY DEF InService
  <2>2. c.sent \in Nat /\ c.taken \in Nat /\ c.iqueue \in Seq(Nat) /\ c.wire \in Seq(Nat)
    BY Fields
  <2>3. Numbered(c.sent + 1, c.taken, c.iqueue, Append(c.wire, c.sent + 1))
    BY <2>1, <2>2, SendNumbered
  <2> QED
    BY <1>1, <1>2, <1>3, <2>3
<1>6. AloneWaited(d.script, d.sent, d.answered)
  <2>1. ASSUME NEW i \in 1 .. n, c.script[i].alone PROVE i <= c.answered + 1
    <3>1. CASE i = n
      BY <2>1, <3>1, <1>1, Fields
    <3>2. CASE i \in 1 .. c.sent
      BY <2>1, <3>2 DEF InService, AloneWaited
    <3> QED
      BY <3>1, <3>2, <1>1, Fields
  <2> QED
    BY <1>1, <1>3, <2>1 DEF AloneWaited
<1>7. KeptAlive(d) /\ InOrder(d.oqueue, d.answered, d.taken, d.script)
  BY <1>3 DEF InService, KeptAlive
<1>8. Free(d, idle) \/ Busy(d, idle) \/ Proxied(d, idle)
  BY <1>3 DEF InService, Free, Busy, Proxied
<1> QED
  BY <1>3, <1>4, <1>5, <1>6, <1>7, <1>8 DEF InService

(* recv.                                                                   *)
LEMMA ReceivedService ==
  ASSUME NEW c \in ChannelType, NEW idle \in BOOLEAN, InService(c, idle)
  PROVE  /\ Received(c) \in ChannelType /\ InService(Received(c), idle)
         /\ Received(c).script = c.script /\ Received(c).stage = c.stage
<1>1. PICK r \in Seq(Nat) : r = c.iqueue \o c.wire
  BY Fields, Queues, Zenon
<1>0. PICK e \in Seq(Nat) : e = <<>>
  BY Fields, Queues, Zenon
<1> DEFINE d == [c EXCEPT !.iqueue = r, !.wire = e, !.input = TRUE]
<1>2. /\ d \in ChannelType /\ d.sent = c.sent /\ d.wire = <<>> /\ d.stage = c.stage
      /\ d.script = c.script /\ d.taken = c.taken /\ d.answered = c.answered
      /\ d.iqueue = r /\ d.oqueue = c.oqueue /\ d.keep_alive = c.keep_alive
      /\ d.pqueue = c.pqueue /\ d.backend = c.backend
  BY <1>0 DEF ChannelType
<1>3. d = Received(c)
  BY <1>0, <1>1 DEF Received
<1> HIDE DEF d
<1>4. Numbered(d.sent, d.taken, d.iqueue, d.wire)
  BY <1>1, <1>2, ReceiveNumbered, Fields DEF InService
<1>5. /\ AloneWaited(d.script, d.sent, d.answered) /\ KeptAlive(d)
      /\ InOrder(d.oqueue, d.answered, d.taken, d.script)
  BY <1>2 DEF InService, KeptAlive
<1>6. Free(d, idle) \/ Busy(d, idle) \/ Proxied(d, idle)
  BY <1>2 DEF InService, Free, Busy, Proxied
<1> QED
  BY <1>2, <1>3, <1>4, <1>5, <1>6 DEF InService

(* What the numbers and the order are after a request was taken.           *)
LEMMA TakenNumbers ==
  ASSUME NEW c \in ChannelType, OrderlyScript(c.script), InService(c, TRUE), c.iqueue # <<>>
  PROVE  LET d == Taken(c)
         IN  /\ d \in ChannelType /\ Numbered(d.sent, d.taken, d.iqueue, d.wire)
             /\ AloneWaited(d.script, d.sent, d.answered)
             /\ InOrder(d.oqueue, d.answered, d.taken, d.script)
             /\ d.taken = c.taken + 1 /\ Reached(d.oqueue, d.answered) = d.taken
             /\ d.pqueue = <<>> /\ d.backend = <<>> /\ d.script = c.script
             /\ d.oqueue = c.oqueue /\ d.answered = c.answered /\ d.sent = c.sent
             /\ d.keep_alive = ~c.script[d.taken].close /\ d.taken \in 1 .. d.sent
             /\ d.stage = c.stage
<1>1. /\ Head(c.iqueue) = c.taken + 1 /\ c.taken + 1 \in 1 .. c.sent
      /\ c.taken + 1 \in 1 .. Len(c.script) /\ Free(c, TRUE)
  BY NextIsFree
<1>2. PICK m \in Nat : m = c.taken + 1
  BY Fields
<1>3. PICK k \in BOOLEAN : k = ~c.script[m].close
  OBVIOUS
<1>4. PICK r \in Seq(Nat) : r = Tail(c.iqueue)
  BY Fields, TakeNumbered DEF InService
<1> DEFINE d == [c EXCEPT !.iqueue = r, !.taken = m, !.keep_alive = k]
<1>5. /\ d \in ChannelType /\ d.sent = c.sent /\ d.wire = c.wire /\ d.stage = c.stage
      /\ d.script = c.script /\ d.taken = m /\ d.answered = c.answered
      /\ d.iqueue = r /\ d.oqueue = c.oqueue
      /\ d.pqueue = c.pqueue /\ d.backend = c.backend /\ d.keep_alive = k
  BY DEF ChannelType
<1>6. d = Taken(c)
  BY <1>1, <1>2, <1>3, <1>4 DEF Taken
<1> HIDE DEF d
<1>7. Numbered(d.sent, d.taken, d.iqueue, d.wire)
  BY <1>2, <1>4, <1>5, TakeNumbered, Fields DEF InService
<1>8. AloneWaited(d.script, d.sent, d.answered)
  BY <1>5 DEF InService
<1>9. InOrder(d.oqueue, d.answered, d.taken, d.script)
  BY <1>2, <1>5, OrderLater, Fields DEF InService
<1>10. Reached(d.oqueue, d.answered) = d.taken /\ d.pqueue = <<>> /\ d.backend = <<>>
  BY <1>1, <1>2, <1>5 DEF Free
<1> QED
  BY <1>1, <1>2, <1>3, <1>5, <1>6, <1>7, <1>8, <1>9, <1>10

(* The next piece is one of a response to the request that is served.      *)
LEMMA PieceOrder ==
  ASSUME NEW c \in ChannelType, InOrder(c.oqueue, c.answered, c.taken, c.script),
         Reached(c.oqueue, c.answered) = c.taken, NEW last \in BOOLEAN,
         ~last => c.script[c.taken].kind = "proxy"
  PROVE  LET q == Append(c.oqueue, [of |-> c.taken, last |-> last])
         IN  /\ q \in Seq(Pieces) /\ InOrder(q, c.answered, c.taken, c.script)
             /\ Reached(q, c.answered) = IF last THEN c.taken + 1 ELSE c.taken
<1>1. PICK t \in Nat : t = c.taken
  BY Fields
<1>2. PICK p \in Pieces : p = [of |-> t, last |-> last]
  BY DEF Pieces
<1>3. /\ p.of = t /\ p.last = last /\ t <= t
  BY <1>2
<1>4. LET q == Append(c.oqueue, p)
      IN  /\ InOrder(q, c.answered, t, c.script) /\ q \in Seq(Pieces)
          /\ Reached(q, c.answered) = AfterPiece(p)
  BY <1>1, <1>3, AppendOrder, Fields
<1>5. AfterPiece(p) = IF last THEN t + 1 ELSE t
  BY <1>3 DEF AfterPiece
<1> QED
  BY <1>1, <1>2, <1>4, <1>5

(* A command responds.                                                     *)
LEMMA RespondService ==
  ASSUME NEW c \in ChannelType, InService(c, FALSE)
  PROVE  LET d == Responded(c)
         IN  /\ d \in ChannelType /\ InService(d, TRUE)
             /\ d.script = c.script /\ d.stage = c.stage
<1>1. Busy(c, FALSE)
  BY DEF InService, Free, Proxied
<1>2. PICK q \in Seq(Pieces) :
        /\ q = Append(c.oqueue, [of |-> c.taken, last |-> TRUE])
        /\ InOrder(q, c.answered, c.taken, c.script) /\ Reached(q, c.answered) = c.taken + 1
  BY <1>1, PieceOrder DEF InService, Busy
<1> DEFINE d == [c EXCEPT !.oqueue = q, !.output = TRUE]
<1>3. /\ d \in ChannelType /\ d.sent = c.sent /\ d.wire = c.wire /\ d.stage = c.stage
      /\ d.script = c.script /\ d.taken = c.taken /\ d.answered = c.answered
      /\ d.iqueue = c.iqueue /\ d.oqueue = q
      /\ d.pqueue = c.pqueue /\ d.backend = c.backend /\ d.keep_alive = c.keep_alive
  BY DEF ChannelType
<1>4. d = Responded(c)
  BY <1>2 DEF Responded
<1> HIDE DEF d
<1>5. /\ Numbered(d.sent, d.taken, d.iqueue, d.wire) /\ AloneWaited(d.script, d.sent, d.answered)
      /\ InOrder(d.oqueue, d.answered, d.taken, d.script) /\ KeptAlive(d)
  BY <1>2, <1>3 DEF InService, KeptAlive
<1>6. Free(d, TRUE)
  BY <1>1, <1>2, <1>3 DEF Busy, Free
<1> QED
  BY <1>3, <1>4, <1>5, <1>6 DEF InService

(* A bad request is answered at once.                                      *)
LEMMA BadService ==
  ASSUME NEW c \in ChannelType, OrderlyScript(c.script), InService(c, TRUE), c.iqueue # <<>>,
         c.script[Head(c.iqueue)].kind = "bad"
  PROVE  LET d == [Responded(Taken(c)) EXCEPT !.keep_alive = FALSE, !.input = FALSE]
         IN  /\ d \in ChannelType /\ InService(d, TRUE)
             /\ d.script = c.script /\ d.stage = c.stage
<1>1. PICK e \in ChannelType :
        /\ e = Taken(c) /\ Numbered(e.sent, e.taken, e.iqueue, e.wire)
        /\ AloneWaited(e.script, e.sent, e.answered)
        /\ InOrder(e.oqueue, e.answered, e.taken, e.script)
        /\ e.taken = c.taken + 1 /\ Reached(e.oqueue, e.answered) = e.taken
        /\ e.pqueue = <<>> /\ e.backend = <<>> /\ e.script = c.script /\ e.stage = c.stage
  BY TakenNumbers
<1>2. PICK q \in Seq(Pieces) :
        /\ q = Append(e.oqueue, [of |-> e.taken, last |-> TRUE])
        /\ InOrder(q, e.answered, e.taken, e.script) /\ Reached(q, e.answered) = e.taken + 1
  BY <1>1, PieceOrder
<1> DEFINE d == [e EXCEPT !.oqueue = q, !.output = TRUE, !.keep_alive = FALSE, !.input = FALSE]
<1>3. /\ d \in ChannelType /\ d.sent = e.sent /\ d.wire = e.wire /\ d.stage = e.stage
      /\ d.script = e.script /\ d.taken = e.taken /\ d.answered = e.answered
      /\ d.iqueue = e.iqueue /\ d.oqueue = q
      /\ d.pqueue = e.pqueue /\ d.backend = e.backend /\ d.keep_alive = FALSE
  BY DEF ChannelType
<1>4. d = [Responded(Taken(c)) EXCEPT !.keep_alive = FALSE, !.input = FALSE]
  BY <1>1, <1>2 DEF Responded
<1> HIDE DEF d
<1>5. Head(c.iqueue) = c.taken + 1
  BY NextIsFree
<1>6. /\ Numbered(d.sent, d.taken, d.iqueue, d.wire) /\ AloneWaited(d.script, d.sent, d.answered)
      /\ InOrder(d.oqueue, d.answered, d.taken, d.script)
  BY <1>1, <1>2, <1>3
<1>7. KeptAlive(d)
  BY <1>1, <1>3, <1>5 DEF KeptAlive
<1>8. Free(d, TRUE)
  BY <1>1, <1>2, <1>3 DEF Free
<1> QED
  BY <1>1, <1>3, <1>4, <1>6, <1>7, <1>8 DEF InService

(* A command starts, or a request goes to the web server, or fails to.     *)
LEMMA TakenService ==
  ASSUME NEW c \in ChannelType, OrderlyScript(c.script), InService(c, TRUE), c.iqueue # <<>>,
         NEW kind, kind \in {"command", "proxy"}, c.script[Head(c.iqueue)].kind = kind
  PROVE  LET d == Taken(c)
             e == [d EXCEPT !.proxy = "open", !.pqueue = Append(@, d.taken)]
         IN  /\ d \in ChannelType /\ d.script = c.script /\ d.stage = c.stage
             /\ kind = "command" => InService(d, FALSE)
             /\ kind = "proxy" => InService(d, TRUE)
             /\ kind = "proxy" => e \in ChannelType /\ InService(e, TRUE)
             /\ e.script = c.script /\ e.stage = c.stage
<1>1. PICK d \in ChannelType :
        /\ d = Taken(c) /\ Numbered(d.sent, d.taken, d.iqueue, d.wire)
        /\ AloneWaited(d.script, d.sent, d.answered)
        /\ InOrder(d.oqueue, d.answered, d.taken, d.script)
        /\ d.taken = c.taken + 1 /\ Reached(d.oqueue, d.answered) = d.taken
        /\ d.pqueue = <<>> /\ d.backend = <<>> /\ d.script = c.script /\ d.stage = c.stage
        /\ d.keep_alive = ~c.script[d.taken].close
  BY TakenNumbers
<1>2. Head(c.iqueue) = c.taken + 1 /\ c.taken \in Nat
  BY NextIsFree, Fields
<1>3. d.taken > 0 /\ d.script[d.taken].kind = kind /\ KeptAlive(d)
  BY <1>1, <1>2 DEF KeptAlive
<1>4. kind = "command" => InService(d, FALSE)
  BY <1>1, <1>3 DEF InService, Busy
<1>5. kind = "proxy" => InService(d, TRUE)
  BY <1>1, <1>3 DEF InService, Proxied
<1>6. PICK r \in Seq(Nat) : r = Append(d.pqueue, d.taken) /\ r = <<d.taken>>
  BY <1>1, Fields, Single, Zenon
<1> DEFINE e == [d EXCEPT !.proxy = "open", !.pqueue = r]
<1>7. /\ e \in ChannelType /\ e.sent = d.sent /\ e.wire = d.wire /\ e.stage = d.stage
      /\ e.script = d.script /\ e.taken = d.taken /\ e.answered = d.answered
      /\ e.iqueue = d.iqueue /\ e.oqueue = d.oqueue
      /\ e.pqueue = r /\ e.backend = d.backend /\ e.keep_alive = d.keep_alive
  BY DEF ChannelType
<1>8. e = [d EXCEPT !.proxy = "open", !.pqueue = Append(@, d.taken)]
  BY <1>6
<1> HIDE DEF e
<1>9. kind = "proxy" => InService(e, TRUE)
  <2>1. KeptAlive(e)
    BY <1>3, <1>7 DEF KeptAlive
  <2>2. kind = "proxy" => Proxied(e, TRUE)
    BY <1>1, <1>3, <1>6, <1>7 DEF Proxied
  <2> QED
    BY <1>1, <1>7, <2>1, <2>2 DEF InService
<1> QED
  BY <1>1, <1>4, <1>5, <1>7, <1>8, <1>9

(* A piece is written.                                                     *)
LEMMA WrittenService ==
  ASSUME NEW c \in ChannelType, NEW idle \in BOOLEAN, InService(c, idle), c.oqueue # <<>>
  PROVE  LET d == Written(c)
         IN  /\ d \in ChannelType /\ InService(d, idle)
             /\ d.script = c.script /\ d.stage = c.stage
<1>1. Head(c.oqueue) \in Pieces
  BY Fields
<1>2. PICK b \in Nat : b = IF Head(c.oqueue).last THEN c.answered + 1 ELSE c.answered
  BY Fields
<1>3. PICK q \in Seq(Pieces) :
        /\ q = Tail(c.oqueue) /\ InOrder(q, b, c.taken, c.script)
        /\ Reached(q, b) = Reached(c.oqueue, c.answered)
  BY <1>2, TailOrder, Fields DEF InService
<1>4. PICK o \in BOOLEAN : o = ~Flushed(c)
  OBVIOUS
<1> DEFINE d == [c EXCEPT !.oqueue = q, !.output = o, !.answered = b]
<1>5. /\ d \in ChannelType /\ d.sent = c.sent /\ d.wire = c.wire /\ d.stage = c.stage
      /\ d.script = c.script /\ d.taken = c.taken /\ d.answered = b
      /\ d.iqueue = c.iqueue /\ d.oqueue = q
      /\ d.pqueue = c.pqueue /\ d.backend = c.backend /\ d.keep_alive = c.keep_alive
  BY DEF ChannelType
<1>6. d = Written(c)
  BY <1>2, <1>3, <1>4 DEF Written
<1> HIDE DEF d
<1>7. AloneWaited(d.script, d.sent, d.answered)
  <2>1. PICK a \in Nat : a = c.answered /\ a <= b
    BY <1>2, Fields
  <2>2. PICK n \in Nat : n = c.sent
    BY Fields
  <2>3. \A i \in 1 .. n : c.script[i].alone => i <= a + 1
    BY <2>1, <2>2 DEF InService, AloneWaited
  <2>4. \A i \in 1 .. n : c.script[i].alone => i <= b + 1
    BY <2>1, <2>3
  <2> QED
    BY <1>5, <2>2, <2>4 DEF InService, AloneWaited
<1>8. /\ Numbered(d.sent, d.taken, d.iqueue, d.wire) /\ KeptAlive(d)
      /\ InOrder(d.oqueue, d.answered, d.taken, d.script)
  BY <1>3, <1>5 DEF InService, KeptAlive
<1>9. Free(d, idle) \/ Busy(d, idle) \/ Proxied(d, idle)
  BY <1>3, <1>5 DEF InService, Free, Busy, Proxied
<1> QED
  BY <1>5, <1>6, <1>7, <1>8, <1>9 DEF InService

(* A channel that closes after the last piece has answered all it took: it *)
(* does so for a request that asked to close, or was bad, and that waited  *)
(* for all before it.                                                      *)
LEMMA ClosingAnswered ==
  ASSUME NEW c \in ChannelType, NEW idle \in BOOLEAN, InService(c, idle), OrderlyScript(c.script),
         c.oqueue # <<>>, Flushed(c), ~c.keep_alive
  PROVE  Written(c).answered = c.taken
<1>1. PICK p \in Pieces : p = Head(c.oqueue) /\ p = c.oqueue[1] /\ p = c.oqueue[Len(c.oqueue)]
  BY Fields DEF Flushed
<1>2. 1 \in 1 .. Len(c.oqueue)
  BY DEF Flushed
<1>3. PICK a \in Nat, t \in Nat : a = c.answered /\ t = c.taken
  BY Fields
<1>4. p.of = a + 1 /\ p.of <= t /\ (~p.last => c.script[p.of].kind = "proxy") /\ p.last \in BOOLEAN
  BY <1>1, <1>2, <1>3 DEF InService, InOrder, Pieces
<1>5. Reached(c.oqueue, c.answered) = IF p.last THEN a + 2 ELSE a + 1
  <2>1. Reached(c.oqueue, c.answered) = AfterPiece(p)
    BY <1>1 DEF Reached
  <2> QED
    BY <1>3, <1>4, <2>1 DEF AfterPiece
<1>6. c.script[t].kind = "bad" \/ c.script[t].close
  <2>1. t > 0
    BY <1>3, <1>4
  <2>2. c.keep_alive = (c.script[t].kind # "bad" /\ ~c.script[t].close)
    BY <2>1, <1>3, Zenon DEF InService, KeptAlive
  <2> QED
    BY <2>2, Zenon
<1>7. t \in 1 .. c.sent /\ t \in 1 .. Len(c.script)
  <2>1. t <= c.sent /\ c.sent \in Nat
    BY <1>3, AllTaken, Fields DEF InService
  <2>2. c.sent <= Len(c.script) /\ Len(c.script) \in Nat
    BY Fields DEF InService, AloneWaited
  <2> QED
    BY <1>3, <1>4, <2>1, <2>2
<1>8. c.script[t].close => c.script[t].kind # "proxy" /\ c.script[t].alone
  BY <1>7 DEF OrderlyScript
<1>9. c.script[t].close => t <= a + 1
  BY <1>3, <1>7, <1>8 DEF InService, AloneWaited
<1>10. Reached(c.oqueue, c.answered) = t + 1 \/ Reached(c.oqueue, c.answered) = t
  BY <1>3 DEF InService, Free, Busy, Proxied
<1>11. Reached(c.oqueue, c.answered) = t => c.script[t].kind \in {"command", "proxy"}
  BY <1>3 DEF InService, Free, Busy, Proxied
<1>12. Written(c).answered = IF p.last THEN a + 1 ELSE a
  BY <1>1, <1>3 DEF Written, ChannelType
<1>13. CASE p.last
  BY <1>3, <1>4, <1>5, <1>6, <1>9, <1>10, <1>11, <1>12, <1>13
<1>14. CASE ~p.last
  <2>1. t = a + 1 
    BY <1>4, <1>5, <1>10, <1>14
  <2> QED
    BY <1>4, <1>6, <1>8, <2>1, <1>14
<1> QED
  BY <1>13, <1>14, <1>4

(* The request goes to the web server.                                     *)
LEMMA ProxyOutputService ==
  ASSUME NEW c \in ChannelType, NEW idle \in BOOLEAN, InService(c, idle), c.pqueue # <<>>
  PROVE  LET d == [c EXCEPT !.pqueue = Tail(@),
                            !.backend = Append(@, [of |-> Head(c.pqueue), half |-> FALSE])]
         IN  /\ d \in ChannelType /\ InService(d, idle)
             /\ d.script = c.script /\ d.stage = c.stage
<1>1. PICK t \in Nat : t = c.taken
  BY Fields
<1>2. Proxied(c, idle) /\ c.pqueue = <<t>> /\ c.backend = <<>>
  BY <1>1 DEF InService, Free, Busy, Proxied
<1>3. PICK x \in [of : Nat, half : BOOLEAN] : x = [of |-> t, half |-> FALSE]
  OBVIOUS
<1>4. PICK b \in Seq([of : Nat, half : BOOLEAN]) : b = <<x>> /\ b = Append(<<>>, x)
  BY Single, Zenon
<1>0. PICK r \in Seq(Nat) : r = <<>> /\ r = Tail(<<t>>) /\ t = Head(<<t>>)
  BY Single, Zenon
<1> DEFINE d == [c EXCEPT !.pqueue = r, !.backend = b]
<1>5. /\ d \in ChannelType /\ d.sent = c.sent /\ d.wire = c.wire /\ d.stage = c.stage
      /\ d.script = c.script /\ d.taken = c.taken /\ d.answered = c.answered
      /\ d.iqueue = c.iqueue /\ d.oqueue = c.oqueue
      /\ d.pqueue = r /\ d.backend = b /\ d.keep_alive = c.keep_alive
  BY DEF ChannelType
<1>6. d = [c EXCEPT !.pqueue = Tail(@),
                    !.backend = Append(@, [of |-> Head(c.pqueue), half |-> FALSE])]
  BY <1>0, <1>2, <1>3, <1>4
<1> HIDE DEF d
<1>7. /\ Numbered(d.sent, d.taken, d.iqueue, d.wire) /\ AloneWaited(d.script, d.sent, d.answered)
      /\ InOrder(d.oqueue, d.answered, d.taken, d.script) /\ KeptAlive(d)
  BY <1>5 DEF InService, KeptAlive
<1>8. Proxied(d, idle)
  BY <1>0, <1>1, <1>2, <1>3, <1>4, <1>5 DEF Proxied
<1> QED
  BY <1>5, <1>6, <1>7, <1>8 DEF InService

(* Setting one field of a pair.                                            *)
LEMMA HalfSet ==
  ASSUME NEW t \in Nat, NEW x \in [of : Nat, half : BOOLEAN], NEW v, x.of = t
  PROVE  [x EXCEPT !.half = v] = [of |-> t, half |-> v]
  OBVIOUS

(* A piece of the response comes from the web server.                      *)
LEMMA ProxyInputService ==
  ASSUME NEW c \in ChannelType, NEW idle \in BOOLEAN, InService(c, idle), c.backend # <<>>,
         NEW last \in BOOLEAN
  PROVE  LET b == Head(c.backend)
             d == [c EXCEPT !.oqueue = Append(@, [of |-> b.of, last |-> last]), !.output = TRUE,
                            !.backend = IF last THEN Tail(@)
                                        ELSE <<[b EXCEPT !.half = TRUE]>> \o Tail(@)]
         IN  /\ d \in ChannelType /\ InService(d, idle)
             /\ d.script = c.script /\ d.stage = c.stage
<1>1. PICK t \in Nat : t = c.taken
  BY Fields
<1>2. PICK half \in BOOLEAN :
        Proxied(c, idle) /\ c.pqueue = <<>> /\ c.backend = <<[of |-> t, half |-> half]>>
  BY <1>1 DEF InService, Free, Busy, Proxied
<1>3. PICK x \in [of : Nat, half : BOOLEAN] : x = [of |-> t, half |-> half]
  OBVIOUS
<1>0. x.of = t /\ [x EXCEPT !.half = TRUE] = [of |-> t, half |-> TRUE]
  <2>1. x.of = t
    BY <1>3
  <2> QED
    BY <2>1, HalfSet, Zenon
<1>4. PICK y \in [of : Nat, half : BOOLEAN] : y = [of |-> t, half |-> TRUE]
  OBVIOUS
<1>5. Head(<<x>>) = x /\ Tail(<<x>>) = <<>> /\ <<y>> \o <<>> = <<y>>
  BY Single
<1>6. PICK b \in Seq([of : Nat, half : BOOLEAN]) : b = IF last THEN <<>> ELSE <<y>>
  BY Single, Zenon
<1>7. PICK q \in Seq(Pieces) :
        /\ q = Append(c.oqueue, [of |-> t, last |-> last])
        /\ InOrder(q, c.answered, c.taken, c.script)
        /\ Reached(q, c.answered) = IF last THEN c.taken + 1 ELSE c.taken
  BY <1>1, <1>2, PieceOrder DEF InService, Proxied
<1> DEFINE d == [c EXCEPT !.oqueue = q, !.output = TRUE, !.backend = b]
<1>8. /\ d \in ChannelType /\ d.sent = c.sent /\ d.wire = c.wire /\ d.stage = c.stage
      /\ d.script = c.script /\ d.taken = c.taken /\ d.answered = c.answered
      /\ d.iqueue = c.iqueue /\ d.oqueue = q
      /\ d.pqueue = c.pqueue /\ d.backend = b /\ d.keep_alive = c.keep_alive
  BY DEF ChannelType
<1>9. d = [c EXCEPT !.oqueue = Append(@, [of |-> Head(c.backend).of, last |-> last]),
                    !.output = TRUE,
                    !.backend = IF last THEN Tail(@)
                                ELSE <<[Head(c.backend) EXCEPT !.half = TRUE]>> \o Tail(@)]
  <2>1. Head(c.backend) = x /\ Tail(c.backend) = <<>>
    BY <1>2, <1>3, <1>5
  <2>2. b = IF last THEN Tail(c.backend)
            ELSE <<[Head(c.backend) EXCEPT !.half = TRUE]>> \o Tail(c.backend)
    BY <2>1, <1>0, <1>4, <1>5, <1>6
  <2>3. q = Append(c.oqueue, [of |-> Head(c.backend).of, last |-> last])
    BY <2>1, <1>0, <1>7
  <2> QED
    BY <2>2, <2>3
<1> HIDE DEF d
<1>10. /\ Numbered(d.sent, d.taken, d.iqueue, d.wire) /\ AloneWaited(d.script, d.sent, d.answered)
       /\ InOrder(d.oqueue, d.answered, d.taken, d.script) /\ KeptAlive(d)
  BY <1>7, <1>8 DEF InService, KeptAlive
<1>11. CASE last
  <2>1. Free(d, idle)
    BY <1>2, <1>6, <1>7, <1>8, <1>11 DEF Proxied, Free
  <2> QED
    BY <1>8, <1>9, <1>10, <2>1 DEF InService
<1>12. CASE ~last
  <2>1. Proxied(d, idle)
    BY <1>1, <1>2, <1>4, <1>6, <1>7, <1>8, <1>12 DEF Proxied
  <2> QED
    BY <1>8, <1>9, <1>10, <2>1 DEF InService
<1> QED
  BY <1>11, <1>12

(* The web server closes; its response may never come.                     *)
LEMMA ProxyClosedService ==
  ASSUME NEW c \in ChannelType, NEW idle \in BOOLEAN, InService(c, idle)
  PROVE  LET d == [c EXCEPT !.proxy = "closed", !.backend = <<>>]
         IN  /\ d \in ChannelType /\ InService(d, idle)
             /\ d.script = c.script /\ d.stage = c.stage
<1>1. PICK b \in Seq([of : Nat, half : BOOLEAN]) : b = <<>>
  BY Single, [of |-> 0, half |-> TRUE] \in [of : Nat, half : BOOLEAN], Zenon
<1> DEFINE d == [c EXCEPT !.proxy = "closed", !.backend = b]
<1>2. /\ d \in ChannelType /\ d.sent = c.sent /\ d.wire = c.wire /\ d.stage = c.stage
      /\ d.script = c.script /\ d.taken = c.taken /\ d.answered = c.answered
      /\ d.iqueue = c.iqueue /\ d.oqueue = c.oqueue
      /\ d.pqueue = c.pqueue /\ d.backend = b /\ d.keep_alive = c.keep_alive
  BY DEF ChannelType
<1>3. d = [c EXCEPT !.proxy = "closed", !.backend = <<>>]
  BY <1>1
<1> HIDE DEF d
<1>4. /\ Numbered(d.sent, d.taken, d.iqueue, d.wire) /\ AloneWaited(d.script, d.sent, d.answered)
      /\ InOrder(d.oqueue, d.answered, d.taken, d.script) /\ KeptAlive(d)
  BY <1>2 DEF InService, KeptAlive
<1>5. Free(d, idle) \/ Busy(d, idle) \/ Proxied(d, idle)
  BY <1>1, <1>2 DEF InService, Free, Busy, Proxied
<1> QED
  BY <1>2, <1>3, <1>4, <1>5 DEF InService

(* The loop of EVENT_INPUT ends.                                           *)
LEMMA InputEndsService ==
  ASSUME NEW c \in ChannelType, NEW idle \in BOOLEAN
  PROVE  LET d == [c EXCEPT !.input = FALSE]
         IN  /\ d \in ChannelType /\ d.script = c.script /\ d.stage = c.stage
             /\ InService(c, idle) => InService(d, idle)
<1> DEFINE d == [c EXCEPT !.input = FALSE]
<1>1. /\ d \in ChannelType /\ d.sent = c.sent /\ d.wire = c.wire /\ d.stage = c.stage
      /\ d.script = c.script /\ d.taken = c.taken /\ d.answered = c.answered
      /\ d.iqueue = c.iqueue /\ d.oqueue = c.oqueue
      /\ d.pqueue = c.pqueue /\ d.backend = c.backend /\ d.keep_alive = c.keep_alive
  BY DEF ChannelType
<1> HIDE DEF d
<1>2. InService(c, idle) => InService(d, idle)
  BY <1>1 DEF InService, KeptAlive, Free, Busy, Proxied
<1> QED
  BY <1>1, <1>2 DEF d

-----------------------------------------------------------------------------
(* Steps of the server                                                     *)

(* A channel that stays open and keeps its script.                         *)
Stays(c, d) ==
    /\ c.stage = "open" /\ d.stage = "open" /\ d.script = c.script
    /\ {"stage", "input", "script"} \subseteq DOMAIN d

(* A step that changes one channel only.                                   *)
LEMMA OneChannel ==
  ASSUME ChannelInv, NEW h \in Chans, NEW d, chan' = [chan EXCEPT ![h] = d],
         \A g \in Chans \ {h} : (phase'[g] = "idle") = (phase[g] = "idle"),
         Good(d, phase'[h] = "idle")
  PROVE  ChannelInv'
<1>1. DOMAIN chan' = Chans /\ chan'[h] = d /\ \A g \in Chans \ {h} : chan'[g] = chan[g]
  BY DEF ChannelInv
<1>2. ASSUME NEW g \in Chans PROVE Good(chan'[g], phase'[g] = "idle")
  <2>1. CASE g = h
    BY <1>1, <2>1
  <2>2. CASE g # h
    <3>1. Good(chan[g], phase[g] = "idle")
      BY DEF ChannelInv
    <3>2. chan'[g] = chan[g] /\ (phase'[g] = "idle") = (phase[g] = "idle")
      BY <1>1, <2>2
    <3> QED
      BY <3>1, <3>2
  <2> QED
    BY <2>1, <2>2
<1> QED
  BY <1>1, <1>2 DEF ChannelInv

(* A step of a channel that stays open.                                    *)
LEMMA StaysGood ==
  ASSUME ChannelInv, NEW h \in Chans, NEW d, chan' = [chan EXCEPT ![h] = d],
         \A g \in Chans \ {h} : (phase'[g] = "idle") = (phase[g] = "idle"),
         Stays(chan[h], d),
         OrderlyScript(chan[h].script) => d \in ChannelType /\ InService(d, phase'[h] = "idle")
  PROVE  ChannelInv'
<1>1. Good(d, phase'[h] = "idle")
  BY DEF Good, Stays
<1> QED
  BY <1>1, OneChannel

(* A channel that is not open has its type.                                *)
LEMMA ClosedType == Closed \in ChannelType
<1>1. /\ <<>> \in Seq(Requests) /\ <<>> \in Seq(Nat) /\ <<>> \in Seq(Pieces)
      /\ <<>> \in Seq([of : Nat, half : BOOLEAN])
  OBVIOUS
<1> QED
  BY <1>1 DEF Closed, ChannelType

(* The start of a channel.                                                 *)
LEMMA AcceptGood == ASSUME ChannelInv, NEW h \in Chans, Accept(h) PROVE ChannelInv'
<1>1. PICK script \in Scripts[h] :
        chan' = [chan EXCEPT ![h] = [chan[h] EXCEPT !.stage = "open", !.script = script]]
  BY DEF Accept
<1>2. chan[h] = Closed /\ phase[h] = "idle" /\ phase' = phase
  BY DEF Accept, ChannelInv, Good, vars
<1>3. script \in Seq(Requests) /\ Len(script) \in Nat
  BY ScriptsAssumption
<1> DEFINE d == [chan[h] EXCEPT !.stage = "open", !.script = script]
<1>4. /\ d.stage = "open" /\ d.script = script /\ d.sent = 0 /\ d.taken = 0 /\ d.answered = 0
      /\ d.wire = <<>> /\ d.iqueue = <<>> /\ d.oqueue = <<>> /\ d.pqueue = <<>> /\ d.backend = <<>>
      /\ {"stage", "input", "script"} \subseteq DOMAIN d
  BY <1>2 DEF Closed
<1>5. d \in ChannelType
  BY <1>2, <1>3, ClosedType DEF ChannelType
<1> HIDE DEF d
<1>6. InService(d, TRUE)
  <2>1. Numbered(0, 0, <<>>, <<>>) /\ InOrder(<<>>, 0, 0, script) /\ Reached(<<>>, 0) = 1
    BY DEF Numbered, InOrder, Reached
  <2>2. AloneWaited(script, 0, 0)
    BY <1>3 DEF AloneWaited
  <2>3. KeptAlive(d) /\ Free(d, TRUE)
    BY <1>4, <2>1 DEF KeptAlive, Free
  <2> QED
    BY <1>4, <2>1, <2>2, <2>3 DEF InService
<1>7. Good(d, TRUE)
  BY <1>4, <1>5, <1>6 DEF Good
<1>8. Good(d, phase'[h] = "idle")
  BY <1>2, <1>7
<1> QED
  BY <1>1, <1>2, <1>8, OneChannel DEF d

(* The end of one.                                                         *)
LEMMA DestroyGood ==
  ASSUME ChannelInv, WatchInv, NEW h \in Chans, NEW stage \in {"lost", "done"}, NEW answered,
         Destroy(h, stage, answered),
         OrderlyScript(chan[h].script) =>
             /\ chan[h] \in ChannelType /\ answered \in Nat
             /\ stage = "done" => answered = chan[h].taken
  PROVE  ChannelInv'
<1> DEFINE d == [Closed EXCEPT !.stage = stage, !.script = chan[h].script,
                               !.taken = chan[h].taken, !.answered = answered]
<1>1. chan' = [chan EXCEPT ![h] = d]
  BY DEF Destroy
<1>2. phase'[h] = "idle" /\ \A g \in Chans \ {h} : phase'[g] = phase[g]
  BY DEF Destroy, ChannelDestroy, vars, WatchInv, TypeOK
<1>3. /\ {"stage", "input", "script"} \subseteq DOMAIN d
      /\ d.stage = stage /\ ~d.input /\ d.script = chan[h].script
      /\ d.taken = chan[h].taken /\ d.answered = answered
  BY DEF Closed
<1>4. OrderlyScript(chan[h].script) => d \in ChannelType
  <2> SUFFICES ASSUME OrderlyScript(chan[h].script) PROVE d \in ChannelType
    OBVIOUS
  <2>1. chan[h].script \in Seq(Requests) /\ chan[h].taken \in Nat /\ answered \in Nat
    BY Fields
  <2> QED
    BY <2>1, ClosedType DEF ChannelType
<1> HIDE DEF d
<1>5. Good(d, TRUE)
  BY <1>3, <1>4 DEF Good
<1>6. Good(d, phase'[h] = "idle")
  BY <1>2, <1>5
<1> QED
  BY <1>1, <1>2, <1>6, OneChannel

(* The client and recv.                                                    *)
LEMMA SendGood ==
  ASSUME ChannelInv, NEW h \in Chans, ClientSend(h) \/ Input(h) \/ InputEnds(h)
  PROVE  ChannelInv'
<1>1. PICK c : c = chan[h]
  OBVIOUS
<1>2. PICK idle \in BOOLEAN : idle = (phase[h] = "idle") /\ idle = (phase'[h] = "idle")
  BY DEF ClientSend, Input, InputEnds, vars
<1>3. Good(c, idle) /\ phase' = phase
  BY <1>1, <1>2 DEF ChannelInv, ClientSend, Input, InputEnds, vars
<1>4. CASE ClientSend(h)
  <2> DEFINE d == [c EXCEPT !.sent = c.sent + 1, !.wire = Append(@, c.sent + 1)]
  <2>1. chan' = [chan EXCEPT ![h] = d] /\ Stays(c, d)
    BY <1>1, <1>3, <1>4 DEF ClientSend, Good, Stays, Open
  <2>2. OrderlyScript(c.script) => d \in ChannelType /\ InService(d, idle)
    BY <1>1, <1>3, <1>4, SendService DEF ClientSend, Good, Open, At
  <2> HIDE DEF d
  <2> QED
    BY <1>1, <1>2, <1>3, <2>1, <2>2, StaysGood
<1>5. CASE Input(h)
  <2>1. chan' = [chan EXCEPT ![h] = Received(c)]
    BY <1>1, <1>5 DEF Input
  <2>2. Stays(c, Received(c))
    BY <1>1, <1>3, <1>5 DEF Input, Ready, Open, Received, Good, Stays
  <2>3. OrderlyScript(c.script) => Received(c) \in ChannelType /\ InService(Received(c), idle)
    BY <1>1, <1>3, <1>5, ReceivedService DEF Input, Ready, Open, Good
  <2> QED
    BY <1>1, <1>2, <1>3, <2>1, <2>2, <2>3, StaysGood
<1>6. CASE InputEnds(h)
  <2> DEFINE d == [c EXCEPT !.input = FALSE]
  <2>1. chan' = [chan EXCEPT ![h] = d] /\ Stays(c, d)
    BY <1>1, <1>3, <1>6 DEF InputEnds, Good, Stays
  <2>2. OrderlyScript(c.script) => d \in ChannelType /\ InService(d, idle)
    BY <1>1, <1>3, <1>6, InputEndsService DEF InputEnds, Good
  <2> HIDE DEF d
  <2> QED
    BY <1>1, <1>2, <1>3, <2>1, <2>2, StaysGood
<1> QED
  BY <1>4, <1>5, <1>6

(* The next request.                                                       *)
LEMMA RequestGood ==
  ASSUME ChannelInv, WatchInv, NEW h \in Chans, BadRequest(h) \/ CommandStarts(h) \/ ProxyRequest(h)
  PROVE  ChannelInv'
<1>1. PICK c : c = chan[h]
  OBVIOUS
<1>2. PICK kind \in {"bad", "command", "proxy"} :
        /\ NextRequest(h, kind)
        /\ kind = "bad" => BadRequest(h)
        /\ kind = "command" => CommandStarts(h)
        /\ kind = "proxy" => ProxyRequest(h)
  BY DEF BadRequest, CommandStarts, ProxyRequest
<1>3. phase[h] = "idle" /\ c.input /\ c.iqueue # <<>> /\ c.script[Head(c.iqueue)].kind = kind
  BY <1>1, <1>2 DEF NextRequest, ServesNone, At
<1>4. Good(c, TRUE) /\ c.stage = "open"
  BY <1>1, <1>3 DEF ChannelInv, Good
<1>5. OrderlyScript(c.script) => c \in ChannelType /\ InService(c, TRUE)
  BY <1>4 DEF Good
<1>6. Stays(c, Taken(c))
  BY <1>4 DEF Good, Stays, Taken
<1>7. CASE kind = "bad"
  <2> DEFINE d == [Responded(Taken(c)) EXCEPT !.keep_alive = FALSE, !.input = FALSE]
  <2>1. chan' = [chan EXCEPT ![h] = d] /\ phase' = phase
    BY <1>1, <1>2, <1>7 DEF BadRequest, vars
  <2>2. Stays(c, d)
    BY <1>6 DEF Stays, Responded
  <2>3. OrderlyScript(c.script) => d \in ChannelType /\ InService(d, TRUE)
    BY <1>3, <1>5, <1>7, BadService
  <2> HIDE DEF d
  <2>4. OrderlyScript(c.script) => d \in ChannelType /\ InService(d, phase'[h] = "idle")
    BY <1>3, <2>1, <2>3
  <2> QED
    BY <1>1, <2>1, <2>2, <2>4, StaysGood
<1>8. CASE kind = "command"
  <2>1. /\ chan' = [chan EXCEPT ![h] = Taken(c)] /\ phase'[h] # "idle"
        /\ \A g \in Chans \ {h} : phase'[g] = phase[g]
    BY <1>1, <1>2, <1>8 DEF CommandStarts, Request, WatchInv, TypeOK
  <2>2. OrderlyScript(c.script) => Taken(c) \in ChannelType /\ InService(Taken(c), FALSE)
    BY <1>3, <1>5, <1>8, TakenService
  <2>3. OrderlyScript(c.script) =>
          Taken(c) \in ChannelType /\ InService(Taken(c), phase'[h] = "idle")
    BY <2>1, <2>2
  <2> QED
    BY <1>1, <1>6, <2>1, <2>3, StaysGood
<1>9. CASE kind = "proxy"
  <2> DEFINE e == [Taken(c) EXCEPT !.proxy = "open", !.pqueue = Append(@, Taken(c).taken)]
  <2>1. phase' = phase /\ (chan' = [chan EXCEPT ![h] = Taken(c)] \/ chan' = [chan EXCEPT ![h] = e])
    BY <1>1, <1>2, <1>9 DEF ProxyRequest, vars
  <2>2. Stays(c, e)
    BY <1>6 DEF Stays
  <2>3. OrderlyScript(c.script) =>
          /\ Taken(c) \in ChannelType /\ InService(Taken(c), TRUE)
          /\ e \in ChannelType /\ InService(e, TRUE)
    BY <1>3, <1>5, <1>9, TakenService
  <2> HIDE DEF e
  <2>4. OrderlyScript(c.script) =>
          /\ Taken(c) \in ChannelType /\ InService(Taken(c), phase'[h] = "idle")
          /\ e \in ChannelType /\ InService(e, phase'[h] = "idle")
    BY <1>3, <2>1, <2>3
  <2> QED
    BY <1>1, <1>6, <2>1, <2>2, <2>4, StaysGood
<1> QED
  BY <1>7, <1>8, <1>9

(* Writing.                                                                *)
LEMMA OutputGood ==
  ASSUME ChannelInv, WatchInv, NEW h \in Chans, Output(h) \/ Drop(h)
  PROVE  ChannelInv'
<1>1. PICK c : c = chan[h]
  OBVIOUS
<1>2. PICK idle \in BOOLEAN : idle = (phase[h] = "idle")
  OBVIOUS
<1>3. Good(c, idle) /\ c.stage = "open"
  BY <1>1, <1>2 DEF ChannelInv, Output, Drop, Ready, Open
<1>4. OrderlyScript(c.script) => c \in ChannelType /\ InService(c, idle)
  BY <1>3 DEF Good
<1>5. CASE Drop(h)
  <2>1. OrderlyScript(c.script) => c.answered \in Nat
    BY <1>4, Fields
  <2> QED
    BY <1>1, <1>4, <1>5, <2>1, DestroyGood DEF Drop
<1>6. CASE Output(h) /\ Flushed(c) /\ (~c.keep_alive \/ c.proxy = "closed")
  <2>1. Destroy(h, IF c.keep_alive THEN "lost" ELSE "done", Written(c).answered) /\ c.oqueue # <<>>
    BY <1>1, <1>6 DEF Output
  <2>2. OrderlyScript(c.script) => Written(c).answered \in Nat
    BY <1>4, <2>1, WrittenService, Fields
  <2>3. OrderlyScript(c.script) => (~c.keep_alive => Written(c).answered = c.taken)
    BY <1>4, <1>6, <2>1, ClosingAnswered
  <2>4. CASE c.keep_alive
    BY <1>1, <1>4, <2>1, <2>2, <2>4, DestroyGood
  <2>5. CASE ~c.keep_alive
    BY <1>1, <1>4, <2>1, <2>2, <2>3, <2>5, DestroyGood
  <2> QED
    BY <2>4, <2>5
<1>7. CASE Output(h) /\ ~(Flushed(c) /\ (~c.keep_alive \/ c.proxy = "closed"))
  <2>1. /\ phase' = phase /\ c.oqueue # <<>>
        /\ \/ chan' = [chan EXCEPT ![h] = Written(c)]
           \/ chan' = [chan EXCEPT ![h] = Received(Written(c))]
    BY <1>1, <1>7 DEF Output, vars
  <2>2. Stays(c, Written(c))
    BY <1>3 DEF Good, Stays, Written
  <2>3. Stays(c, Received(Written(c)))
    BY <2>2 DEF Stays, Received
  <2>4. OrderlyScript(c.script) =>
          /\ Written(c) \in ChannelType /\ InService(Written(c), idle)
          /\ Received(Written(c)) \in ChannelType /\ InService(Received(Written(c)), idle)
    BY <1>4, <2>1, WrittenService, ReceivedService
  <2>5. OrderlyScript(c.script) =>
          /\ Written(c) \in ChannelType /\ InService(Written(c), phase'[h] = "idle")
          /\ Received(Written(c)) \in ChannelType
          /\ InService(Received(Written(c)), phase'[h] = "idle")
    BY <1>2, <2>1, <2>4
  <2> QED
    BY <1>1, <2>1, <2>2, <2>3, <2>5, StaysGood
<1> QED
  BY <1>5, <1>6, <1>7

(* The web server.                                                         *)
LEMMA ProxyGood ==
  ASSUME ChannelInv, WatchInv, NEW h \in Chans, ProxyIo(h)
  PROVE  ChannelInv'
<1>1. PICK c : c = chan[h]
  OBVIOUS
<1>2. PICK idle \in BOOLEAN : idle = (phase[h] = "idle")
  OBVIOUS
<1>3. Good(c, idle) /\ c.stage = "open"
  BY <1>1, <1>2 DEF ChannelInv, ProxyIo, ProxyOutput, ProxyInput, ProxyClosed, Ready, Open
<1>4. OrderlyScript(c.script) => c \in ChannelType /\ InService(c, idle)
  BY <1>3 DEF Good
<1>5. CASE ProxyOutput(h)
  <2> DEFINE d == [c EXCEPT !.pqueue = Tail(@),
                            !.backend = Append(@, [of |-> Head(c.pqueue), half |-> FALSE])]
  <2>1. chan' = [chan EXCEPT ![h] = d] /\ phase' = phase /\ Stays(c, d) /\ c.pqueue # <<>>
    BY <1>1, <1>3, <1>5 DEF ProxyOutput, vars, Good, Stays
  <2>2. OrderlyScript(c.script) => d \in ChannelType /\ InService(d, idle)
    BY <1>4, <2>1, ProxyOutputService
  <2> HIDE DEF d
  <2>3. OrderlyScript(c.script) => d \in ChannelType /\ InService(d, phase'[h] = "idle")
    BY <1>2, <2>1, <2>2
  <2> QED
    BY <1>1, <2>1, <2>3, StaysGood
<1>6. ASSUME NEW last \in BOOLEAN, ProxyInput(h, last) PROVE ChannelInv'
  <2> DEFINE b == Head(c.backend)
             d == [c EXCEPT !.oqueue = Append(@, [of |-> b.of, last |-> last]), !.output = TRUE,
                            !.backend = IF last THEN Tail(@)
                                        ELSE <<[b EXCEPT !.half = TRUE]>> \o Tail(@)]
  <2>1. chan' = [chan EXCEPT ![h] = d] /\ phase' = phase /\ Stays(c, d) /\ c.backend # <<>>
    BY <1>1, <1>3, <1>6 DEF ProxyInput, vars, Good, Stays
  <2>2. OrderlyScript(c.script) => d \in ChannelType /\ InService(d, idle)
    BY <1>4, <2>1, ProxyInputService
  <2> HIDE DEF d
  <2>3. OrderlyScript(c.script) => d \in ChannelType /\ InService(d, phase'[h] = "idle")
    BY <1>2, <2>1, <2>2
  <2> QED
    BY <1>1, <2>1, <2>3, StaysGood
<1>7. CASE ProxyClosed(h) /\ StaysOpen(h)
  <2> DEFINE d == [c EXCEPT !.proxy = "closed", !.backend = <<>>]
  <2>1. chan' = [chan EXCEPT ![h] = d] /\ phase' = phase /\ Stays(c, d)
    BY <1>1, <1>3, <1>7 DEF ProxyClosed, vars, Good, Stays
  <2>2. OrderlyScript(c.script) => d \in ChannelType /\ InService(d, idle)
    BY <1>4, ProxyClosedService
  <2> HIDE DEF d
  <2>3. OrderlyScript(c.script) => d \in ChannelType /\ InService(d, phase'[h] = "idle")
    BY <1>2, <2>1, <2>2
  <2> QED
    BY <1>1, <2>1, <2>3, StaysGood
<1>8. CASE ProxyClosed(h) /\ ~StaysOpen(h)
  <2>1. OrderlyScript(c.script) => c.answered \in Nat
    BY <1>4, Fields
  <2> QED
    BY <1>1, <1>4, <1>8, <2>1, DestroyGood DEF ProxyClosed
<1> QED
  BY <1>5, <1>6, <1>7, <1>8 DEF ProxyIo

(* Commands, with and without a response.                                  *)
LEMMA CommandGood ==
  ASSUME ChannelInv, WatchInv, NEW h \in Chans, Command(h)
  PROVE  ChannelInv'
<1>1. PICK c : c = chan[h]
  OBVIOUS
<1>2. phase[h] # "idle"
  BY DEF Command, CommandResponds, CommandStep, Respond, NoSession, LocateSession, Block, MayLocate,
     WatchInv, UsingRuns
<1>3. Good(c, FALSE) /\ c.stage = "open"
  BY <1>1, <1>2 DEF ChannelInv, Good
<1>4. CASE CommandResponds(h)
  <2>1. /\ chan' = [chan EXCEPT ![h] = Responded(c)] /\ phase'[h] = "idle"
        /\ \A g \in Chans \ {h} : phase'[g] = phase[g]
    BY <1>1, <1>4 DEF CommandResponds, Respond, NoSession, WatchInv, TypeOK
  <2>2. Stays(c, Responded(c))
    BY <1>3 DEF Good, Stays, Responded
  <2>3. OrderlyScript(c.script) => Responded(c) \in ChannelType /\ InService(Responded(c), TRUE)
    BY <1>3, RespondService DEF Good
  <2>4. OrderlyScript(c.script) =>
          Responded(c) \in ChannelType /\ InService(Responded(c), phase'[h] = "idle")
    BY <2>1, <2>3
  <2> QED
    BY <1>1, <2>1, <2>2, <2>4, StaysGood
<1>5. CASE CommandStep(h)
  <2>1. chan' = chan /\ \A g \in Chans : (phase'[g] = "idle") = (phase[g] = "idle")
    BY <1>2, <1>5 DEF CommandStep, LocateSession, Block, WatchInv, TypeOK
  <2> QED
    BY <2>1 DEF ChannelInv
<1> QED
  BY <1>4, <1>5 DEF Command

(* Sessions: an alert wakes a channel that waits.                          *)
LEMMA SessionGood ==
  ASSUME ChannelInv, WatchInv, NEW s \in Sessions, SessionSteps(s)
  PROVE  ChannelInv'
<1>1. chan' = chan
  BY DEF SessionSteps
<1>2. ASSUME NEW w \in Watches, Alert(s, w), NEW g \in Chans
      PROVE  (phase'[g] = "idle") = (phase[g] = "idle")
  <2>1. watch[s][w] \in Chans /\ phase[watch[s][w]] = "blocked"
    BY <1>2 DEF Alert, WatchInv, TypeOK, WatchedWaits
  <2> QED
    BY <1>2, <2>1 DEF Alert, WatchInv, TypeOK
<1>3. CASE HttpSessionCreate(s) \/ HttpSessionDestroy(s) \/ DestroyForReal(s) \/ ReleaseOwed(s)
  BY <1>1, <1>3 DEF HttpSessionCreate, HttpSessionDestroy, DestroyForReal, ReleaseOwed, ChannelInv
<1>4. CASE \E w \in Watches : Alert(s, w)
  BY <1>1, <1>2, <1>4 DEF ChannelInv
<1> QED
  BY <1>3, <1>4 DEF SessionSteps

(* Every step of the server keeps what is said of its channels.            *)
LEMMA ChannelStepGood == ChannelInv /\ WatchInv /\ [ChannelNext]_channelVars => ChannelInv'
<1> SUFFICES ASSUME ChannelInv, WatchInv, [ChannelNext]_channelVars PROVE ChannelInv'
  OBVIOUS
<1>1. ASSUME NEW h \in Chans, Accept(h) \/ ClientSend(h) \/ HttpIo(h) PROVE ChannelInv'
  BY <1>1, AcceptGood, SendGood, RequestGood, OutputGood DEF HttpIo
<1>2. ASSUME NEW h \in Chans, ProxyIo(h) \/ Command(h) PROVE ChannelInv'
  BY <1>2, ProxyGood, CommandGood
<1>3. ASSUME NEW s \in Sessions, SessionSteps(s) PROVE ChannelInv'
  BY <1>3, SessionGood
<1>4. CASE UNCHANGED channelVars
  BY <1>4 DEF channelVars, vars, ChannelInv
<1> QED
  BY <1>1, <1>2, <1>3, <1>4 DEF ChannelNext

(* The invariant holds for any scripts.                                    *)
THEOREM ChannelsSafe == ChannelSpec => []ChannelInv
<1>1. ChannelInit => ChannelInv
  <2> SUFFICES ASSUME ChannelInit, NEW h \in Chans PROVE Good(chan[h], phase[h] = "idle")
    BY DEF ChannelInv, ChannelInit
  <2>1. chan[h] = Closed /\ phase[h] = "idle"
    BY DEF ChannelInit, Init
  <2>2. Good(Closed, TRUE)
    BY ClosedType DEF Good, Closed
  <2> QED
    BY <2>1, <2>2
<1>2. ChannelInv /\ WatchInv /\ [ChannelNext]_channelVars => ChannelInv'
  BY ChannelStepGood
<1> QED
  BY <1>1, <1>2, ImplementsSessions, WatchInvAlways, PTL DEF ChannelSpec

(* A client gets the responses in the order of its requests, one for each, *)
(* however many it sends at a time (http_io, proxy_io).                    *)
THEOREM ResponsesInOrderAlways == ChannelSpec => []ResponsesInOrder
<1>1. ChannelInv => ResponsesInOrder
  <2> SUFFICES ASSUME ChannelInv, NEW h \in Chans, Orderly(h), Open(h)
               PROVE  LET q == chan[h].oqueue
                      IN  /\ q # <<>> => q[1].of = chan[h].answered + 1
                          /\ \A i \in 1 .. Len(q) - 1 :
                                q[i + 1].of = (IF q[i].last THEN q[i].of + 1 ELSE q[i].of)
    BY DEF ResponsesInOrder
  <2>1. PICK c : c = chan[h]
    OBVIOUS
  <2>2. OrderlyScript(c.script)
    BY <2>1, Zenon DEF Orderly, OrderlyScript
  <2>3. c \in ChannelType /\ InOrder(c.oqueue, c.answered, c.taken, c.script)
    BY <2>1, <2>2 DEF ChannelInv, Good, Open, InService
  <2>4. PICK q \in Seq(Pieces) : q = c.oqueue /\ Len(q) \in Nat
    BY <2>3, Fields
  <2>5. q # <<>> => q[1].of = c.answered + 1
    BY <2>3, <2>4 DEF InOrder
  <2>6. \A i \in 1 .. Len(q) - 1 : q[i + 1].of = (IF q[i].last THEN q[i].of + 1 ELSE q[i].of)
    BY <2>3, <2>4 DEF InOrder, AfterPiece
  <2> QED
    BY <2>1, <2>4, <2>5, <2>6
<1> QED
  BY <1>1, ChannelsSafe, PTL

(* A channel closes of itself only after it answered all it took.          *)
THEOREM ClosedAnsweredAlways == ChannelSpec => []ClosedAnswered
<1>1. ChannelInv => ClosedAnswered
  <2> SUFFICES ASSUME ChannelInv, NEW h \in Chans, Orderly(h), chan[h].stage = "done"
               PROVE  chan[h].answered = chan[h].taken
    BY DEF ClosedAnswered
  <2>1. OrderlyScript(chan[h].script)
    BY Zenon DEF Orderly, OrderlyScript
  <2> QED
    BY <2>1 DEF ChannelInv, Good
<1> QED
  BY <1>1, ChannelsSafe, PTL
=============================================================================
