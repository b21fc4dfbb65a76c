--------------------------- MODULE Clients_proofs ---------------------------
(***************************************************************************)
(* Proofs about the clients of a session, their reference counts and their *)
(* connections, and about what the handlers of a session still have to do, *)
(* without threads.                                                        *)
(***************************************************************************)
EXTENDS Metasearch_proofs

-----------------------------------------------------------------------------
(* Agendas that are under way                                              *)

(* A search gives its clients up in this order, ...                        *)
Rank(x) ==
    IF x[1] \in {"reset_active", "detach"} THEN 1
    ELSE IF x[1] \in {"drop_cached", "drop"} THEN 2
    ELSE IF x[1] = "select_targets" THEN 3 ELSE 0

(* ... and nothing else comes before or between.                           *)
Phased(a) ==
    \A i \in 2 .. Len(a) :
        /\ a[i][1] \notin PhaseSetOps
        /\ Rank(a[i]) > 0 => 0 < Rank(a[i - 1]) /\ Rank(a[i - 1]) < Rank(a[i])

(* The last a handler does is to free its connection, ...                  *)
Ended(a) ==
    /\ \A i \in 1 .. Len(a) : a[i][1] \in UndoConnOps => i = Len(a)
    /\ \A i \in 1 .. Len(a) :
          a[i][1] = "unset_connection" => i + 1 = Len(a) /\ a[i + 1][1] = "free"
    /\ \A i \in 2 .. Len(a) : a[i][1] = "free" => a[i - 1][1] = "unset_connection"

(* ... which it takes from the client that has it.                         *)
Undone(a) ==
    /\ \A i \in 1 .. Len(a) - 1 :
          a[i][1] = "unset_connection" =>
              owner[a[i + 1][2]] = a[i][2] /\ conn[a[i][2]] = a[i + 1][2]
    /\ a # <<>> /\ a[1][1] = "free" => \A c \in Clients : conn[c] # a[1][2]

Tame(x) == Rank(x) = 0 /\ x[1] \notin UndoNames

LEMMA RankValues ==
    /\ \A x : Rank(x) \in 0 .. 3
    /\ \A x : Rank(x) = 0 <=> x[1] \notin PhaseNames \cup {"select_targets"}
  BY DEF Rank, PhaseNames, PhaseOps, PhaseSetOps

LEMMA PhaseMove ==
    ASSUME NEW S, NEW a \in Seq(S), a # <<>>, NEW ops \in Seq(S), Phased(a), Phased(ops),
           Len(a) > 1 /\ ops # <<>> /\ Rank(a[2]) > 0 =>
               0 < Rank(ops[Len(ops)]) /\ Rank(ops[Len(ops)]) < Rank(a[2])
    PROVE  Phased(ops \o Tail(a))
<1> DEFINE b == ops \o Tail(a)
<1>1. /\ Len(b) = Len(ops) + Len(a) - 1
      /\ \A i \in 1 .. Len(ops) : b[i] = ops[i]
      /\ \A i \in Len(ops) + 1 .. Len(ops) + Len(a) - 1 : b[i] = a[i - Len(ops) + 1]
      /\ Len(a) \in Nat \ {0} /\ Len(ops) \in Nat
  BY ThenSeq
<1>2. ops # <<>> <=> Len(ops) > 0
  OBVIOUS
<1> HIDE DEF b
<1> SUFFICES ASSUME NEW i \in 2 .. Len(b)
             PROVE  /\ b[i][1] \notin PhaseSetOps
                    /\ Rank(b[i]) > 0 => 0 < Rank(b[i - 1]) /\ Rank(b[i - 1]) < Rank(b[i])
  BY DEF Phased, b
<1>3. CASE i <= Len(ops)
  <2>1. b[i] = ops[i] /\ b[i - 1] = ops[i - 1] /\ i \in 2 .. Len(ops)
    BY <1>1, <1>3
  <2> QED  BY <2>1 DEF Phased
<1>4. CASE i = Len(ops) + 1
  <2>1. b[i] = a[2] /\ b[i - 1] = ops[Len(ops)] /\ 2 \in 2 .. Len(a) /\ ops # <<>>
    BY <1>1, <1>2, <1>4
  <2> QED  BY <1>1, <2>1 DEF Phased
<1>5. CASE i > Len(ops) + 1
  <2> DEFINE j == i - Len(ops) + 1
  <2>1. b[i] = a[j] /\ b[i - 1] = a[j - 1] /\ j \in 2 .. Len(a)
    BY <1>1, <1>5
  <2> QED  BY <2>1 DEF Phased
<1> QED  BY <1>1, <1>3, <1>4, <1>5

LEMMA EndMove ==
    ASSUME NEW S, NEW a \in Seq(S), a # <<>>, NEW ops \in Seq(S), Ended(a),
           a[1][1] \notin UndoNames, \A i \in 1 .. Len(ops) : ops[i][1] \notin UndoNames
    PROVE  /\ Ended(ops \o Tail(a))
           /\ Undone(a) => Undone(ops \o Tail(a))
<1> DEFINE b == ops \o Tail(a)
           n == Len(ops)
<1>1. /\ Len(b) = n + Len(a) - 1
      /\ \A i \in 1 .. n : b[i] = ops[i]
      /\ \A i \in n + 1 .. n + Len(a) - 1 : b[i] = a[i - n + 1]
      /\ Len(a) \in Nat \ {0} /\ n \in Nat /\ (b # <<>> <=> Len(b) > 0)
  BY ThenSeq
<1> HIDE DEF b, n
<1>2. ASSUME NEW i \in 1 .. Len(b), b[i][1] \in UndoNames
      PROVE  i > n /\ i - n + 1 \in 2 .. Len(a) /\ b[i] = a[i - n + 1]
  <2>1. ~(i \in 1 .. n)
    <3>1. \A j \in 1 .. n : b[j][1] \notin UndoNames
      BY <1>1 DEF n
    <3> QED  BY <1>2, <3>1
  <2> QED  BY <1>1, <2>1
<1>3. ASSUME NEW i \in 1 .. Len(b), b[i][1] \in UndoConnOps PROVE i = Len(b)
  <2>1. b[i][1] \in UndoNames
    BY <1>3 DEF UndoNames
  <2>2. i - n + 1 = Len(a)
    BY <1>2, <1>3, <2>1 DEF Ended
  <2> QED  BY <1>1, <2>2
<1>4. ASSUME NEW i \in 1 .. Len(b), b[i][1] = "unset_connection"
      PROVE  /\ i + 1 = Len(b) /\ b[i + 1] = a[i - n + 2] /\ b[i + 1][1] = "free"
             /\ b[i] = a[i - n + 1] /\ i - n + 1 \in 1 .. Len(a) - 1
  <2>1. i > n /\ i - n + 1 \in 2 .. Len(a) /\ b[i] = a[i - n + 1]
    BY <1>2, <1>4 DEF UndoNames
  <2>2. i - n + 2 = Len(a) /\ a[i - n + 2][1] = "free"
    <3>1. i - n + 1 \in 1 .. Len(a) /\ i - n + 1 + 1 = i - n + 2
      BY <1>1, <2>1
    <3> QED  BY <1>4, <2>1, <3>1 DEF Ended
  <2>3. i + 1 \in n + 1 .. n + Len(a) - 1 /\ i + 1 - n + 1 = i - n + 2
    BY <1>1, <2>1, <2>2
  <2>4. b[i + 1] = a[i - n + 2]
    BY <1>1, <2>3
  <2> QED  BY <1>1, <2>1, <2>2, <2>3, <2>4
<1>5. ASSUME NEW i \in 1 .. Len(b), b[i][1] = "free"
      PROVE  i > 1 /\ b[i - 1][1] = "unset_connection"
  <2>1. i > n /\ i - n + 1 \in 2 .. Len(a) /\ b[i] = a[i - n + 1]
    BY <1>2, <1>5 DEF UndoNames, UndoConnOps
  <2>2. a[i - n][1] = "unset_connection"
    <3> DEFINE j == i - n + 1
    <3>1. j \in 2 .. Len(a) /\ a[j][1] = "free" /\ j - 1 = i - n
      BY <1>1, <1>5, <2>1
    <3> HIDE DEF j
    <3>2. a[j - 1][1] = "unset_connection"
      BY <3>1 DEF Ended
    <3> QED  BY <3>1, <3>2
  <2>3. i - n # 1
    BY <2>2 DEF UndoNames
  <2>4. i - 1 \in n + 1 .. n + Len(a) - 1 /\ i - 1 - n + 1 = i - n
    BY <1>1, <2>1, <2>3
  <2> QED  BY <1>1, <2>2, <2>4
<1>6. Ended(b)
  BY <1>3, <1>4, <1>5 DEF Ended
<1>7. ASSUME Undone(a) PROVE Undone(b)
  <2>1. ASSUME NEW i \in 1 .. Len(b) - 1, b[i][1] = "unset_connection"
        PROVE  owner[b[i + 1][2]] = b[i][2] /\ conn[b[i][2]] = b[i + 1][2]
    <3>1. /\ b[i + 1] = a[i - n + 2] /\ b[i] = a[i - n + 1] /\ i - n + 1 \in 1 .. Len(a) - 1
          /\ i - n + 1 + 1 = i - n + 2
      BY <1>1, <1>4, <2>1
    <3> QED  BY <1>7, <2>1, <3>1 DEF Undone
  <2>2. b # <<>> => b[1][1] # "free"
    BY <1>1, <1>5
  <2> QED  BY <2>1, <2>2 DEF Undone
<1> QED  BY <1>6, <1>7 DEF b

-----------------------------------------------------------------------------
(* What holds between two steps                                            *)

Alone == \A t, u \in Threads : Running(t) /\ Running(u) => t = u

(* Client c is on the list that is being gone through to op.               *)
Taken(op, c) == \E t \in Threads : Does(t, op) /\ c \in Arg(t)
Freeing(k) == \E t \in Threads : Does(t, "free") /\ Arg(t) = k
One(b) == IF b THEN 1 ELSE 0

HandlerInv ==
    /\ Alone
    /\ \A t \in Threads : Phased(agenda[t]) /\ Ended(agenda[t]) /\ Undone(agenda[t])

ActiveInv ==
    /\ active \subseteq cached
    /\ \A t \in Threads :
          Running(t) /\ Head(agenda[t])[1] \in {"detach", "drop_cached", "drop", "select_targets"}
              => active = {}
    /\ \A c \in Clients : sess[c] <=> c \in active \/ Taken("detach", c)

RefInv ==
    /\ DOMAIN ref = Clients
    /\ \A c \in Clients :
          ref[c] = One(c \in cached) + One(conn[c] # None) + One(Taken("drop", c))

OwnInv ==
    /\ \A c \in Clients : conn[c] # None => conn[c] \in alive /\ owner[conn[c]] = c
    /\ \A k \in Conns : owner[k] # None => k \in alive /\ (conn[owner[k]] = k \/ Freeing(k))

ClientInv == HandlerInv /\ ActiveInv /\ RefInv /\ OwnInv

LEMMA EmptyAgenda ==
    Phased(<<>>) /\ Ended(<<>>) /\ Undone(<<>>)
  BY DEF Phased, Ended, Undone

(* No other handler is under way.                                          *)
LEMMA Sole ==
    ASSUME TypeInv, HandlerInv, NEW t \in Threads, Step(t)
    PROVE  /\ Running(t) /\ AgendaInv' /\ Alone'
           /\ agenda[t] \in Seq(Items(t)) /\ agenda[t] # <<>> /\ Head(agenda[t]) = agenda[t][1]
           /\ \A u \in Threads \ {t} : agenda[u] = <<>> /\ agenda'[u] = <<>>
           /\ \A op, c : /\ Taken(op, c) <=> Does(t, op) /\ c \in Arg(t)
                         /\ Taken(op, c)' <=> Does(t, op)' /\ c \in Arg(t)'
           /\ \A k : /\ Freeing(k) <=> Does(t, "free") /\ Arg(t) = k
                     /\ Freeing(k)' <=> Does(t, "free")' /\ Arg(t)' = k
<1>1. Shape(t, Plain(t), Starters)
  BY StepShapes
<1>2. AgendaInv' /\ \A u \in Threads \ {t} : agenda'[u] = agenda[u]
  BY <1>1, ShapeAgenda
<1>3. Running(t)
  BY <1>1 DEF Shape, Ordinary, Beginning, GoingOn, Ending, Passing, Waiting, Alerting, Responding
<1>4. \A u \in Threads \ {t} : agenda[u] = <<>> /\ agenda'[u] = <<>>
  BY <1>2, <1>3 DEF HandlerInv, Alone, Running
<1>5. Alone'
  BY <1>4 DEF Alone, Running
<1>6. agenda[t] \in Seq(Items(t)) /\ agenda[t] # <<>> /\ Head(agenda[t]) = agenda[t][1]
  BY <1>3, HeadKinds
<1>7. \A op, c : /\ Taken(op, c) <=> Does(t, op) /\ c \in Arg(t)
                 /\ Taken(op, c)' <=> Does(t, op)' /\ c \in Arg(t)'
  BY <1>4 DEF Taken, Does, Running
<1>8. \A k : /\ Freeing(k) <=> Does(t, "free") /\ Arg(t) = k
             /\ Freeing(k)' <=> Does(t, "free")' /\ Arg(t)' = k
  BY <1>4 DEF Freeing, Does, Running
<1> QED  BY <1>2, <1>3, <1>4, <1>5, <1>6, <1>7, <1>8

LEMMA Continues ==
    ASSUME TypeInv, HandlerInv, NEW t \in Threads, Step(t),
           Phased(agenda'[t]), Ended(agenda'[t]), Undone(agenda[t])'
    PROVE  HandlerInv'
<1>1. Alone' /\ \A u \in Threads \ {t} : agenda'[u] = <<>>
  BY Sole
<1>2. \A u \in Threads \ {t} : Phased(agenda'[u]) /\ Ended(agenda'[u])
  BY <1>1, EmptyAgenda
<1>3. \A u \in Threads \ {t} : Undone(agenda[u])'
  BY <1>1 DEF Undone
<1> QED  BY <1>1, <1>2, <1>3 DEF HandlerInv

-----------------------------------------------------------------------------
(* Steps that neither take clients from a search nor undo a connection     *)

LEMMA OnlySelects ==
    ASSUME NEW t \in Threads, Step(t), Does(t, "select_targets")
    PROVE  SelectTargets(t)
<1>1. ~CommandStep(t)
  BY DEF CommandStep, ApplySetting, ShowDecides, ShowWaits, TermlistDecides, TermlistWaits,
         Respond, Does
<1>2. ~ClientStep(t)
  BY DEF ClientStep, ClientLock, ClientUnlock, ReuseConnection, CreateConnection, ConnectFails,
         StartSearch, NoMoreEvents, IgnoredEvent, SendApdu, RecvError, RecvRecord, End, GotRecords,
         PreferredCheck, RecordsCheck, Expired, ConnectionDestroy, ClientDisconnect,
         UnsetConnection, FreeConnection, Does, Event
<1>3. SessionStep(t)
  BY <1>1, <1>2 DEF Step
<1> QED
  BY <1>3
  DEF SessionStep, SessionSearch, ResetActive, Detach, DropCached, Drop, SearchClients, Started,
      SessionSort, SortClients, SessionStop, StopClients, ClientStop, SessionAlertWatch, ShowRecords,
      FetchMore, FetchedMore, ShowAgain, ShowRecord, RecordWatch, Does

LEMMA TameItems ==
    ASSUME NEW t, NEW h
    PROVE  /\ \A x \in Calm(t) : Tame(x)
           /\ \A x \in For(t, h) : Tame(x)
           /\ Tame(Start)
<1>1. \A x \in Calm(t) : x[1] \in LoopNames \cup CommandNames \cup CloseNames
  BY KindNames DEF Calm
<1>2. \A x \in For(t, h) : x[1] \in AnswerNames \cup OwnNames
  BY KindNames DEF For
<1>3. "select_targets" \in StartNames
  BY DEF StartNames
<1>4. \A x : x[1] \notin PhaseNames \cup UndoNames \cup {"select_targets"} => Tame(x)
  BY RankValues DEF Tame
<1>5. Tame(Start)
  <2>1. Start[1] = "started"
    BY DEF Start
  <2> QED  BY <1>4, <2>1 DEF PhaseNames, PhaseOps, PhaseSetOps, UndoNames, UndoConnOps
<1> QED  BY <1>1, <1>2, <1>3, <1>4, <1>5, NamesApart

LEMMA TameSteps ==
    ASSUME TypeInv, NEW t \in Threads, Step(t), ~Clears(t), ~Undoes(t)
    PROVE  /\ Tame(Head(agenda[t]))
           /\ \E ops \in Seq(Items(t)) : Then(t, ops) /\ \A i \in 1 .. Len(ops) : Tame(ops[i])
<1>1. Shape(t, Calm(t), {Start})
  BY StepShapes
<1>2. /\ \A x \in Calm(t) : Tame(x) /\ x \in Items(t)
      /\ \A h \in Chans : \A x \in For(t, h) : Tame(x) /\ x \in Items(t)
      /\ Tame(Start) /\ (t \in Chans => Start \in Items(t))
  BY TameItems DEF Items, Plain, Starters
<1>3. Head(agenda[t]) \in Starters => Tame(Head(agenda[t]))
  <2>1. Running(t)
    BY <1>1 DEF Shape, Ordinary, Beginning, GoingOn, Ending, Passing, Waiting, Alerting, Responding
  <2>2. Head(agenda[t]) # <<"select_targets", None>>
    BY <2>1, OnlySelects DEF Does, Clears
  <2> QED  BY <1>2, <2>2 DEF Starters
<1>4. Tame(Head(agenda[t]))
  BY <1>1, <1>2, <1>3
  DEF Shape, Ordinary, Beginning, GoingOn, Ending, Passing, Waiting, Alerting, Responding
<1> DEFINE Result == \E ops \in Seq(Items(t)) : Then(t, ops) /\ \A i \in 1 .. Len(ops) : Tame(ops[i])
<1>5. ASSUME PlainThen(t, Calm(t)) PROVE Result
  <2>1. PICK ops \in Seq(Calm(t)) : Then(t, ops)
    BY <1>5 DEF PlainThen
  <2>2. ops \in Seq(Items(t)) /\ \A i \in 1 .. Len(ops) : ops[i] \in Calm(t)
    BY <1>2
  <2> QED  BY <1>2, <2>1, <2>2
<1>6. ASSUME NEW M, \A x \in M : Tame(x) /\ x \in Items(t), TokenThen(t, Calm(t), M) PROVE Result
  <2>1. PICK pre \in Seq(Calm(t)), x \in M : Then(t, pre \o <<x>>)
    BY <1>6 DEF TokenThen
  <2> DEFINE ops == pre \o <<x>>
  <2>2. pre \in Seq(Items(t)) /\ x \in Items(t) /\ \A i \in 1 .. Len(pre) : pre[i] \in Calm(t)
    BY <1>2, <1>6
  <2>3. ops \in Seq(Items(t)) /\ \A i \in 1 .. Len(ops) : ops[i] = x \/ ops[i] \in Calm(t)
    BY <2>2
  <2> QED  BY <1>2, <1>6, <2>1, <2>3
<1> HIDE DEF Result
<1>7. ASSUME Alerting(t, Calm(t)) PROVE Result
  <2>1. PICK w \in Watches :
          IF watch[w] = None THEN PlainThen(t, Calm(t)) ELSE TokenThen(t, Calm(t), Answers(watch[w]))
    BY <1>7 DEF Alerting
  <2>2. watch[w] # None => watch[w] \in Chans /\ \A x \in Answers(watch[w]) : Tame(x) /\ x \in Items(t)
    BY <1>2 DEF TypeInv, DataInv, For
  <2> QED  BY <1>5, <1>6, <2>1, <2>2
<1>8. ASSUME Passing(t, Calm(t)) PROVE Result
  BY <1>2, <1>6, <1>8 DEF Passing
<1>9. Result
  BY <1>1, <1>2, <1>5, <1>6, <1>7, <1>8
  DEF Shape, Ordinary, Beginning, GoingOn, Ending, Waiting, Responding
<1> QED  BY <1>4, <1>9 DEF Result

LEMMA TameMoves ==
    ASSUME TypeInv, HandlerInv, NEW t \in Threads, Step(t), ~Clears(t), ~Undoes(t)
    PROVE  /\ Phased(agenda'[t]) /\ Ended(agenda'[t])
           /\ UNCHANGED <<owner, conn>> => Undone(agenda[t])'
           /\ \A c : \A op \in PhaseSetOps : ~Taken(op, c) /\ ~Taken(op, c)'
           /\ \A k : ~Freeing(k) /\ ~Freeing(k)'
           /\ Running(t)' => Rank(Head(agenda'[t])) = 0
<1> DEFINE a == agenda[t]
<1>1. /\ a \in Seq(Items(t)) /\ a # <<>> /\ Head(a) = a[1] /\ Running(t) /\ AgendaInv
      /\ Phased(a) /\ Ended(a) /\ Undone(a)
  BY Sole DEF TypeInv, HandlerInv
<1>2. PICK ops \in Seq(Items(t)) : Then(t, ops) /\ \A i \in 1 .. Len(ops) : Tame(ops[i])
  BY TameSteps
<1>3. Tame(a[1])
  BY <1>1, TameSteps
<1> DEFINE b == ops \o Tail(a)
<1>4. agenda'[t] = b
  BY <1>1, <1>2, AgendaMoves
<1>5. Phased(ops)
  <2>1. \A i \in 2 .. Len(ops) : Tame(ops[i])
    BY <1>2
  <2> QED  BY <2>1, RankValues DEF Phased, Tame, PhaseNames
<1>6. Len(a) > 1 => Rank(a[2]) = 0 /\ a[2][1] # "free"
  <2> SUFFICES ASSUME Len(a) > 1 PROVE Rank(a[2]) = 0 /\ a[2][1] # "free"
    OBVIOUS
  <2>1. 2 \in 2 .. Len(a) /\ 2 - 1 = 1
    BY <1>1
  <2>2. Rank(a[2]) > 0 => Rank(a[1]) > 0
    BY <1>1, <2>1 DEF Phased
  <2>3. a[2][1] = "free" => a[1][1] = "unset_connection"
    BY <1>1, <2>1 DEF Ended
  <2> QED  BY <1>3, <2>2, <2>3, RankValues DEF Tame, UndoNames
<1>7. Phased(b)
  <2>1. Len(a) > 1 /\ ops # <<>> /\ Rank(a[2]) > 0 =>
               0 < Rank(ops[Len(ops)]) /\ Rank(ops[Len(ops)]) < Rank(a[2])
    BY <1>6
  <2> HIDE DEF a
  <2> QED  BY <1>1, <1>5, <2>1, PhaseMove
<1>8. Ended(b) /\ Undone(b)
  <2>1. a[1][1] \notin UndoNames /\ \A i \in 1 .. Len(ops) : ops[i][1] \notin UndoNames
    BY <1>2, <1>3 DEF Tame
  <2> HIDE DEF a
  <2> QED  BY <1>1, <2>1, EndMove
<1>9. b # <<>> => Head(b) = b[1] /\ Rank(b[1]) = 0 /\ b[1][1] # "free"
  <2> HIDE DEF a
  <2>1. CASE ops = <<>>
    <3>1. b = Tail(a)
      BY <1>1, <2>1
    <3>2. b # <<>> => Len(a) > 1 /\ Head(b) = b[1] /\ b[1] = a[2]
      BY <1>1, <3>1
    <3> QED  BY <1>6, <3>2
  <2>2. CASE ops # <<>>
    <3>1. 1 \in 1 .. Len(ops) /\ b[1] = ops[1] /\ Head(b) = b[1]
      BY <1>1, <2>2
    <3> QED  BY <1>2, <3>1 DEF Tame, UndoNames, UndoConnOps
  <2> QED  BY <2>1, <2>2
<1> HIDE DEF b
<1>10. UNCHANGED <<owner, conn>> => Undone(agenda[t])'
  BY <1>4, <1>8 DEF Undone
<1>11. \A op \in PhaseSetOps : ~Does(t, op) /\ ~Does(t, op)'
  BY <1>1, <1>3, <1>4, <1>9, RankValues DEF Does, Running, Tame, PhaseNames
<1>12. ~Does(t, "free") /\ ~Does(t, "free")'
  BY <1>1, <1>3, <1>4, <1>9 DEF Does, Running, Tame, UndoNames, UndoConnOps
<1>13. Running(t)' => Rank(Head(agenda'[t])) = 0
  BY <1>4, <1>9 DEF Running
<1> QED  BY <1>4, <1>7, <1>8, <1>10, <1>11, <1>12, <1>13, Sole

LEMMA TameData ==
    ASSUME NEW t \in Threads, Step(t), ~Clears(t), ~Undoes(t)
    PROVE  UNCHANGED <<OtherData, ref>> \/ CreateConnection(t) \/ ClientStop(t)
<1>1. ASSUME ClientStep(t) PROVE UNCHANGED <<OtherData, ref>> \/ CreateConnection(t)
  BY <1>1
  DEF Undoes, ClientStep, ClientLock, ClientUnlock, ReuseConnection, ConnectFails, StartSearch,
      NoMoreEvents, IgnoredEvent, SendApdu, RecvError, RecvRecord, End, GotRecords, PreferredCheck,
      RecordsCheck, Expired, ClientDisconnect, OtherData, sessionVars, clientVars, connVars
<1>2. ASSUME SessionStep(t) PROVE UNCHANGED <<OtherData, ref>> \/ ClientStop(t)
  BY <1>2
  DEF Clears, SessionStep, SearchClients, Started, SessionSort, SortClients, SessionStop,
      StopClients, SessionAlertWatch, ShowRecords, FetchMore, FetchedMore, ShowAgain, ShowRecord,
      RecordWatch, SessionSetWatch, OtherData, sessionVars, clientVars, connVars
<1>3. ASSUME CommandStep(t) PROVE UNCHANGED <<OtherData, ref>>
  BY <1>3
  DEF CommandStep, ApplySetting, ShowDecides, ShowWaits, TermlistDecides, TermlistWaits,
      Respond, SessionSetWatch, OtherData, sessionVars, clientVars, connVars
<1> QED  BY <1>1, <1>2, <1>3 DEF Step

(* The agendas of channels undo nothing.                                   *)
LEMMA ChanAgenda ==
    ASSUME NEW t \in Chans, NEW a \in Seq(Items(t))
    PROVE  \A i \in 1 .. Len(a) : a[i][1] \notin UndoNames
<1>1. t \notin Conns
  BY SearchStateAssumption
<1>2. \A i \in 1 .. Len(a) : a[i] \in Items(t)
  OBVIOUS
<1> QED  BY <1>1, <1>2, ItemKinds

LEMMA ChanKeeps ==
    ASSUME TypeInv, HandlerInv, NEW t \in Chans, Step(t), Phased(agenda'[t])
    PROVE  HandlerInv' /\ \A k : ~Freeing(k) /\ ~Freeing(k)'
<1>1. /\ t \in Threads /\ AgendaInv' /\ agenda[t] \in Seq(Items(t)) /\ agenda[t] # <<>>
      /\ agenda'[t] \in Seq(Items(t)) /\ Head(agenda[t]) = agenda[t][1]
  BY Sole DEF Threads, AgendaInv
<1>2. \A i \in 1 .. Len(agenda[t]) : agenda[t][i][1] \notin UndoNames
  BY <1>1, ChanAgenda
<1>3. \A i \in 1 .. Len(agenda'[t]) : agenda'[t][i][1] \notin UndoNames
  BY <1>1, ChanAgenda
<1>4. Len(agenda'[t]) \in Nat /\ (agenda'[t] # <<>> => 1 \in 1 .. Len(agenda'[t])
         /\ Head(agenda'[t]) = agenda'[t][1])
  BY <1>1
<1>5. Ended(agenda'[t])
  BY <1>3, <1>4 DEF Ended, UndoNames, UndoConnOps
<1>6. Undone(agenda[t])'
  BY <1>3, <1>4 DEF Undone, UndoNames, UndoConnOps
<1>7. 1 \in 1 .. Len(agenda[t])
  BY <1>1
<1>8. ~Does(t, "free") /\ ~Does(t, "free")'
  BY <1>1, <1>2, <1>3, <1>4, <1>7 DEF Does, Running, UndoNames, UndoConnOps
<1> QED  BY <1>1, <1>5, <1>6, <1>8, Continues, Sole

(* A step of a channel's handler that leaves ops to be done.               *)
LEMMA ChanMoves ==
    ASSUME TypeInv, HandlerInv, NEW t \in Chans, Step(t),
           NEW ops \in Seq(Items(t)), Then(t, ops), Phased(ops),
           Rank(Head(agenda[t])) \in 1 .. 2 /\ ops # <<>> =>
               0 < Rank(ops[Len(ops)]) /\ Rank(ops[Len(ops)]) <= Rank(Head(agenda[t]))
    PROVE  /\ HandlerInv' /\ \A k : ~Freeing(k) /\ ~Freeing(k)'
           /\ ops # <<>> => /\ Running(t)' /\ Head(agenda'[t]) = ops[1] /\ Arg(t)' = ops[1][2]
                            /\ \A op : Does(t, op)' <=> ops[1][1] = op
           /\ ops = <<>> /\ Running(t)' =>
                 /\ Head(agenda'[t])[1] \notin PhaseSetOps
                 /\ Rank(Head(agenda[t])) \in {0, 3} => Rank(Head(agenda'[t])) = 0
<1> DEFINE a == agenda[t]
           b == ops \o Tail(a)
<1>1. /\ t \in Threads /\ a \in Seq(Items(t)) /\ a # <<>> /\ Head(a) = a[1] /\ Running(t)
      /\ Phased(a) /\ AgendaInv
  BY Sole DEF TypeInv, HandlerInv, Threads
<1>2. agenda'[t] = b
  BY <1>1, AgendaMoves
<1> HIDE DEF a
<1>3. Len(a) > 1 => a[2][1] \notin PhaseSetOps
                    /\ (Rank(a[2]) > 0 => 0 < Rank(a[1]) /\ Rank(a[1]) < Rank(a[2]))
  <2> SUFFICES ASSUME Len(a) > 1
               PROVE  a[2][1] \notin PhaseSetOps
                      /\ (Rank(a[2]) > 0 => 0 < Rank(a[1]) /\ Rank(a[1]) < Rank(a[2]))
    OBVIOUS
  <2>1. 2 \in 2 .. Len(a) /\ 2 - 1 = 1
    BY <1>1
  <2> QED  BY <1>1, <2>1 DEF Phased
<1>4. Rank(a[1]) \in 0 .. 3 /\ Rank(a[2]) \in 0 .. 3 /\ Rank(ops[Len(ops)]) \in 0 .. 3
  BY RankValues
<1>5. Len(a) > 1 /\ ops # <<>> /\ Rank(a[2]) > 0 =>
               0 < Rank(ops[Len(ops)]) /\ Rank(ops[Len(ops)]) < Rank(a[2])
  BY <1>1, <1>3, <1>4 DEF a
<1>6. Phased(b)
  BY <1>1, <1>5, PhaseMove
<1>7. ops # <<>> => b # <<>> /\ Head(b) = ops[1]
  BY <1>1
<1>8. ops = <<>> /\ b # <<>> => Len(a) > 1 /\ Head(b) = a[2]
  BY <1>1
<1> HIDE DEF b
<1>9. ops = <<>> /\ b # <<>> => /\ Head(b)[1] \notin PhaseSetOps
                                /\ Rank(a[1]) \in {0, 3} => Rank(Head(b)) = 0
  BY <1>3, <1>4, <1>8
<1>10. HandlerInv' /\ \A k : ~Freeing(k) /\ ~Freeing(k)'
  BY <1>2, <1>6, ChanKeeps
<1> QED  BY <1>1, <1>2, <1>7, <1>9, <1>10 DEF Running, Does, Arg, a

-----------------------------------------------------------------------------
(* Steps that touch neither lists nor connections, and those that give a   *)
(* client a connection or take it                                          *)

LEMMA TameActive ==
    ASSUME TypeInv, ClientInv, NEW t \in Threads, Step(t), ~Clears(t), ~Undoes(t)
    PROVE  UNCHANGED <<active, cached, sess>> => ActiveInv'
<1>1. /\ \A c : ~Taken("detach", c) /\ ~Taken("detach", c)'
      /\ Running(t)' => Rank(Head(agenda'[t])) = 0
      /\ \A u \in Threads \ {t} : agenda'[u] = <<>>
  BY TameMoves, Sole DEF ClientInv, PhaseSetOps
<1>2. \A u \in Threads : Running(u)' =>
         Head(agenda'[u])[1] \notin {"detach", "drop_cached", "drop", "select_targets"}
  BY <1>1, RankValues DEF Running, PhaseNames, PhaseOps, PhaseSetOps
<1> QED  BY <1>1, <1>2 DEF ClientInv, ActiveInv

LEMMA QuietStep ==
    ASSUME TypeInv, ClientInv, NEW t \in Threads, Step(t), ~Clears(t), ~Undoes(t),
           UNCHANGED <<OtherData, ref>>
    PROVE  ClientInv'
<1>1. HandlerInv'
  BY TameMoves, Continues DEF ClientInv, OtherData
<1>2. /\ \A c : ~Taken("drop", c) /\ ~Taken("drop", c)'
      /\ \A k : ~Freeing(k) /\ ~Freeing(k)'
  BY TameMoves DEF ClientInv, PhaseSetOps
<1>3. ActiveInv'
  BY TameActive DEF OtherData
<1>4. RefInv'
  BY <1>2 DEF ClientInv, RefInv, One, OtherData
<1>5. OwnInv'
  BY <1>2 DEF ClientInv, OwnInv, OtherData
<1> QED  BY <1>1, <1>3, <1>4, <1>5 DEF ClientInv

LEMMA CreateKeeps ==
    ASSUME TypeInv, ClientInv, NEW t \in Threads, CreateConnection(t)
    PROVE  ClientInv'
<1>1. Step(t) /\ ~Clears(t) /\ ~Undoes(t)
  BY DEF CreateConnection, Step, ClientStep, Clears, SessionSearch, ResetActive, Detach, DropCached,
         Drop, SelectTargets, Undoes, ConnectionDestroy, UnsetConnection, FreeConnection, Does
<1>2. Arg(t) \in Clients /\ t \in Chans
  <2>1. Head(agenda[t]) \in Items(t) /\ Head(agenda[t])[1] = "client_start_search"
    BY <1>1, Sole, HeadKinds DEF CreateConnection, Does, ClientInv
  <2> QED  BY <2>1, ItemKinds, ItemArgs DEF Arg, CommandNames, CommandClientOps
<1> DEFINE c == Arg(t)
<1>3. PICK k \in Conns \ alive :
         /\ alive' = alive \cup {k}
         /\ owner' = [owner EXCEPT ![k] = c]
         /\ conn' = [conn EXCEPT ![c] = k]
         /\ ref' = [ref EXCEPT ![c] = @ + 1]
  BY DEF CreateConnection
<1>4. conn[c] = None /\ UNCHANGED <<active, cached, sess>>
  BY DEF CreateConnection, sessionVars
<1>5. /\ \A d : ~Taken("drop", d) /\ ~Taken("drop", d)'
      /\ \A j : ~Freeing(j) /\ ~Freeing(j)'
  BY <1>1, TameMoves DEF ClientInv, PhaseSetOps
<1>6. HandlerInv'
  BY <1>1, <1>2, TameMoves, ChanKeeps DEF ClientInv
<1>7. ActiveInv'
  BY <1>1, <1>4, TameActive
<1>8. None \notin Conns /\ None \notin Clients
  BY SearchStateAssumption
<1>9. /\ conn \in [Clients -> Conns \cup {None}] /\ owner \in [Conns -> Clients \cup {None}]
      /\ DOMAIN ref = Clients
      /\ \A d \in Clients : ref[d] = One(d \in cached) + One(conn[d] # None)
  BY <1>5 DEF TypeInv, DataInv, ClientInv, RefInv, One
<1> HIDE DEF c
<1>10. RefInv'
  <2>1. \A d \in Clients : ref'[d] = One(d \in cached) + One(conn'[d] # None)
    BY <1>2, <1>3, <1>4, <1>8, <1>9 DEF One, c
  <2>2. DOMAIN ref' = Clients
    BY <1>3, <1>9
  <2> QED  BY <1>4, <1>5, <2>1, <2>2 DEF RefInv, One
<1>11. OwnInv'
  <2>1. \A d \in Clients : conn'[d] # None => conn'[d] \in alive' /\ owner'[conn'[d]] = d
    BY <1>2, <1>3, <1>9 DEF ClientInv, OwnInv, c
  <2>2. \A j \in Conns : owner'[j] # None => j \in alive' /\ conn'[owner'[j]] = j
    BY <1>2, <1>3, <1>4, <1>5, <1>8, <1>9 DEF ClientInv, OwnInv, c
  <2> QED  BY <2>1, <2>2 DEF OwnInv
<1> QED  BY <1>6, <1>7, <1>10, <1>11 DEF ClientInv

LEMMA StopKeeps ==
    ASSUME TypeInv, ClientInv, NEW t \in Threads, ClientStop(t)
    PROVE  ClientInv'
<1>1. Step(t) /\ ~Clears(t) /\ ~Undoes(t)
  BY DEF ClientStop, Step, SessionStep, Clears, SessionSearch, ResetActive, Detach, DropCached,
         Drop, SelectTargets, Undoes, ConnectionDestroy, UnsetConnection, FreeConnection, Does
<1>2. CASE UNCHANGED <<conn, ref, owner>>
  BY <1>1, <1>2, QuietStep DEF ClientStop, OtherData, sessionVars
<1>3. CASE ~UNCHANGED <<conn, ref, owner>>
  <2>1. PICK c \in Arg(t) :
          /\ conn[c] # None
          /\ ref' = [ref EXCEPT ![c] = @ - 1]
          /\ owner' = [owner EXCEPT ![conn[c]] = None]
          /\ conn' = [conn EXCEPT ![c] = None]
    BY <1>3 DEF ClientStop, Release2
  <2>2. c \in Clients /\ t \in Chans
    <3>1. Head(agenda[t]) \in Items(t) /\ Head(agenda[t])[1] = "client_stop"
      BY <1>1, Sole, HeadKinds DEF ClientStop, Does, ClientInv
    <3>2. Arg(t) \in SUBSET Clients /\ t \in Chans
      BY <3>1, ItemKinds, ItemArgs DEF Arg, CommandNames, CommandSetOps
    <3> QED  BY <3>2
  <2>3. UNCHANGED <<active, cached, sess, alive>>
    BY DEF ClientStop, sessionVars
  <2>4. /\ \A d : ~Taken("drop", d) /\ ~Taken("drop", d)'
        /\ \A j : ~Freeing(j) /\ ~Freeing(j)'
    BY <1>1, TameMoves DEF ClientInv, PhaseSetOps
  <2>5. HandlerInv'
    BY <1>1, <2>2, TameMoves, ChanKeeps DEF ClientInv
  <2>6. ActiveInv'
    BY <1>1, <2>3, TameActive
  <2>7. /\ conn \in [Clients -> Conns \cup {None}] /\ owner \in [Conns -> Clients \cup {None}]
        /\ DOMAIN ref = Clients
        /\ \A d \in Clients : ref[d] = One(d \in cached) + One(conn[d] # None)
    BY <2>4 DEF TypeInv, DataInv, ClientInv, RefInv, One
  <2>8. RefInv'
    <3>1. \A d \in Clients : ref'[d] = One(d \in cached) + One(conn'[d] # None)
      BY <2>1, <2>2, <2>7 DEF One
    <3>2. DOMAIN ref' = Clients
      BY <2>1, <2>7
    <3> QED  BY <2>3, <2>4, <3>1, <3>2 DEF RefInv, One
  <2>9. OwnInv'
    <3>1. \A d \in Clients : conn'[d] # None => conn'[d] \in alive' /\ owner'[conn'[d]] = d
      BY <2>1, <2>2, <2>3, <2>7 DEF ClientInv, OwnInv
    <3>2. \A j \in Conns : owner'[j] # None => j \in alive' /\ conn'[owner'[j]] = j
      BY <2>1, <2>2, <2>3, <2>4, <2>7 DEF ClientInv, OwnInv
    <3> QED  BY <3>1, <3>2 DEF OwnInv
  <2> QED  BY <2>5, <2>6, <2>8, <2>9 DEF ClientInv
<1> QED  BY <1>2, <1>3

-----------------------------------------------------------------------------
(* A search gives up the clients of the one before                         *)

LEMMA PhaseHeads ==
    ASSUME TypeInv, ClientInv, NEW t \in Threads, Clears(t)
    PROVE  /\ Step(t) /\ t \in Chans
           /\ Head(agenda[t])[1] \in PhaseSetOps => Arg(t) \in SUBSET Clients
           /\ <<>> \in Seq(Items(t)) /\ Phased(<<>>)
           /\ \A x \in Items(t) : <<x>> \in Seq(Items(t)) /\ Phased(<<x>>)
           /\ \A op \in PhaseOps : <<op, None>> \in Items(t)
           /\ \A op \in PhaseSetOps : \A S \in SUBSET Clients : <<op, S>> \in Items(t)
           /\ <<"select_targets", None>> \in Items(t)
<1>1. Step(t)
  BY DEF Clears, Step, SessionStep
<1>2. Head(agenda[t]) \in Items(t)
  BY <1>1, Sole, HeadKinds DEF ClientInv
<1>3. Head(agenda[t])[1] \in PhaseNames \cup {"select_targets", "session_search"}
  BY DEF Clears, SessionSearch, ResetActive, Detach, DropCached, Drop, SelectTargets, Does,
         PhaseNames, PhaseOps, PhaseSetOps
<1>4. t \in Chans
  BY <1>2, <1>3, ItemKinds DEF StartNames, CommandNames, CommandOps
<1>5. Head(agenda[t])[1] \in PhaseSetOps => Arg(t) \in SUBSET Clients
  BY <1>2, ItemArgs DEF Arg
<1>6. /\ \A op \in PhaseOps : <<op, None>> \in Items(t)
      /\ \A op \in PhaseSetOps : \A S \in SUBSET Clients : <<op, S>> \in Items(t)
      /\ <<"select_targets", None>> \in Items(t)
  BY <1>4 DEF Items, Plain, Phasing, Starters
<1>7. Phased(<<>>) /\ \A x : Phased(<<x>>)
  BY DEF Phased
<1> QED  BY <1>1, <1>4, <1>5, <1>6, <1>7

LEMMA Others ==
    ASSUME TypeInv, ClientInv, NEW t \in Threads, Step(t),
           Running(t)' /\ Head(agenda'[t])[1] \in {"detach", "drop_cached", "drop", "select_targets"}
               => active' = {},
           active' \subseteq cached',
           \A c \in Clients : sess'[c] <=> c \in active' \/ (Does(t, "detach")' /\ c \in Arg(t)')
    PROVE  ActiveInv'
<1>1. /\ \A u \in Threads \ {t} : agenda'[u] = <<>>
      /\ \A c : Taken("detach", c)' <=> Does(t, "detach")' /\ c \in Arg(t)'
  BY Sole DEF ClientInv
<1> QED  BY <1>1 DEF ActiveInv, Running

LEMMA Joined ==
    ASSUME NEW p, NEW q, NEW r, NEW n
    PROVE  /\ << <<p, n>> >> \o << <<q, n>> >> \o << <<r, n>> >> = << <<p, n>>, <<q, n>>, <<r, n>> >>
           /\ << <<p, n>> >> \o <<>> \o << <<r, n>> >> = << <<p, n>>, <<r, n>> >>
<1>1. << <<p, n>>, <<q, n>> >> = << <<p, n>> >> \o << <<q, n>> >>
  OBVIOUS
<1>2. << <<p, n>>, <<q, n>>, <<r, n>> >> = << <<p, n>>, <<q, n>> >> \o << <<r, n>> >>
  OBVIOUS
<1>3. << <<p, n>> >> \o <<>> = << <<p, n>> >>
  OBVIOUS
<1>4. << <<p, n>>, <<r, n>> >> = << <<p, n>> >> \o << <<r, n>> >>
  OBVIOUS
<1> QED  BY <1>1, <1>2, <1>3, <1>4, Zenon

LEMMA SearchKeeps ==
    ASSUME TypeInv, ClientInv, NEW t \in Threads, SessionSearch(t)
    PROVE  ClientInv'
<1>1. /\ Step(t) /\ t \in Chans
      /\ <<>> \in Seq(Items(t)) /\ Phased(<<>>)
      /\ <<"reset_active", None>> \in Items(t) /\ <<"drop_cached", None>> \in Items(t)
      /\ <<"select_targets", None>> \in Items(t)
  BY PhaseHeads DEF Clears, PhaseOps
<1>2. UNCHANGED <<OtherData, ref>>
  BY DEF SessionSearch, OtherData, clientVars, connVars
<1>3. Rank(Head(agenda[t])) = 0 /\ \A c : ~Taken("detach", c) /\ ~Taken("drop", c)
  BY <1>1, Sole DEF SessionSearch, Does, Rank, ClientInv
<1> DEFINE long == << <<"reset_active", None>>, <<"drop_cached", None>>, <<"select_targets", None>> >>
           short == << <<"reset_active", None>>, <<"select_targets", None>> >>
<1>4. \E ops \in {<<>>, short, long} : Then(t, ops)
  <2>1. CASE starting
    BY <2>1 DEF SessionSearch, Done
  <2>2. CASE ~starting /\ modified
    <3>1. Then(t, << <<"reset_active", None>> >> \o << <<"drop_cached", None>> >>
                  \o << <<"select_targets", None>> >>)
      BY <2>2 DEF SessionSearch
    <3>2. << <<"reset_active", None>> >> \o << <<"drop_cached", None>> >>
                  \o << <<"select_targets", None>> >> = long
      BY Joined
    <3> QED  BY <3>1, <3>2
  <2>3. CASE ~starting /\ ~modified
    <3>1. Then(t, << <<"reset_active", None>> >> \o <<>> \o << <<"select_targets", None>> >>)
      BY <2>3 DEF SessionSearch
    <3>2. << <<"reset_active", None>> >> \o <<>> \o << <<"select_targets", None>> >> = short
      BY Joined
    <3> QED  BY <3>1, <3>2
  <2> QED  BY <2>1, <2>2, <2>3
<1>5. short \in Seq(Items(t)) /\ long \in Seq(Items(t)) /\ short # <<>> /\ long # <<>>
      /\ short[1] = <<"reset_active", None>> /\ long[1] = <<"reset_active", None>>
  BY <1>1
<1>6. Phased(short) /\ Phased(long)
  BY DEF Phased, Rank, PhaseSetOps
<1> HIDE DEF short, long
<1>7. PICK ops \in {<<>>, short, long} : Then(t, ops)
  BY <1>4
<1>8. ops \in Seq(Items(t)) /\ Phased(ops)
  BY <1>1, <1>5, <1>6
<1>9. /\ HandlerInv' /\ \A k : ~Freeing(k) /\ ~Freeing(k)'
      /\ ops # <<>> => Running(t)' /\ Head(agenda'[t]) = ops[1]
      /\ ops = <<>> /\ Running(t)' => Rank(Head(agenda'[t])) = 0
  BY <1>1, <1>3, <1>7, <1>8, ChanMoves DEF ClientInv
<1>10. Running(t)' => Head(agenda'[t])[1] \notin {"detach", "drop_cached", "drop", "select_targets"}
  <2>1. CASE ops = <<>>
    BY <1>9, <2>1, RankValues DEF PhaseNames, PhaseOps, PhaseSetOps
  <2>2. CASE ops # <<>>
    <3>1. Head(agenda'[t]) = <<"reset_active", None>>
      BY <1>5, <1>7, <1>9, <2>2
    <3> QED  BY <3>1
  <2> QED  BY <2>1, <2>2
<1>11. \A c : ~Taken("detach", c)' /\ ~Taken("drop", c)'
  BY <1>1, <1>10, Sole DEF Does, ClientInv
<1>12. ActiveInv'
  BY <1>1, <1>2, <1>3, <1>10, <1>11, Others DEF ClientInv, ActiveInv, OtherData, Does
<1>13. RefInv'
  BY <1>2, <1>3, <1>11 DEF ClientInv, RefInv, One, OtherData
<1>14. OwnInv'
  BY <1>2, <1>9 DEF ClientInv, OwnInv, OtherData
<1> QED  BY <1>9, <1>12, <1>13, <1>14 DEF ClientInv

LEMMA ResetKeeps ==
    ASSUME TypeInv, ClientInv, NEW t \in Threads, ResetActive(t)
    PROVE  ClientInv'
<1> DEFINE ops == << <<"detach", active>> >>
<1>1. /\ Step(t) /\ t \in Chans /\ ops \in Seq(Items(t)) /\ Phased(ops)
      /\ active \subseteq Clients
  <2>1. active \in SUBSET Clients
    BY DEF TypeInv, DataInv
  <2> QED  BY <2>1, PhaseHeads DEF Clears, PhaseSetOps
<1>2. active' = {} /\ Then(t, ops) /\ UNCHANGED <<cached, sess, conn, ref, owner, alive>>
  BY DEF ResetActive, clientVars, connVars
<1>3. Rank(Head(agenda[t])) = 1 /\ \A c : ~Taken("detach", c) /\ ~Taken("drop", c)
  BY <1>1, Sole DEF ResetActive, Does, Rank, ClientInv
<1>4. ops # <<>> /\ ops[1] = <<"detach", active>> /\ ops[Len(ops)] = <<"detach", active>>
  OBVIOUS
<1>5. Rank(<<"detach", active>>) = 1
  BY DEF Rank
<1> HIDE DEF ops
<1>6. /\ HandlerInv' /\ \A k : ~Freeing(k) /\ ~Freeing(k)'
      /\ Running(t)' /\ Arg(t)' = active /\ \A op : Does(t, op)' <=> op = "detach"
  BY <1>1, <1>2, <1>3, <1>4, <1>5, ChanMoves DEF ClientInv
<1>7. \A c \in Clients : sess'[c] <=> c \in active' \/ (Does(t, "detach")' /\ c \in Arg(t)')
  BY <1>2, <1>3, <1>6 DEF ClientInv, ActiveInv
<1>8. ActiveInv'
  BY <1>1, <1>2, <1>7, Others
<1>9. \A c : ~Taken("drop", c)'
  BY <1>1, <1>6, Sole DEF ClientInv
<1>10. RefInv'
  BY <1>2, <1>3, <1>9 DEF ClientInv, RefInv, One
<1>11. OwnInv'
  BY <1>2, <1>6 DEF ClientInv, OwnInv
<1> QED  BY <1>6, <1>8, <1>10, <1>11 DEF ClientInv

LEMMA DetachKeeps ==
    ASSUME TypeInv, ClientInv, NEW t \in Threads, Detach(t)
    PROVE  ClientInv'
<1>1. /\ Step(t) /\ t \in Chans /\ Arg(t) \in SUBSET Clients
      /\ <<>> \in Seq(Items(t)) /\ Phased(<<>>)
      /\ \A S \in SUBSET Clients : << <<"detach", S>> >> \in Seq(Items(t)) /\ Phased(<< <<"detach", S>> >>)
  <2>1. Head(agenda[t])[1] = "detach"
    BY DEF Detach, Does
  <2> QED  BY <2>1, PhaseHeads DEF Clears, PhaseSetOps
<1>2. UNCHANGED <<active, cached, conn, ref, owner, alive>>
  BY DEF Detach, sessionVars, connVars
<1>3. Rank(Head(agenda[t])) = 1 /\ active = {} /\ Does(t, "detach")
  BY DEF Detach, Does, Rank, ClientInv, ActiveInv
<1>4. /\ \A c : (Taken("detach", c) <=> c \in Arg(t)) /\ ~Taken("drop", c)
      /\ \A c : Taken("drop", c)' <=> Does(t, "drop")' /\ c \in Arg(t)'
  BY <1>1, <1>3, Sole DEF ClientInv, Does
<1>5. sess \in [Clients -> BOOLEAN] /\ \A c \in Clients : sess[c] <=> c \in Arg(t)
  BY <1>3, <1>4 DEF ClientInv, ActiveInv, TypeInv, DataInv
<1>6. CASE Arg(t) = {} /\ Done(t) /\ UNCHANGED sess
  <2>1. /\ HandlerInv' /\ \A k : ~Freeing(k) /\ ~Freeing(k)'
        /\ Running(t)' => Head(agenda'[t])[1] \notin PhaseSetOps
    BY <1>1, <1>6, ChanMoves DEF ClientInv, Done
  <2>2. ~Does(t, "detach")' /\ ~Does(t, "drop")'
    BY <2>1 DEF Does, PhaseSetOps
  <2>3. ActiveInv'
    BY <1>1, <1>2, <1>3, <1>5, <1>6, <2>2, Others
  <2>4. RefInv'
    BY <1>2, <1>4, <2>2 DEF ClientInv, RefInv, One
  <2>5. OwnInv'
    BY <1>2, <2>1 DEF ClientInv, OwnInv
  <2> QED  BY <2>1, <2>3, <2>4, <2>5 DEF ClientInv
<1>7. ASSUME NEW c \in Arg(t), sess' = [sess EXCEPT ![c] = FALSE],
             Then(t, << <<"detach", Arg(t) \ {c}>> >>)
      PROVE  ClientInv'
  <2> DEFINE S == Arg(t) \ {c}
             ops == << <<"detach", S>> >>
  <2>1. ops \in Seq(Items(t)) /\ Phased(ops) /\ Then(t, ops)
    BY <1>1, <1>7
  <2> HIDE DEF S
  <2>2. ops # <<>> /\ ops[1] = <<"detach", S>> /\ ops[Len(ops)] = <<"detach", S>>
        /\ Rank(<<"detach", S>>) = 1
    BY DEF Rank
  <2> HIDE DEF ops
  <2>3. /\ HandlerInv' /\ \A k : ~Freeing(k) /\ ~Freeing(k)'
        /\ Arg(t)' = S /\ \A op : Does(t, op)' <=> op = "detach"
    <3>1. Step(t) /\ t \in Chans /\ HandlerInv /\ Rank(Head(agenda[t])) = 1
      BY <1>1, <1>3 DEF ClientInv
    <3> QED  BY <2>1, <2>2, <3>1, ChanMoves
  <2> USE DEF S
  <2>4. \A d \in Clients : sess'[d] <=> d \in active' \/ (Does(t, "detach")' /\ d \in Arg(t)')
    BY <1>1, <1>2, <1>3, <1>5, <1>7, <2>3
  <2>5. ActiveInv'
    BY <1>1, <1>2, <1>3, <2>4, Others
  <2>6. RefInv'
    BY <1>2, <1>4, <2>3 DEF ClientInv, RefInv, One
  <2>7. OwnInv'
    BY <1>2, <2>3 DEF ClientInv, OwnInv
  <2> QED  BY <2>3, <2>5, <2>6, <2>7 DEF ClientInv
<1> QED  BY <1>6, <1>7 DEF Detach

LEMMA DropCachedKeeps ==
    ASSUME TypeInv, ClientInv, NEW t \in Threads, DropCached(t)
    PROVE  ClientInv'
<1> DEFINE ops == << <<"drop", cached>> >>
<1>1. Step(t) /\ t \in Chans /\ ops \in Seq(Items(t)) /\ Phased(ops)
  <2>1. cached \in SUBSET Clients
    BY DEF TypeInv, DataInv
  <2> QED  BY <2>1, PhaseHeads DEF Clears, PhaseSetOps
<1>2. cached' = {} /\ Then(t, ops) /\ UNCHANGED <<active, sess, conn, ref, owner, alive>>
  BY DEF DropCached, clientVars, connVars
<1>3. Rank(Head(agenda[t])) = 2 /\ active = {} /\ \A c : ~Taken("detach", c) /\ ~Taken("drop", c)
  BY <1>1, Sole DEF DropCached, Does, Rank, ClientInv, ActiveInv
<1>4. ops # <<>> /\ ops[1] = <<"drop", cached>> /\ ops[Len(ops)] = <<"drop", cached>>
  OBVIOUS
<1>5. Rank(<<"drop", cached>>) = 2
  BY DEF Rank
<1> HIDE DEF ops
<1>6. /\ HandlerInv' /\ \A k : ~Freeing(k) /\ ~Freeing(k)'
      /\ Running(t)' /\ Arg(t)' = cached /\ \A op : Does(t, op)' <=> op = "drop"
  BY <1>1, <1>2, <1>3, <1>4, <1>5, ChanMoves DEF ClientInv
<1>7. \A c \in Clients : sess'[c] <=> c \in active' \/ (Does(t, "detach")' /\ c \in Arg(t)')
  BY <1>2, <1>3, <1>6 DEF ClientInv, ActiveInv
<1>8. ActiveInv'
  BY <1>1, <1>2, <1>3, <1>7, Others
<1>9. \A c : Taken("drop", c)' <=> c \in cached
  BY <1>1, <1>6, Sole DEF ClientInv
<1>10. RefInv'
  BY <1>2, <1>3, <1>9 DEF ClientInv, RefInv, One
<1>11. OwnInv'
  BY <1>2, <1>6 DEF ClientInv, OwnInv
<1> QED  BY <1>6, <1>8, <1>10, <1>11 DEF ClientInv

LEMMA DropKeeps ==
    ASSUME TypeInv, ClientInv, NEW t \in Threads, Drop(t)
    PROVE  ClientInv'
<1>1. /\ Step(t) /\ t \in Chans /\ Arg(t) \in SUBSET Clients
      /\ <<>> \in Seq(Items(t)) /\ Phased(<<>>)
      /\ \A S \in SUBSET Clients : << <<"drop", S>> >> \in Seq(Items(t)) /\ Phased(<< <<"drop", S>> >>)
  <2>1. Head(agenda[t])[1] = "drop"
    BY DEF Drop, Does
  <2> QED  BY <2>1, PhaseHeads DEF Clears, PhaseSetOps
<1>2. UNCHANGED <<active, cached, conn, owner, alive>>
  BY DEF Drop, sessionVars, connVars
<1>3. Rank(Head(agenda[t])) = 2 /\ active = {} /\ Does(t, "drop")
  BY DEF Drop, Does, Rank, ClientInv, ActiveInv
<1>4. /\ \A c : ~Taken("detach", c) /\ (Taken("drop", c) <=> c \in Arg(t))
      /\ \A c : Taken("drop", c)' <=> Does(t, "drop")' /\ c \in Arg(t)'
  BY <1>1, <1>3, Sole DEF ClientInv, Does
<1>5. sess \in [Clients -> BOOLEAN] /\ \A c \in Clients : ~sess[c]
  BY <1>3, <1>4 DEF ClientInv, ActiveInv, TypeInv, DataInv
<1>6. /\ DOMAIN ref = Clients
      /\ \A c \in Clients : ref[c] = One(c \in cached) + One(conn[c] # None) + One(c \in Arg(t))
  BY <1>4 DEF ClientInv, RefInv, One
<1>7. CASE Arg(t) = {} /\ Done(t) /\ UNCHANGED <<sess, ref>>
  <2>1. /\ HandlerInv' /\ \A k : ~Freeing(k) /\ ~Freeing(k)'
        /\ Running(t)' => Head(agenda'[t])[1] \notin PhaseSetOps
    BY <1>1, <1>7, ChanMoves DEF ClientInv, Done
  <2>2. ~Does(t, "detach")' /\ ~Does(t, "drop")'
    BY <2>1 DEF Does, PhaseSetOps
  <2>3. ActiveInv'
    BY <1>1, <1>2, <1>3, <1>5, <1>7, <2>2, Others
  <2>4. RefInv'
    BY <1>2, <1>4, <1>6, <1>7, <2>2 DEF RefInv, One
  <2>5. OwnInv'
    BY <1>2, <2>1 DEF ClientInv, OwnInv
  <2> QED  BY <2>1, <2>3, <2>4, <2>5 DEF ClientInv
<1>8. ASSUME NEW c \in Arg(t), sess' = [sess EXCEPT ![c] = FALSE], ref' = [ref EXCEPT ![c] = @ - 1],
             Then(t, << <<"drop", Arg(t) \ {c}>> >>)
      PROVE  ClientInv'
  <2> DEFINE S == Arg(t) \ {c}
             ops == << <<"drop", S>> >>
  <2>1. ops \in Seq(Items(t)) /\ Phased(ops) /\ Then(t, ops)
    BY <1>1, <1>8
  <2> HIDE DEF S
  <2>2. ops # <<>> /\ ops[1] = <<"drop", S>> /\ ops[Len(ops)] = <<"drop", S>>
        /\ Rank(<<"drop", S>>) = 2
    BY DEF Rank
  <2> HIDE DEF ops
  <2>3. /\ HandlerInv' /\ \A k : ~Freeing(k) /\ ~Freeing(k)'
        /\ Arg(t)' = S /\ \A op : Does(t, op)' <=> op = "drop"
    <3>1. Step(t) /\ t \in Chans /\ HandlerInv /\ Rank(Head(agenda[t])) = 2
      BY <1>1, <1>3 DEF ClientInv
    <3> QED  BY <2>1, <2>2, <3>1, ChanMoves
  <2> USE DEF S
  <2>4. \A d \in Clients : sess'[d] <=> d \in active' \/ (Does(t, "detach")' /\ d \in Arg(t)')
    BY <1>1, <1>2, <1>3, <1>5, <1>8, <2>3
  <2>5. ActiveInv'
    BY <1>1, <1>2, <1>3, <2>4, Others
  <2>6. RefInv'
    <3>1. \A d \in Clients : ref'[d] = One(d \in cached) + One(conn[d] # None) + One(d \in Arg(t) \ {c})
      BY <1>1, <1>6, <1>8 DEF One
    <3>2. DOMAIN ref' = Clients
      BY <1>6, <1>8
    <3> QED  BY <1>2, <1>4, <2>3, <3>1, <3>2 DEF RefInv, One
  <2>7. OwnInv'
    BY <1>2, <2>3 DEF ClientInv, OwnInv
  <2> QED  BY <2>3, <2>5, <2>6, <2>7 DEF ClientInv
<1> QED  BY <1>7, <1>8 DEF Drop

LEMMA TamePhased ==
    ASSUME NEW S, NEW ops \in Seq(S), \A i \in 1 .. Len(ops) : Tame(ops[i])
    PROVE  Phased(ops)
<1>1. \A i \in 2 .. Len(ops) : Tame(ops[i])
  OBVIOUS
<1> QED  BY <1>1, RankValues DEF Phased, Tame, PhaseNames

LEMMA TameJoin ==
    ASSUME NEW S, NEW a \in Seq(S), NEW b \in Seq(S), Len(a) > 0,
           \A i \in 1 .. Len(a) : Tame(a[i]), \A i \in 1 .. Len(b) : Tame(b[i])
    PROVE  /\ a \o b \in Seq(S) /\ (a \o b)[1] = a[1]
           /\ \A i \in 1 .. Len(a \o b) : Tame((a \o b)[i])
<1> DEFINE d == a \o b
<1>1. /\ d \in Seq(S) /\ d[1] = a[1] /\ Len(d) = Len(a) + Len(b) /\ Len(a) \in Nat /\ Len(b) \in Nat
      /\ \A i \in 1 .. Len(a) : d[i] = a[i]
      /\ \A i \in Len(a) + 1 .. Len(a) + Len(b) : d[i] = b[i - Len(a)]
  OBVIOUS
<1> HIDE DEF d
<1>2. ASSUME NEW i \in 1 .. Len(d) PROVE Tame(d[i])
  <2>1. CASE i <= Len(a)
    BY <1>1, <2>1
  <2>2. CASE i > Len(a)
    <3>1. i - Len(a) \in 1 .. Len(b) /\ d[i] = b[i - Len(a)]
      BY <1>1, <2>2
    <3> QED  BY <3>1
  <2> QED  BY <1>1, <2>1, <2>2
<1> QED  BY <1>1, <1>2 DEF d

LEMMA SelectOps ==
    ASSUME TypeInv, ClientInv, NEW t \in Threads, SelectTargets(t)
    PROVE  \E S \in SUBSET Clients, ops \in Seq(Items(t)) :
              /\ Selects(S) /\ \A c \in S \ cached : ref[c] = 0
              /\ Then(t, ops) /\ Phased(ops)
              /\ ops # <<>> => ops[1][1] \in {"reset_active", "session_alert_watch"}
<1>1. /\ t \in Chans /\ <<>> \in Seq(Items(t)) /\ Phased(<<>>)
      /\ << <<"reset_active", None>> >> \in Seq(Items(t)) /\ Phased(<< <<"reset_active", None>> >>)
  BY PhaseHeads DEF Clears, PhaseOps
<1> DEFINE Goal(S, ops) ==
             /\ Selects(S) /\ \A c \in S \ cached : ref[c] = 0
             /\ Then(t, ops) /\ Phased(ops)
             /\ ops # <<>> => ops[1][1] \in {"reset_active", "session_alert_watch"}
<1>2. CASE Selects({}) /\ Done(t)
  <2>1. Goal({}, <<>>)
    BY <1>1, <1>2 DEF Done
  <2> QED  BY <1>1, <2>1
<1>3. ASSUME NEW S \in SUBSET Clients, Selectable(S), Selects(S),
             \/ Then(t, << <<"reset_active", None>> >>)
             \/ Then(t, AlertAll \o << <<"search_clients", S>>, <<"started", None>> >>)
      PROVE  \E ops \in Seq(Items(t)) : Goal(S, ops)
  <2>1. \A c \in S \ cached : ref[c] = 0
    BY <1>3 DEF Selectable, Fresh
  <2>2. CASE Then(t, << <<"reset_active", None>> >>)
    <3> DEFINE ops == << <<"reset_active", None>> >>
    <3>1. ops[1][1] = "reset_active"
      OBVIOUS
    <3> HIDE DEF ops
    <3>2. ops \in Seq(Items(t)) /\ Phased(ops) /\ Then(t, ops)
      BY <1>1, <2>2 DEF ops
    <3> QED  BY <1>3, <2>1, <3>1, <3>2
  <2>3. CASE Then(t, AlertAll \o << <<"search_clients", S>>, <<"started", None>> >>)
    <3> DEFINE x == <<"search_clients", S>>
               rest == << x, <<"started", None>> >>
               ops == AlertAll \o rest
    <3>1. AlertAll \in Seq(Calm(t)) /\ x \in Calm(t) /\ Calm(t) \subseteq Items(t) /\ Start \in Items(t)
      BY <1>1, CalmHas DEF Items, Commanding, CommandSetOps, Starters
    <3>2. Len(AlertAll) = 3 /\ AlertAll[1][1] = "session_alert_watch"
      BY DEF AlertAll, Alert
    <3>3. AlertAll \in Seq(Items(t)) /\ \A i \in 1 .. Len(AlertAll) : Tame(AlertAll[i])
      <4>1. \A i \in 1 .. Len(AlertAll) : AlertAll[i] \in Calm(t)
        BY <3>1
      <4> QED  BY <3>1, <4>1, TameItems
    <3>4. rest \in Seq(Items(t)) /\ \A i \in 1 .. Len(rest) : Tame(rest[i])
      <4>1. rest = <<x, Start>> /\ x \in Items(t) /\ Tame(x) /\ Tame(Start)
        BY <3>1, TameItems DEF Start
      <4> HIDE DEF x
      <4>2. Len(rest) = 2 /\ rest[1] = x /\ rest[2] = Start
        BY <4>1
      <4>3. rest \in Seq(Items(t))
        BY <3>1, <4>1, Short
      <4> QED  BY <4>1, <4>2, <4>3
    <3> HIDE DEF rest
    <3>8. /\ ops \in Seq(Items(t)) /\ ops[1] = AlertAll[1]
          /\ \A i \in 1 .. Len(ops) : Tame(ops[i])
      <4>1. Len(AlertAll) > 0
        BY <3>2
      <4> QED  BY <3>3, <3>4, <4>1, TameJoin, Zenon
    <3>5. Then(t, ops)
      BY <2>3 DEF rest, x
    <3> HIDE DEF ops
    <3>6. Phased(ops)
      BY <3>8, TamePhased
    <3>7. ops[1][1] = "session_alert_watch"
      BY <3>2, <3>8
    <3> QED  BY <1>3, <2>1, <3>8, <3>5, <3>6, <3>7
  <2> QED  BY <1>3, <2>2, <2>3
<1>4. CASE \E S \in SUBSET Clients \ {{}} :
             /\ Selectable(S) /\ Selects(S)
             /\ \/ Then(t, << <<"reset_active", None>> >>)
                \/ Then(t, AlertAll \o << <<"search_clients", S>>, <<"started", None>> >>)
  <2>1. PICK S \in SUBSET Clients : \E ops \in Seq(Items(t)) : Goal(S, ops)
    BY <1>3, <1>4
  <2> QED  BY <2>1
<1> QED  BY <1>2, <1>4 DEF SelectTargets

LEMMA SelectKeeps ==
    ASSUME TypeInv, ClientInv, NEW t \in Threads, SelectTargets(t)
    PROVE  ClientInv'
<1>1. Step(t) /\ t \in Chans
  BY PhaseHeads DEF Clears
<1>2. PICK S \in SUBSET Clients, ops \in Seq(Items(t)) :
              /\ Selects(S) /\ \A c \in S \ cached : ref[c] = 0
              /\ Then(t, ops) /\ Phased(ops)
              /\ ops # <<>> => ops[1][1] \in {"reset_active", "session_alert_watch"}
  BY SelectOps
<1>3. /\ active' = S /\ cached' = cached \cup S
      /\ sess' = [c \in Clients |-> sess[c] \/ c \in S]
      /\ ref' = [c \in Clients |-> IF c \in S \ cached THEN 1 ELSE ref[c]]
      /\ UNCHANGED <<conn, owner, alive>>
  BY <1>2 DEF Selects, SelectTargets, connVars
<1>4. Rank(Head(agenda[t])) = 3 /\ active = {} /\ \A c : ~Taken("detach", c) /\ ~Taken("drop", c)
  BY <1>1, Sole DEF SelectTargets, Does, Rank, ClientInv, ActiveInv
<1>5. /\ HandlerInv' /\ \A k : ~Freeing(k) /\ ~Freeing(k)'
      /\ ops # <<>> => Running(t)' /\ Head(agenda'[t]) = ops[1]
      /\ ops = <<>> /\ Running(t)' => Rank(Head(agenda'[t])) = 0
  BY <1>1, <1>2, <1>4, ChanMoves DEF ClientInv
<1>6. Running(t)' => Head(agenda'[t])[1] \notin {"detach", "drop_cached", "drop", "select_targets"}
  <2>1. CASE ops = <<>>
    BY <1>5, <2>1, RankValues DEF PhaseNames, PhaseOps, PhaseSetOps
  <2>2. CASE ops # <<>>
    BY <1>2, <1>5, <2>2
  <2> QED  BY <2>1, <2>2
<1>7. \A c : ~Taken("detach", c)' /\ ~Taken("drop", c)'
  BY <1>1, <1>6, Sole DEF Does, ClientInv
<1>8. \A c \in Clients : ~sess[c]
  BY <1>4 DEF ClientInv, ActiveInv
<1>9. ActiveInv'
  BY <1>1, <1>3, <1>6, <1>8, Others DEF Does
<1>10. RefInv'
  <2>1. \A c \in Clients : ref[c] = One(c \in cached) + One(conn[c] # None)
    BY <1>4 DEF ClientInv, RefInv, One
  <2>2. \A c \in Clients : ref'[c] = One(c \in cached') + One(conn[c] # None)
    BY <1>2, <1>3, <2>1 DEF One
  <2> QED  BY <1>3, <1>7, <2>2 DEF RefInv, One
<1>11. OwnInv'
  BY <1>3, <1>5 DEF ClientInv, OwnInv
<1> QED  BY <1>5, <1>9, <1>10, <1>11 DEF ClientInv

-----------------------------------------------------------------------------
(* A connection goes                                                       *)

LEMMA Tails ==
    ASSUME NEW S, NEW a \in Seq(S)
    PROVE  /\ Len(a) = 1 => Tail(a) = <<>>
           /\ Len(a) = 2 => Len(Tail(a)) = 1 /\ Tail(a)[1] = a[2] /\ Tail(a) # <<>>
                            /\ Tail(a) \in Seq(S)
<1> DEFINE b == Tail(a)
<1>1. a # <<>> => /\ b \in Seq(S) /\ Len(b) = Len(a) - 1
                  /\ \A i \in 1 .. Len(b) : b[i] = a[i + 1]
  OBVIOUS
<1>2. /\ \A d \in Seq(S) : (Len(d) = 0 <=> d = <<>>) /\ Len(d) \in Nat
      /\ a \in Seq(S)
  OBVIOUS
<1> HIDE DEF b
<1>3. Len(a) = 1 => b = <<>>
  <2>1. Len(a) = 1 => a # <<>> /\ Len(a) - 1 = 0
    BY <1>2
  <2>2. Len(a) = 1 => b \in Seq(S) /\ Len(b) = 0
    BY <1>1, <2>1
  <2> QED  BY <1>2, <2>2
<1>4. Len(a) = 2 => Len(b) = 1 /\ b[1] = a[2] /\ b # <<>> /\ b \in Seq(S)
  <2>1. Len(a) = 2 => Len(b) = 1 /\ b \in Seq(S) /\ b[1] = a[1 + 1]
    BY <1>1, <1>2
  <2> QED  BY <1>2, <2>1
<1> QED  BY <1>3, <1>4 DEF b

LEMMA UndoHeads ==
    ASSUME TypeInv, ClientInv, NEW t \in Threads, Undoes(t)
    PROVE  /\ Step(t) /\ Running(t) /\ agenda[t] \in Seq(Items(t)) /\ agenda[t] # <<>>
           /\ Head(agenda[t]) = agenda[t][1] /\ agenda[t][1][2] = Arg(t)
           /\ Does(t, "unset_connection") => Arg(t) \in Clients
           /\ ~Does(t, "unset_connection") => Arg(t) \in Conns /\ Len(agenda[t]) = 1
           /\ Does(t, "unset_connection") => Len(agenda[t]) = 2 /\ agenda[t][2][1] = "free"
           /\ \A c : ~Taken("detach", c) /\ ~Taken("drop", c)
<1>1. Step(t)
  BY DEF Undoes, Step, ClientStep
<1>2. /\ Running(t) /\ agenda[t] \in Seq(Items(t)) /\ agenda[t] # <<>>
      /\ Head(agenda[t]) = agenda[t][1] /\ agenda[t][1][2] = Arg(t) /\ Head(agenda[t]) \in Items(t)
  BY <1>1, Sole, HeadKinds DEF ClientInv, Arg
<1>3. 1 \in 1 .. Len(agenda[t]) /\ Len(agenda[t]) \in Nat /\ 1 + 1 = 2
  BY <1>2
<1>4. \/ Does(t, "unset_connection")
      \/ ~Does(t, "unset_connection") /\ agenda[t][1][1] \in UndoConnOps
  BY <1>2 DEF Undoes, ConnectionDestroy, UnsetConnection, FreeConnection, Does, UndoConnOps
<1>5. Does(t, "unset_connection") => agenda[t][1][1] = "unset_connection"
  BY <1>2 DEF Does
<1>6. Ended(agenda[t])
  BY DEF ClientInv, HandlerInv
<1>7. \A c : ~Taken("detach", c) /\ ~Taken("drop", c)
  BY <1>1, <1>2, <1>4, <1>5, Sole DEF ClientInv, Does, UndoConnOps
<1>8. /\ Does(t, "unset_connection") => Arg(t) \in Clients
      /\ ~Does(t, "unset_connection") => Arg(t) \in Conns
  BY <1>2, <1>4, <1>5, ItemArgs
<1>9. ~Does(t, "unset_connection") => Len(agenda[t]) = 1
  BY <1>3, <1>4, <1>6 DEF Ended
<1>10. Does(t, "unset_connection") => Len(agenda[t]) = 2 /\ agenda[t][2][1] = "free"
  BY <1>3, <1>5, <1>6 DEF Ended
<1> QED  BY <1>1, <1>2, <1>7, <1>8, <1>9, <1>10

(* What is left to do neither clears a list.                               *)
LEMMA UndoMoves ==
    ASSUME TypeInv, ClientInv, NEW t \in Threads, Undoes(t), NEW ops \in Seq(Items(t)),
           agenda'[t] = ops, Phased(ops), Ended(ops), Undone(agenda[t])',
           ops # <<>> => ops[1][1] \in {"client_disconnect", "free"}
    PROVE  /\ HandlerInv' /\ ActiveInv'
           /\ \A c : ~Taken("drop", c)'
           /\ \A k : Freeing(k)' <=> ops # <<>> /\ ops[1][1] = "free" /\ ops[1][2] = k
<1>1. Step(t) /\ \A c : ~Taken("detach", c)
  BY UndoHeads
<1>2. HandlerInv'
  BY <1>1, Continues DEF ClientInv
<1>3. ops # <<>> => Head(ops) = ops[1]
  OBVIOUS
<1>4. Running(t)' =>
         Head(agenda'[t])[1] \notin {"detach", "drop_cached", "drop", "select_targets"}
  BY <1>3 DEF Running
<1>5. /\ \A c : ~Taken("detach", c)' /\ ~Taken("drop", c)'
  BY <1>1, <1>4, Sole DEF ClientInv, Does
<1>6. \A k : Freeing(k)' <=> ops # <<>> /\ ops[1][1] = "free" /\ ops[1][2] = k
  BY <1>1, <1>3, Sole DEF ClientInv, Does, Running, Arg
<1>7. UNCHANGED <<active, cached, sess>>
  BY DEF Undoes, ConnectionDestroy, UnsetConnection, FreeConnection, sessionVars, clientVars
<1>8. ActiveInv'
  BY <1>1, <1>4, <1>5, <1>7, Others DEF ClientInv, ActiveInv, Does
<1> QED  BY <1>2, <1>5, <1>6, <1>8

LEMMA DestroyKeeps ==
    ASSUME TypeInv, ClientInv, NEW t \in Threads, ConnectionDestroy(t)
    PROVE  ClientInv'
<1> DEFINE k == Arg(t)
           c == owner[k]
           x == <<"client_disconnect", c>>
           y == <<"unset_connection", c>>
           z == <<"free", k>>
<1>1. /\ Undoes(t) /\ Step(t) /\ ~Does(t, "unset_connection") /\ k \in Conns
      /\ agenda[t] \in Seq(Items(t)) /\ agenda[t] # <<>> /\ Len(agenda[t]) = 1
      /\ \A d : ~Taken("detach", d) /\ ~Taken("drop", d)
  BY UndoHeads DEF Undoes, ConnectionDestroy, Does
<1>2. \A j : ~Freeing(j)
  BY <1>1, Sole DEF ConnectionDestroy, Does, ClientInv
<1>3. UNCHANGED <<OtherData, ref>>
  BY DEF ConnectionDestroy, OtherData, sessionVars, clientVars, connVars
<1>4. agenda'[t] = IF c = None THEN <<z>> ELSE <<x, y, z>>
  <2>1. Tail(agenda[t]) = <<>>
    BY <1>1, Tails
  <2>2. agenda'[t] = ((IF c = None THEN <<>> ELSE <<x, y>>) \o <<z>>) \o <<>>
    BY <1>1, <2>1 DEF ConnectionDestroy, Then, TypeInv, AgendaInv
  <2>3. <<>> \o <<z>> = <<z>>
    OBVIOUS
  <2>4. <<x, y, z>> = <<x, y>> \o <<z>>
    OBVIOUS
  <2>5. <<z>> \o <<>> = <<z>> /\ <<x, y, z>> \o <<>> = <<x, y, z>>
    OBVIOUS
  <2> QED  BY <2>2, <2>3, <2>4, <2>5, Zenon
<1>5. None \notin Conns /\ None \notin Clients
  BY SearchStateAssumption
<1>6. /\ c = None => \A d \in Clients : conn[d] # k
      /\ c # None => c \in Clients /\ conn[c] = k
  BY <1>1, <1>2, <1>5 DEF ClientInv, OwnInv, TypeInv, DataInv
<1> HIDE DEF k, c
<1>7. CASE c = None
  <2>1. Phased(<<z>>) /\ Ended(<<z>>) /\ Undone(<<z>>)
    BY <1>6, <1>7 DEF Phased, Ended, Undone
  <2>2. agenda'[t] = <<z>> /\ <<z>> # <<>> /\ <<z>>[1][1] = "free"
    BY <1>4, <1>7
  <2>3. <<z>> \in Seq(Items(t))
    BY <1>1, <2>2, Sole DEF ClientInv, AgendaInv
  <2>4. Undone(agenda[t])'
    BY <1>3, <2>1, <2>2 DEF Undone, OtherData
  <2>5. HandlerInv' /\ ActiveInv' /\ \A d : ~Taken("drop", d)'
    BY <1>1, <2>1, <2>2, <2>3, <2>4, UndoMoves
  <2>6. RefInv'
    BY <1>1, <1>3, <2>5 DEF ClientInv, RefInv, One, OtherData
  <2>7. OwnInv'
    BY <1>2, <1>3 DEF ClientInv, OwnInv, OtherData
  <2> QED  BY <2>5, <2>6, <2>7 DEF ClientInv
<1>8. CASE c # None
  <2> DEFINE ops == <<x, y, z>>
  <2>1. /\ Len(ops) = 3 /\ ops[1][1] = "client_disconnect" /\ ops[2][1] = "unset_connection"
        /\ ops[3][1] = "free" /\ ops[2][2] = c /\ ops[3][2] = k /\ ops # <<>>
    OBVIOUS
  <2>2. agenda'[t] = ops
    BY <1>4, <1>8
  <2> HIDE DEF ops, x, y, z
  <2>3. Rank(ops[1]) = 0 /\ Rank(ops[2]) = 0 /\ Rank(ops[3]) = 0
    BY <2>1 DEF Rank
  <2>4. Phased(ops)
    BY <2>1, <2>3 DEF Phased, PhaseSetOps
  <2>5. Ended(ops)
    BY <2>1 DEF Ended, UndoConnOps
  <2>6. owner[k] = c /\ conn[c] = k
    BY <1>6, <1>8 DEF c
  <2>7. Undone(agenda[t])'
    <3>1. \A i \in 1 .. Len(ops) - 1 : ops[i][1] = "unset_connection" => i = 2 /\ i + 1 = 3
      BY <2>1
    <3>2. owner' = owner /\ conn' = conn
      BY <1>3 DEF OtherData
    <3>3. \A i \in 1 .. Len(ops) - 1 : ops[i][1] = "unset_connection" =>
              owner'[ops[i + 1][2]] = ops[i][2] /\ conn'[ops[i][2]] = ops[i + 1][2]
      BY <2>1, <2>6, <3>1, <3>2
    <3> QED  BY <2>1, <2>2, <3>3 DEF Undone
  <2>8. ops \in Seq(Items(t))
    BY <1>1, <2>2, Sole DEF ClientInv, AgendaInv
  <2>9. HandlerInv' /\ ActiveInv' /\ \A d : ~Taken("drop", d)'
    BY <1>1, <2>1, <2>2, <2>4, <2>5, <2>7, <2>8, UndoMoves
  <2>10. RefInv'
    BY <1>1, <1>3, <2>9 DEF ClientInv, RefInv, One, OtherData
  <2>11. OwnInv'
    BY <1>2, <1>3 DEF ClientInv, OwnInv, OtherData
  <2> QED  BY <2>9, <2>10, <2>11 DEF ClientInv
<1> QED  BY <1>7, <1>8

LEMMA UnsetKeeps ==
    ASSUME TypeInv, ClientInv, NEW t \in Threads, UnsetConnection(t)
    PROVE  ClientInv'
<1> DEFINE c == Arg(t)
           a == agenda[t]
           z == a[2]
           k == z[2]
<1>1. /\ Undoes(t) /\ Step(t) /\ Does(t, "unset_connection") /\ c \in Clients
      /\ a \in Seq(Items(t)) /\ a # <<>> /\ Len(a) = 2 /\ z[1] = "free"
      /\ a[1][2] = c /\ a[1] = Head(a)
      /\ \A d : ~Taken("detach", d) /\ ~Taken("drop", d)
  BY UndoHeads DEF Undoes, UnsetConnection
<1>2. \A j : ~Freeing(j)
  BY <1>1, Sole DEF Does, ClientInv
<1>3. /\ conn' = [conn EXCEPT ![c] = None] /\ ref' = [ref EXCEPT ![c] = @ - 1]
      /\ UNCHANGED <<active, cached, sess, owner, alive>>
  BY DEF UnsetConnection, sessionVars, connVars
<1>4. owner[k] = c /\ conn[c] = k /\ z \in Items(t)
  <2>1. Undone(a) /\ 1 \in 1 .. Len(a) - 1 /\ 1 + 1 = 2 /\ 2 \in 1 .. Len(a)
    BY <1>1 DEF ClientInv, HandlerInv
  <2>2. a[1][1] = "unset_connection"
    BY <1>1 DEF Does
  <2>3. z \in Items(t)
    BY <1>1, <2>1
  <2> HIDE DEF a
  <2> QED  BY <1>1, <2>1, <2>2, <2>3 DEF Undone
<1>5. k \in Conns
  BY <1>1, <1>4, ItemArgs DEF UndoConnOps
<1> DEFINE ops == Tail(a)
<1>6. /\ ops \in Seq(Items(t)) /\ Len(ops) = 1 /\ ops[1] = z /\ ops # <<>>
      /\ agenda'[t] = ops
  <2>1. agenda'[t] = <<>> \o Tail(a)
    BY DEF UnsetConnection, Done, Then, TypeInv, AgendaInv
  <2>2. /\ ops \in Seq(Items(t)) /\ Len(ops) = 1 /\ ops[1] = z /\ ops # <<>>
    BY <1>1, Tails
  <2> HIDE DEF a
  <2> QED  BY <2>1, <2>2
<1>7. None \notin Conns /\ None \notin Clients
  BY SearchStateAssumption
<1>8. conn \in [Clients -> Conns \cup {None}] /\ owner \in [Conns -> Clients \cup {None}]
  BY DEF TypeInv, DataInv
<1>9. \A d \in Clients : conn[d] = k => d = c
  BY <1>4, <1>5, <1>7 DEF ClientInv, OwnInv
<1> HIDE DEF c, a, z, k, ops
<1>10. ops[1][1] = "free" /\ ops[1][2] = k
  BY <1>1, <1>6 DEF k
<1>11. Phased(ops) /\ Ended(ops)
  BY <1>6, <1>10 DEF Phased, Ended
<1>12. \A d \in Clients : conn'[d] # k
  BY <1>1, <1>3, <1>5, <1>7, <1>8, <1>9
<1>13. Undone(agenda[t])'
  <2>1. 1 .. Len(ops) - 1 = {}
    BY <1>6
  <2>2. \A i \in 1 .. Len(ops) - 1 : FALSE
    BY <2>1
  <2> QED  BY <1>6, <1>10, <1>12, <2>2 DEF Undone
<1>14. HandlerInv' /\ ActiveInv' /\ (\A d : ~Taken("drop", d)') /\ \A j : Freeing(j)' <=> j = k
  BY <1>1, <1>6, <1>10, <1>11, <1>13, UndoMoves
<1>15. RefInv'
  <2>1. DOMAIN ref = Clients /\ \A d \in Clients : ref[d] = One(d \in cached) + One(conn[d] # None)
    BY <1>1 DEF ClientInv, RefInv, One
  <2>2. \A d \in Clients : ref'[d] = One(d \in cached) + One(conn'[d] # None)
    BY <1>1, <1>3, <1>4, <1>5, <1>7, <1>8, <2>1 DEF One
  <2> QED  BY <1>3, <1>14, <2>1, <2>2 DEF RefInv, One
<1>16. OwnInv'
  <2>1. \A d \in Clients : conn'[d] # None => conn'[d] \in alive' /\ owner'[conn'[d]] = d
    BY <1>1, <1>3, <1>8 DEF ClientInv, OwnInv
  <2>2. \A j \in Conns : owner'[j] # None => j \in alive' /\ (conn'[owner'[j]] = j \/ j = k)
    BY <1>1, <1>2, <1>3, <1>4, <1>8 DEF ClientInv, OwnInv
  <2> QED  BY <1>14, <2>1, <2>2 DEF OwnInv
<1> QED  BY <1>14, <1>15, <1>16 DEF ClientInv

LEMMA FreeKeeps ==
    ASSUME TypeInv, ClientInv, NEW t \in Threads, FreeConnection(t)
    PROVE  ClientInv'
<1> DEFINE k == Arg(t)
<1>1. /\ Undoes(t) /\ Step(t) /\ ~Does(t, "unset_connection") /\ k \in Conns
      /\ agenda[t] \in Seq(Items(t)) /\ agenda[t] # <<>> /\ Len(agenda[t]) = 1
      /\ agenda[t][1][1] = "free" /\ agenda[t][1][2] = k
      /\ \A d : ~Taken("detach", d) /\ ~Taken("drop", d)
  BY UndoHeads DEF Undoes, FreeConnection, Does
<1>2. \A j : Freeing(j) <=> j = k
  BY <1>1, Sole DEF FreeConnection, ClientInv
<1>3. /\ alive' = alive \ {k} /\ owner' = [owner EXCEPT ![k] = None]
      /\ UNCHANGED <<active, cached, sess, conn, ref>>
  BY DEF FreeConnection, sessionVars, clientVars
<1>4. \A c \in Clients : conn[c] # k
  BY <1>1 DEF ClientInv, HandlerInv, Undone
<1>5. agenda'[t] = <<>>
  <2>1. Tail(agenda[t]) = <<>>
    BY <1>1, Tails
  <2> QED  BY <2>1 DEF FreeConnection, Done, Then, TypeInv, AgendaInv
<1>6. HandlerInv' /\ ActiveInv' /\ (\A d : ~Taken("drop", d)') /\ \A j : ~Freeing(j)'
  <2>1. Undone(agenda[t])' /\ <<>> \in Seq(Items(t))
    BY <1>5 DEF Undone
  <2> QED  BY <1>1, <1>5, <2>1, EmptyAgenda, UndoMoves
<1>7. RefInv'
  BY <1>1, <1>3, <1>6 DEF ClientInv, RefInv, One
<1>8. OwnInv'
  <2>1. owner \in [Conns -> Clients \cup {None}]
    BY DEF TypeInv, DataInv
  <2>2. \A c \in Clients : conn'[c] # None => conn'[c] \in alive' /\ owner'[conn'[c]] = c
    BY <1>1, <1>3, <1>4, <2>1 DEF ClientInv, OwnInv, TypeInv, DataInv
  <2>3. \A j \in Conns : owner'[j] # None => j \in alive' /\ conn'[owner'[j]] = j
    BY <1>1, <1>2, <1>3, <2>1 DEF ClientInv, OwnInv
  <2> QED  BY <2>2, <2>3 DEF OwnInv
<1> QED  BY <1>6, <1>7, <1>8 DEF ClientInv

-----------------------------------------------------------------------------
(* A handler starts, and nothing else is under way                         *)

LEMMA StartKeeps ==
    ASSUME ~Threaded, TypeInv, ClientInv, UNCHANGED <<OtherData, ref>>, NEW t \in Threads, MayStart(t),
           NEW S, NEW pre \in Seq(S), \A i \in 1 .. Len(pre) : Tame(pre[i]),
           NEW z, Rank(z) = 0, z[1] \notin {"free", "unset_connection"}, Starts(t, pre \o <<z>>)
    PROVE  ClientInv'
<1> DEFINE ops == pre \o <<z>>
<1>1. \A u \in Threads : agenda[u] = <<>>
  BY DEF MayStart, Running
<1>2. agenda'[t] = ops /\ \A u \in Threads \ {t} : agenda'[u] = <<>>
  BY <1>1 DEF Starts, TypeInv, AgendaInv
<1>3. /\ Len(ops) = Len(pre) + 1 /\ Len(pre) \in Nat /\ ops[Len(pre) + 1] = z
      /\ \A i \in 1 .. Len(pre) : ops[i] = pre[i]
      /\ ops # <<>> /\ Head(ops) = ops[1]
  OBVIOUS
<1> HIDE DEF ops
<1>4. ASSUME NEW i \in 1 .. Len(ops)
      PROVE  /\ Rank(ops[i]) = 0 /\ ops[i][1] \notin {"free", "unset_connection"}
             /\ ops[i][1] \in UndoConnOps => i = Len(ops)
  <2>1. CASE i \in 1 .. Len(pre)
    BY <1>3, <2>1 DEF Tame, UndoNames, UndoConnOps
  <2>2. CASE i = Len(pre) + 1
    BY <1>3, <2>2
  <2> QED  BY <1>3, <2>1, <2>2
<1>5. Phased(ops)
  BY <1>3, <1>4, RankValues DEF Phased, PhaseNames
<1>6. Ended(ops)
  BY <1>3, <1>4 DEF Ended
<1>7. 1 \in 1 .. Len(ops)
  BY <1>3
<1>8. Undone(agenda[t])'
  BY <1>2, <1>3, <1>4, <1>7 DEF Undone
<1>9. HandlerInv'
  <2>1. Alone'
    BY <1>2 DEF Alone, Running
  <2>2. \A u \in Threads \ {t} : Undone(agenda[u])'
    BY <1>2 DEF Undone
  <2> QED  BY <1>2, <1>5, <1>6, <1>8, <2>1, <2>2, EmptyAgenda DEF HandlerInv
<1>10. \A u \in Threads : Running(u)' =>
          Rank(Head(agenda'[u])) = 0 /\ Head(agenda'[u])[1] # "free"
  BY <1>2, <1>3, <1>4, <1>7 DEF Running
<1>11. /\ \A c : ~Taken("detach", c) /\ ~Taken("drop", c) /\ ~Taken("detach", c)' /\ ~Taken("drop", c)'
       /\ \A k : ~Freeing(k) /\ ~Freeing(k)'
  BY <1>1, <1>10 DEF Taken, Freeing, Does, Running, Rank
<1>12. ActiveInv'
  BY <1>10, <1>11 DEF ClientInv, ActiveInv, OtherData, Rank
<1>13. RefInv'
  BY <1>11 DEF ClientInv, RefInv, One, OtherData
<1>14. OwnInv'
  BY <1>11 DEF ClientInv, OwnInv, OtherData
<1> QED  BY <1>9, <1>12, <1>13, <1>14 DEF ClientInv

LEMMA CommandKeeps ==
    ASSUME ~Threaded, TypeInv, ClientInv, NEW h \in Chans, Command(h)
    PROVE  ClientInv'
<1>1. PICK pre \in Seq(Calm(h)), x \in For(h, h) : MayStart(h) /\ Starts(h, pre \o <<x>>)
  BY CommandStarts DEF Requesting
<1>2. Tame(x) /\ \A i \in 1 .. Len(pre) : Tame(pre[i])
  <2>1. \A i \in 1 .. Len(pre) : pre[i] \in Calm(h)
    OBVIOUS
  <2> QED  BY <2>1, TameItems
<1>3. UNCHANGED <<OtherData, ref>> /\ h \in Threads
  BY DEF Command, CmdSearch, CmdStop, CmdSettings, CmdRecord, CmdTermlist, CmdShow, Request,
         OtherData, sessionVars, clientVars, connVars, Threads
<1>4. Rank(x) = 0 /\ x[1] \notin {"free", "unset_connection"}
  BY <1>2 DEF Tame, UndoNames, UndoConnOps
<1> QED  BY <1>1, <1>2, <1>3, <1>4, StartKeeps

LEMMA ConnKeeps ==
    ASSUME ~Threaded, TypeInv, ClientInv, NEW k \in Conns, SocketEvent(k) \/ Timeout(k)
    PROVE  ClientInv'
<1> DEFINE c == owner[k]
           z == <<"connection_destroy", k>>
<1>1. UNCHANGED <<OtherData, ref>> /\ k \in Threads /\ MayStart(k)
  BY DEF SocketEvent, Timeout, OtherData, sessionVars, clientVars, connVars, Threads
<1>2. Rank(z) = 0 /\ z[1] \notin {"free", "unset_connection"}
  BY DEF Rank
<1>3. /\ Tame(Lock(c)) /\ Tame(Unlock(c)) /\ Tame(<<"expired", k>>)
      /\ Tame(<<"non_block_events", k>>)
  BY DEF Tame, Rank, Lock, Unlock, UndoNames, UndoConnOps
<1> DEFINE S == {Lock(c), Unlock(c), <<"expired", k>>, <<"non_block_events", k>>}
<1>4. \A x \in S : Tame(x)
  BY <1>3
<1>5. \A pre \in Seq(S) : \A i \in 1 .. Len(pre) : Tame(pre[i])
  <2>1. \A pre \in Seq(S) : \A i \in 1 .. Len(pre) : pre[i] \in S
    OBVIOUS
  <2> QED  BY <1>4, <2>1
<1>6. /\ <<>> \in Seq(S) /\ << Lock(c), <<"non_block_events", k>> >> \in Seq(S)
      /\ << Lock(c), <<"expired", k>>, Unlock(c) >> \in Seq(S)
  BY Short
<1>7. /\ \E pre \in Seq(S) : Starts(k, pre \o <<z>>) \/ Starts(k, pre \o <<Unlock(c)>>)
  <2>1. <<z>> = <<>> \o <<z>>
    OBVIOUS
  <2>2. LockedEvents(c, k) = << Lock(c), <<"non_block_events", k>> >> \o <<Unlock(c)>>
    BY DEF LockedEvents, Unlock
  <2>3. CASE SocketEvent(k)
    BY <1>6, <2>1, <2>2, <2>3 DEF SocketEvent
  <2>4. CASE Timeout(k)
    BY <1>6, <2>4 DEF Timeout
  <2> QED  BY <2>3, <2>4
<1> HIDE DEF S, z, c
<1>8. Rank(Unlock(c)) = 0 /\ Unlock(c)[1] \notin {"free", "unset_connection"}
  BY <1>3 DEF Tame, UndoNames, UndoConnOps
<1>9. PICK pre \in Seq(S) : Starts(k, pre \o <<z>>) \/ Starts(k, pre \o <<Unlock(c)>>)
  BY <1>7
<1>10. CASE Starts(k, pre \o <<z>>)
  BY <1>1, <1>2, <1>5, <1>10, StartKeeps
<1>11. CASE Starts(k, pre \o <<Unlock(c)>>)
  BY <1>1, <1>5, <1>8, <1>11, StartKeeps
<1> QED  BY <1>9, <1>10, <1>11

LEMMA ClientNext ==
    ASSUME ~Threaded, TypeInv, ClientInv, [Next]_vars
    PROVE  ClientInv'
<1>1. ASSUME NEW t \in Threads, Step(t) PROVE ClientInv'
  <2>1. CASE Clears(t)
    BY <2>1, SearchKeeps, ResetKeeps, DetachKeeps, DropCachedKeeps, DropKeeps, SelectKeeps DEF Clears
  <2>2. CASE Undoes(t)
    BY <2>2, DestroyKeeps, UnsetKeeps, FreeKeeps DEF Undoes
  <2>3. CASE ~Clears(t) /\ ~Undoes(t)
    BY <1>1, <2>3, TameData, QuietStep, CreateKeeps, StopKeeps
  <2> QED  BY <2>1, <2>2, <2>3
<1>2. ASSUME UNCHANGED <<agenda, OtherData, ref>> PROVE ClientInv'
  <2>1. HandlerInv'
    BY <1>2 DEF ClientInv, HandlerInv, Alone, Running, Undone, OtherData
  <2>2. /\ \A op, c : Taken(op, c)' <=> Taken(op, c)
        /\ \A k : Freeing(k)' <=> Freeing(k)
    BY <1>2 DEF Taken, Freeing, Does, Running, Arg
  <2>3. ActiveInv'
    BY <1>2, <2>2 DEF ClientInv, ActiveInv, Running, OtherData
  <2>4. RefInv'
    BY <1>2, <2>2 DEF ClientInv, RefInv, One, OtherData
  <2>5. OwnInv'
    BY <1>2, <2>2 DEF ClientInv, OwnInv, OtherData
  <2> QED  BY <2>1, <2>3, <2>4, <2>5 DEF ClientInv
<1>3. ASSUME NEW h \in Chans, ChannelDestroy(h) PROVE ClientInv'
  BY <1>2, <1>3 DEF ChannelDestroy, OtherData, clientVars, connVars
<1>4. CASE UNCHANGED vars
  BY <1>2, <1>4 DEF vars, sessionVars, clientVars, connVars, OtherData
<1> QED  BY <1>1, <1>3, <1>4, CommandKeeps, ConnKeeps DEF Next

LEMMA ClientInit ==
    ASSUME Init
    PROVE  ClientInv
<1>1. \A t \in Threads : agenda[t] = <<>>
  BY DEF Init
<1>2. HandlerInv
  BY <1>1, EmptyAgenda DEF HandlerInv, Alone, Running
<1>3. (\A op, c : ~Taken(op, c)) /\ \A k : ~Freeing(k)
  BY <1>1 DEF Taken, Freeing, Does, Running
<1>4. ActiveInv
  BY <1>1, <1>3 DEF Init, ActiveInv, Running
<1>5. RefInv
  BY <1>3 DEF Init, RefInv, One
<1>6. OwnInv
  BY <1>3 DEF Init, OwnInv
<1> QED  BY <1>2, <1>4, <1>5, <1>6 DEF ClientInv

LEMMA ClientSafety ==
    ASSUME ~Threaded
    PROVE  Spec => [](TypeInv /\ ClientInv)
<1>1. Init => TypeInv /\ ClientInv
  BY TypeInit, ClientInit
<1>2. TypeInv /\ ClientInv /\ [Next]_vars => (TypeInv /\ ClientInv)'
  BY TypeStep, ClientNext
<1> QED  BY <1>1, <1>2, PTL DEF Spec

LEMMA QuietFacts ==
    ASSUME TypeInv, ClientInv
    PROVE  Sessionship /\ RefExact /\ Ownership
<1>1. SUFFICES ASSUME Quiet PROVE Sessionship /\ RefExact /\ Ownership
  BY DEF Sessionship, RefExact, Ownership
<1>2. (\A op, c : ~Taken(op, c)) /\ \A k : ~Freeing(k)
  BY <1>1 DEF Quiet, Taken, Freeing, Does
<1>3. Sessionship
  BY <1>2 DEF ClientInv, ActiveInv, Sessionship
<1>4. RefExact
  BY <1>2 DEF ClientInv, RefInv, RefExact, One
<1>5. Ownership
  BY <1>2 DEF ClientInv, OwnInv, Ownership, TypeInv, DataInv
<1> QED  BY <1>3, <1>4, <1>5

(* Whatever searches, stops, answers, failures and timeouts come in        *)
(* whatever order, a client brings records and releases watches when and   *)
(* only when it takes part in the search that came last, and the session   *)
(* keeps it (session_reset_active_clients, session_remove_cached_clients). *)
THEOREM SessionshipAlways ==
    ASSUME ~Threaded
    PROVE  Spec => []Sessionship
<1>1. TypeInv /\ ClientInv => Sessionship
  BY QuietFacts
<1> QED  BY <1>1, ClientSafety, PTL

(* A client is freed by the last who lets go of it, be it the session that *)
(* drops it or its connection that is destroyed or released, and never     *)
(* before (client.c client_incref, client_destroy).                        *)
THEOREM RefExactAlways ==
    ASSUME ~Threaded
    PROVE  Spec => []RefExact
<1>1. TypeInv /\ ClientInv => RefExact
  BY QuietFacts
<1> QED  BY <1>1, ClientSafety, PTL

(* And the two ends of every connection agree: none is left to a client    *)
(* that does not know it, or has a client that was given another           *)
(* (connection_destroy, connection_release2, client_set_connection).       *)
THEOREM OwnershipAlways ==
    ASSUME ~Threaded
    PROVE  Spec => []Ownership
<1>1. TypeInv /\ ClientInv => Ownership
  BY QuietFacts
<1> QED  BY <1>1, ClientSafety, PTL

-----------------------------------------------------------------------------
(* Active clients and their connections                                    *)

EndInv ==
    /\ DOMAIN state = Clients /\ DOMAIN busy = Conns
    /\ \A c \in Clients : IsActive(c) => busy[conn[c]] # "idle"

(* What a link has to do is over when it is done or fails, not before.     *)
LEMMA NotIdle ==
    /\ \A b : (IF b \in DOMAIN Added THEN Added[b] ELSE b) # "idle"
    /\ \A b \in DOMAIN Sent : Sent[b] # "idle"
    /\ \A b \in DOMAIN Received : Received[b] # "idle"
  BY DEF Added, Sent, Received

LEMMA EndClient ==
    ASSUME TypeInv, ClientInv, EndInv, NEW t \in Threads, ClientStep(t)
    PROVE  EndInv'
<1>1. conn \in [Clients -> Conns \cup {None}] /\ owner \in [Conns -> Clients \cup {None}]
  BY DEF TypeInv, DataInv
<1>2. Head(agenda[t]) \in Items(t) /\ Step(t)
  BY Sole, HeadKinds DEF Step, ClientInv
<1>3. /\ Does(t, "non_block_events") \/ Does(t, "expired") \/ Does(t, "free") => Arg(t) \in Conns
      /\ Does(t, "client_start_search") \/ Does(t, "search") => Arg(t) \in Clients
  BY <1>2, ItemArgs DEF Does, Arg, LoopConnOps, UndoConnOps, CommandClientOps
<1>4. None \notin Conns /\ None \notin Clients
  BY SearchStateAssumption
<1>5. \A d \in Clients : conn[d] # None => owner[conn[d]] = d
  BY DEF ClientInv, OwnInv
<1>6. ASSUME UNCHANGED <<state, conn, busy>> PROVE EndInv'
  BY <1>6 DEF EndInv, IsActive
(* A connection reports, and its client with it.                           *)
<1>7. ASSUME NEW k \in Conns, NEW b, busy' = [busy EXCEPT ![k] = b], conn' = conn,
             NEW st, owner[k] # None, state' = [state EXCEPT ![owner[k]] = st],
             st \in Busy => b # "idle" /\ conn[owner[k]] = k
      PROVE  EndInv'
  <2>1. SUFFICES ASSUME NEW d \in Clients, IsActive(d)' PROVE busy[conn[d]]' # "idle"
    BY <1>7 DEF EndInv
  <2>2. conn[d] # None /\ conn[d] \in Conns /\ owner[conn[d]] = d
    BY <1>1, <1>5, <1>7, <2>1 DEF IsActive
  <2>3. CASE d = owner[k]
    BY <1>7, <2>1, <2>2, <2>3 DEF EndInv, IsActive
  <2>4. CASE d # owner[k]
    BY <1>7, <2>1, <2>2, <2>4 DEF EndInv, IsActive
  <2> QED  BY <2>3, <2>4
<1>8. ASSUME NEW c, NEW st, state' = [state EXCEPT ![c] = st], st \notin Busy, UNCHANGED <<conn, busy>>
      PROVE  EndInv'
  BY <1>8 DEF EndInv, IsActive
<1>9. "Idle" \notin Busy /\ "Error" \notin Busy /\ "Disconnected" \notin Busy
  BY DEF Busy
<1>10. CASE CreateConnection(t)
  <2>1. PICK k \in Conns \ alive :
          /\ busy' = [busy EXCEPT ![k] = "connecting"] /\ conn' = [conn EXCEPT ![Arg(t)] = k]
          /\ state' = [state EXCEPT ![Arg(t)] = "Connecting"]
    BY <1>10 DEF CreateConnection
  <2>2. Arg(t) \in Clients
    BY <1>3, <1>10 DEF CreateConnection
  <2> QED  BY <1>1, <2>1, <2>2 DEF EndInv, IsActive
<1>11. CASE ConnectFails(t)
  BY <1>8, <1>9, <1>11 DEF ConnectFails, connVars
<1>12. CASE StartSearch(t)
  <2>1. /\ conn' = conn /\ conn[Arg(t)] # None /\ state' = [state EXCEPT ![Arg(t)] = "Working"]
        /\ busy' = [busy EXCEPT ![conn[Arg(t)]] = IF @ \in DOMAIN Added THEN Added[@] ELSE @]
        /\ Arg(t) \in Clients
    BY <1>3, <1>12 DEF StartSearch, Queue
  <2> QED  BY <1>1, <2>1, NotIdle DEF EndInv, IsActive
<1>13. CASE IgnoredEvent(t)
  <2>1. /\ owner[Arg(t)] = None /\ busy' = [busy EXCEPT ![Arg(t)] = "idle"]
        /\ UNCHANGED <<state, conn>>
    BY <1>13 DEF IgnoredEvent, clientVars
  <2> QED  BY <1>1, <1>4, <1>5, <2>1 DEF EndInv, IsActive
<1>14. CASE SendApdu(t)
  <2>1. /\ Arg(t) \in Conns /\ busy[Arg(t)] \in DOMAIN Sent
        /\ busy' = [busy EXCEPT ![Arg(t)] = Sent[busy[Arg(t)]]] /\ conn' = conn
        /\ owner[Arg(t)] # None /\ state' = [state EXCEPT ![owner[Arg(t)]] = "Working"]
    BY <1>3, <1>14 DEF SendApdu, Event, SetState
  <2>2. ~Freeing(Arg(t))
    BY <1>2, <1>14, Sole DEF SendApdu, Event, Does, ClientInv
  <2>3. conn[owner[Arg(t)]] = Arg(t)
    BY <2>1, <2>2 DEF ClientInv, OwnInv
  <2>4. Sent[busy[Arg(t)]] # "idle"
    BY <2>1, NotIdle
  <2> QED  BY <1>7, <2>1, <2>3, <2>4, Zenon
<1>15. CASE RecvError(t)
  <2>1. /\ Arg(t) \in Conns
        /\ busy' = [busy EXCEPT ![Arg(t)] = Received[busy[Arg(t)]]] /\ conn' = conn
        /\ owner[Arg(t)] # None /\ state' = [state EXCEPT ![owner[Arg(t)]] = "Error"]
    BY <1>3, <1>15 DEF RecvError, Event, SetState
  <2> QED  BY <1>7, <1>9, <2>1, Zenon
<1>16. CASE RecvRecord(t)
  <2>1. /\ busy[Arg(t)] \in DOMAIN Received /\ UNCHANGED <<state, conn>>
        /\ busy' = [busy EXCEPT ![Arg(t)] = Received[busy[Arg(t)]]]
    BY <1>16 DEF RecvRecord, Event
  <2> QED  BY <1>1, <2>1, NotIdle DEF EndInv, IsActive
<1>17. CASE End(t)
  BY <1>3, <1>7, <1>9, <1>17 DEF End, Event, SetState
<1>18. CASE Expired(t)
  BY <1>3, <1>6, <1>7, <1>9, <1>18 DEF Expired, SetState
<1>19. CASE ClientDisconnect(t)
  BY <1>6, <1>8, <1>9, <1>19 DEF ClientDisconnect, SetState, connVars
<1>20. CASE UnsetConnection(t)
  <2>1. UNCHANGED <<state, busy>> /\ conn' = [conn EXCEPT ![Arg(t)] = None]
    BY <1>20 DEF UnsetConnection, connVars
  <2> QED  BY <1>1, <2>1 DEF EndInv, IsActive
<1>21. CASE FreeConnection(t)
  <2>1. busy' = [busy EXCEPT ![Arg(t)] = "idle"] /\ UNCHANGED <<state, conn>>
    BY <1>21 DEF FreeConnection, clientVars
  <2>2. \A c \in Clients : conn[c] # Arg(t)
    <3>1. Undoes(t) /\ Does(t, "free")
      BY <1>21 DEF Undoes, FreeConnection
    <3>2. agenda[t] # <<>> /\ agenda[t][1][1] = "free" /\ agenda[t][1][2] = Arg(t)
      BY <3>1, UndoHeads DEF Does
    <3> QED  BY <3>2 DEF ClientInv, HandlerInv, Undone
  <2> QED  BY <1>1, <2>1, <2>2 DEF EndInv, IsActive
<1> QED
  BY <1>6, <1>10, <1>11, <1>12, <1>13, <1>14, <1>15, <1>16, <1>17, <1>18, <1>19, <1>20, <1>21
  DEF ClientStep, ClientLock, ClientUnlock, ReuseConnection, NoMoreEvents, GotRecords,
      PreferredCheck, RecordsCheck, ConnectionDestroy, clientVars, connVars

LEMMA EndSession ==
    ASSUME TypeInv, EndInv, NEW t \in Threads, SessionStep(t)
    PROVE  EndInv'
<1>1. conn \in [Clients -> Conns \cup {None}] /\ "Disconnected" \notin Busy /\ "Error" \notin Busy
  BY DEF TypeInv, DataInv, Busy
<1>2. CASE UNCHANGED <<state, conn, busy>>
  BY <1>2 DEF EndInv, IsActive
<1>3. ASSUME NEW c, NEW st, state' = [state EXCEPT ![c] = st], st \notin Busy, UNCHANGED <<conn, busy>>
      PROVE  EndInv'
  BY <1>3 DEF EndInv, IsActive
<1>4. CASE SelectTargets(t)
  <2>1. PICK S : state' = [c \in Clients |-> IF c \in S \ cached THEN "Disconnected" ELSE state[c]]
    BY <1>4 DEF SelectTargets, Selects
  <2>2. UNCHANGED <<conn, busy>>
    BY <1>4 DEF SelectTargets, connVars
  <2> QED  BY <1>1, <2>1, <2>2 DEF EndInv, IsActive
<1>5. CASE SearchClients(t)
  BY <1>1, <1>2, <1>3, <1>5 DEF SearchClients, SetState, connVars
<1>6. CASE ClientStop(t)
  <2>1. busy' = busy
    BY <1>6 DEF ClientStop
  <2>2. \/ UNCHANGED <<state, conn>>
        \/ \E c : /\ state' = [state EXCEPT ![c] = "Disconnected"]
                  /\ conn' = conn \/ conn' = [conn EXCEPT ![c] = None]
    BY <1>6 DEF ClientStop
  <2> QED  BY <1>1, <1>2, <2>1, <2>2 DEF EndInv, IsActive
<1>7. CASE FetchMore(t)
  <2>1. conn' = conn
    BY <1>7 DEF FetchMore
  <2>2. \/ UNCHANGED <<state, busy>>
        \/ \E c : /\ conn[c] # None /\ state' = [state EXCEPT ![c] = "Working"]
                  /\ busy' = [busy EXCEPT ![conn[c]] = IF @ \in DOMAIN Added THEN Added[@] ELSE @]
    BY <1>7 DEF FetchMore, Queue
  <2> QED  BY <1>1, <1>2, <2>1, <2>2, NotIdle DEF EndInv, IsActive
<1> QED
  BY <1>2, <1>4, <1>5, <1>6, <1>7
  DEF SessionStep, SessionSearch, ResetActive, Detach, DropCached, Drop, Started, SessionSort,
      SortClients, SessionStop, StopClients, SessionAlertWatch, ShowRecords, FetchedMore, ShowAgain,
      ShowRecord, RecordWatch, SessionSetWatch, clientVars, connVars

LEMMA EndNext ==
    ASSUME ~Threaded, TypeInv, ClientInv, EndInv, [Next]_vars
    PROVE  EndInv'
<1>1. ASSUME UNCHANGED <<state, conn, busy>> PROVE EndInv'
  BY <1>1 DEF EndInv, IsActive
<1>2. ASSUME NEW t \in Threads, CommandStep(t) PROVE UNCHANGED <<state, conn, busy>>
  BY <1>2 DEF CommandStep, ApplySetting, ShowDecides, ShowWaits, TermlistDecides, TermlistWaits,
      Respond, SessionSetWatch, clientVars, connVars
<1>3. ASSUME NEW t \in Threads, Step(t) PROVE EndInv'
  BY <1>1, <1>2, <1>3, EndClient, EndSession DEF Step
<1>4. ASSUME NEW h \in Chans, Command(h) \/ ChannelDestroy(h)
      PROVE  UNCHANGED <<state, conn, busy>>
  BY <1>4 DEF Command, CmdSearch, CmdStop, CmdSettings, CmdRecord, CmdTermlist, CmdShow, Request,
      ChannelDestroy, clientVars, connVars
<1>5. ASSUME NEW k \in Conns, SocketEvent(k) \/ Timeout(k)
      PROVE  UNCHANGED <<state, conn, busy>>
  BY <1>5 DEF SocketEvent, Timeout, clientVars, connVars
<1>6. CASE UNCHANGED vars
  BY <1>1, <1>6 DEF vars, clientVars, connVars
<1> QED  BY <1>1, <1>3, <1>4, <1>5, <1>6 DEF Next

(* An active client always has a connection with work to do, so something  *)
(* will be heard of it: a command that waits for the active clients waits  *)
(* for a link that ends, fails or times out (client_is_active,             *)
(* client_start_search, non_block_events, client_stop).                    *)
THEOREM ActiveWillEndAlways ==
    ASSUME ~Threaded
    PROVE  Spec => []ActiveWillEnd
<1>1. Init => EndInv
  BY DEF Init, EndInv, IsActive
<1>2. TypeInv /\ ClientInv /\ EndInv /\ [Next]_vars => EndInv'
  BY EndNext
<1>3. EndInv => ActiveWillEnd
  BY DEF EndInv, ActiveWillEnd
<1> QED  BY <1>1, <1>2, <1>3, ClientSafety, PTL DEF Spec

-----------------------------------------------------------------------------
(* The clients that a handler touches                                      *)

(* Those that stay while it runs: for a command the cached ones, for the   *)
(* handler of a connection also the one that has it.                       *)
Keeper(t) == IF t \in Chans THEN cached ELSE cached \cup {c \in Clients : conn[c] # None}

(* Item x touches clients of K only, now or later, o being the owners.     *)
Safe(K, o, x) ==
    /\ x[1] # "drop" => Touches(x) \subseteq K
    /\ x[1] \in LoopConnOps => o[x[2]] \in K \cup {None}

(* A search that gives up clients does nothing with them after it.         *)
Clearing(x) == Rank(x) > 0 \/ x[1] = "session_search"
Bare(x) == x[1] \in {"drop_cached", "select_targets", "reply"}
Cleared(a) == \A i, j \in 1 .. Len(a) : i < j /\ Clearing(a[i]) => Bare(a[j])

StaleInv ==
    \A t \in Threads :
        /\ Cleared(agenda[t])
        /\ \A i \in 1 .. Len(agenda[t]) : Safe(Keeper(t), owner, agenda[t][i])

(* What may be left to do at any time.                                     *)
Good(t, K, o) == {x \in Items(t) : ~Clearing(x) /\ Safe(K, o, x)}

(* What is left to do by one or two others only, and by whom.              *)
RareCalls ==
    {<<"show_records", "session_fetch_more">>, <<"session_fetch_more", "session_fetch_more">>,
     <<"session_stop", "stop_clients">>, <<"stop_clients", "client_stop">>,
     <<"client_stop", "client_stop">>, <<"cmd_show", "show_watch">>,
     <<"cmd_termlist", "termlist_watch">>, <<"session_fetch_more", "show_again">>,
     <<"select_targets", "search_clients">>, <<"search_clients", "search_clients">>,
     <<"connection_destroy", "unset_connection">>}
Rare == {"session_fetch_more", "search_clients", "stop_clients", "client_stop", "cmd_show", "show_watch",
         "cmd_termlist", "termlist_watch", "show_again", "unset_connection"}
Left(op, P) == {x \in P : x[1] \in Rare => <<op, x[1]>> \in RareCalls}

LEMMA ClearedMove ==
    ASSUME NEW S, NEW a \in Seq(S), a # <<>>, NEW ops \in Seq(S), Cleared(a), Cleared(ops),
           (\E i \in 1 .. Len(ops) : Clearing(ops[i])) => Clearing(a[1])
    PROVE  Cleared(ops \o Tail(a))
<1> DEFINE b == ops \o Tail(a)
           n == Len(ops)
<1>1. /\ Len(b) = n + Len(a) - 1
      /\ \A i \in 1 .. n : b[i] = ops[i]
      /\ \A i \in n + 1 .. n + Len(a) - 1 : b[i] = a[i - n + 1]
      /\ Len(a) \in Nat \ {0} /\ n \in Nat
  BY ThenSeq
<1> HIDE DEF b
<1> SUFFICES ASSUME NEW i \in 1 .. Len(b), NEW j \in 1 .. Len(b), i < j, Clearing(b[i])
             PROVE  Bare(b[j])
  BY DEF Cleared, b
<1> HIDE DEF n
<1>2. CASE j <= n
  <2>1. b[i] = ops[i] /\ b[j] = ops[j] /\ i \in 1 .. Len(ops) /\ j \in 1 .. Len(ops)
    BY <1>1, <1>2 DEF n
  <2> QED  BY <2>1 DEF Cleared
<1>3. CASE i <= n /\ j > n
  <2>1. Clearing(a[1])
    <3>1. b[i] = ops[i] /\ i \in 1 .. Len(ops)
      BY <1>1, <1>3 DEF n
    <3> QED  BY <3>1
  <2>2. b[j] = a[j - n + 1] /\ j - n + 1 \in 1 .. Len(a) /\ 1 < j - n + 1 /\ 1 \in 1 .. Len(a)
    BY <1>1, <1>3
  <2> QED  BY <2>1, <2>2 DEF Cleared
<1>4. CASE i > n
  <2>1. /\ b[i] = a[i - n + 1] /\ b[j] = a[j - n + 1] /\ i - n + 1 < j - n + 1
        /\ i - n + 1 \in 1 .. Len(a) /\ j - n + 1 \in 1 .. Len(a)
    BY <1>1, <1>4
  <2> QED  BY <2>1 DEF Cleared
<1> QED  BY <1>1, <1>2, <1>3, <1>4

(* A step that leaves ops to be done.                                      *)
LEMMA StaleMove ==
    ASSUME TypeInv, HandlerInv, StaleInv, NEW t \in Threads, Step(t),
           NEW ops \in Seq(Items(t)), Then(t, ops), Cleared(ops),
           (\E i \in 1 .. Len(ops) : Clearing(ops[i])) => Clearing(Head(agenda[t])),
           \A i \in 1 .. Len(ops) : Safe(Keeper(t)', owner', ops[i]),
           \A i \in 2 .. Len(agenda[t]) : Safe(Keeper(t)', owner', agenda[t][i])
    PROVE  StaleInv'
<1> DEFINE a == agenda[t]
           b == ops \o Tail(a)
           K == Keeper(t)'
<1>1. /\ a \in Seq(Items(t)) /\ a # <<>> /\ Head(a) = a[1] /\ Running(t) /\ AgendaInv
      /\ \A u \in Threads \ {t} : agenda'[u] = <<>>
  BY Sole DEF TypeInv
<1>2. agenda'[t] = b
  BY <1>1, AgendaMoves
<1>3. Cleared(a)
  BY DEF StaleInv
<1> HIDE DEF K
<1>4. Cleared(b)
  <2> HIDE DEF a
  <2> QED  BY <1>1, <1>3, ClearedMove DEF a
<1>5. ASSUME NEW i \in 1 .. Len(b) PROVE Safe(K, owner', b[i])
  <2>1. /\ Len(b) = Len(ops) + Len(a) - 1
        /\ \A j \in 1 .. Len(ops) : b[j] = ops[j]
        /\ \A j \in Len(ops) + 1 .. Len(ops) + Len(a) - 1 : b[j] = a[j - Len(ops) + 1]
        /\ Len(a) \in Nat \ {0} /\ Len(ops) \in Nat
    BY <1>1, ThenSeq
  <2> HIDE DEF b, a
  <2>2. CASE i <= Len(ops)
    BY <2>1, <2>2 DEF K
  <2>3. CASE i > Len(ops)
    <3>1. b[i] = a[i - Len(ops) + 1] /\ i - Len(ops) + 1 \in 2 .. Len(a)
      BY <2>1, <2>3
    <3> QED  BY <3>1 DEF a, K
  <2> QED  BY <2>1, <2>2, <2>3
<1> HIDE DEF b
<1>6. \A i \in 1 .. Len(agenda'[t]) : Safe(K, owner', agenda'[t][i])
  BY <1>2, <1>5
<1>7. ASSUME NEW u \in Threads \ {t}
      PROVE  Cleared(agenda'[u]) /\ \A i \in 1 .. Len(agenda'[u]) : Safe(Keeper(u)', owner', agenda'[u][i])
  BY <1>1 DEF Cleared
<1> QED  BY <1>2, <1>4, <1>6, <1>7 DEF StaleInv, K

(* The clients stay, and no connection gets another one.                   *)
Stays(t) ==
    /\ Keeper(t) \subseteq Keeper(t)'
    /\ \A k \in Conns : owner'[k] \in {owner[k], None} \cup Keeper(t)'

LEMMA SafeStays ==
    ASSUME NEW t, Stays(t), NEW x \in Items(t), Safe(Keeper(t), owner, x)
    PROVE  Safe(Keeper(t)', owner', x)
<1>1. x[1] \in LoopConnOps => x[2] \in Conns
  BY ItemArgs
<1> QED  BY <1>1 DEF Stays, Safe

LEMMA TailStays ==
    ASSUME TypeInv, StaleInv, NEW t \in Threads, Stays(t)
    PROVE  \A i \in 2 .. Len(agenda[t]) : Safe(Keeper(t)', owner', agenda[t][i])
<1> SUFFICES ASSUME NEW i \in 2 .. Len(agenda[t]) PROVE Safe(Keeper(t)', owner', agenda[t][i])
  OBVIOUS
<1> DEFINE a == agenda[t]
<1>1. a \in Seq(Items(t))
  BY DEF TypeInv, AgendaInv
<1> HIDE DEF a
<1>2. i \in 1 .. Len(a) /\ a[i] \in Items(t)
  BY <1>1 DEF a
<1>3. Safe(Keeper(t), owner, a[i])
  BY <1>2 DEF StaleInv, a
<1> QED  BY <1>2, <1>3, SafeStays DEF a

LEMMA GoodMove ==
    ASSUME TypeInv, HandlerInv, StaleInv, NEW t \in Threads, Step(t), Stays(t),
           PlainThen(t, Good(t, Keeper(t)', owner'))
    PROVE  StaleInv'
<1> DEFINE G == Good(t, Keeper(t)', owner')
<1>1. \A x \in G : x \in Items(t) /\ ~Clearing(x) /\ Safe(Keeper(t)', owner', x)
  BY DEF Good
<1> HIDE DEF G
<1>2. PICK ops \in Seq(G) : Then(t, ops)
  BY DEF PlainThen, G
<1>3. ops \in Seq(Items(t)) /\ \A i \in 1 .. Len(ops) : ops[i] \in G
  BY <1>1
<1>4. Cleared(ops)
  BY <1>1, <1>3 DEF Cleared
<1> QED  BY <1>1, <1>2, <1>3, <1>4, TailStays, StaleMove

(* Which items are good, K being the clients that stay.                    *)
LEMMA GoodLoop ==
    ASSUME NEW t, NEW K \in SUBSET Clients, NEW o
    PROVE  /\ <<"preferred_ready", None>> \in Good(t, K, o)
           /\ \A w \in Watches : Alert(w) \in Good(t, K, o)
           /\ AlertAll \in Seq(Good(t, K, o))
           /\ \A c \in K : /\ Lock(c) \in Good(t, K, o) /\ Unlock(c) \in Good(t, K, o)
                          /\ <<"records_ready", c>> \in Good(t, K, o)
           /\ \A k \in Conns : o[k] \in K \cup {None} =>
                 \A op \in LoopConnOps : <<op, k>> \in Good(t, K, o)
           /\ \A c \in K : \A k \in Conns : o[k] \in K \cup {None} =>
                 LockedEvents(c, k) \in Seq(Good(t, K, o))
<1>1. \A x \in Loop : x \in Items(t) /\ x[1] \in LoopNames
  BY CalmHas, KindNames DEF Items
<1>2. \A x : x[1] \in LoopNames => ~Clearing(x) /\ x[1] # "drop"
  BY DEF Clearing, Rank, LoopNames, LoopClientOps, LoopConnOps
<1>3. \A x : x[1] \in {"preferred_ready", "session_alert_watch"} => Safe(K, o, x)
  BY DEF Safe, Touches, TouchOps, TouchSetOps, LoopConnOps
<1>4. \A x : x[1] \in LoopClientOps /\ x[2] \in K => Safe(K, o, x)
  BY DEF Safe, Touches, TouchOps, TouchSetOps, LoopConnOps, LoopClientOps
<1>5. \A x : x[1] \in LoopConnOps /\ o[x[2]] \in K \cup {None} => Safe(K, o, x)
  BY DEF Safe, Touches, TouchOps, TouchSetOps, LoopConnOps
<1>6. <<"preferred_ready", None>> \in Good(t, K, o)
  <2>1. <<"preferred_ready", None>> \in Loop
    BY DEF Loop
  <2> QED  BY <1>1, <1>2, <1>3, <2>1 DEF Good
<1>7. \A w \in Watches : Alert(w) \in Good(t, K, o)
  <2>1. \A w \in Watches : Alert(w) \in Loop /\ Alert(w)[1] = "session_alert_watch"
    BY DEF Loop, Alert
  <2> QED  BY <1>1, <1>2, <1>3, <2>1 DEF Good
<1>8. \A c \in K : \A op \in LoopClientOps : <<op, c>> \in Good(t, K, o)
  <2>1. \A c \in K : \A op \in LoopClientOps : <<op, c>> \in Loop
    BY DEF Loop
  <2> QED  BY <1>1, <1>2, <1>4, <2>1 DEF Good
<1>9. \A k \in Conns : o[k] \in K \cup {None} =>
           \A op \in LoopConnOps : <<op, k>> \in Good(t, K, o)
  <2>1. \A k \in Conns : \A op \in LoopConnOps : <<op, k>> \in Loop
    BY DEF Loop
  <2> QED  BY <1>1, <1>2, <1>5, <2>1 DEF Good
<1> DEFINE G == Good(t, K, o)
<1>10. /\ \A w \in Watches : Alert(w) \in G
       /\ \A c \in K : Lock(c) \in G /\ Unlock(c) \in G /\ <<"records_ready", c>> \in G
       /\ \A k \in Conns : o[k] \in K \cup {None} => <<"non_block_events", k>> \in G
  BY <1>7, <1>8, <1>9 DEF Lock, Unlock, LoopClientOps, LoopConnOps
<1> HIDE DEF G
<1>11. AlertAll \in Seq(G)
  BY <1>10, Short DEF AlertAll, Watches
<1>12. \A c \in K : \A k \in Conns : o[k] \in K \cup {None} => LockedEvents(c, k) \in Seq(G)
  BY <1>10, Short DEF LockedEvents
<1> QED  BY <1>6, <1>7, <1>9, <1>10, <1>11, <1>12 DEF G

LEMMA GoodChan ==
    ASSUME NEW t \in Chans, NEW K \in SUBSET Clients, NEW o
    PROVE  /\ \A c \in K : \A op \in CommandClientOps : <<op, c>> \in Good(t, K, o)
           /\ \A S \in SUBSET K : \A op \in CommandSetOps : <<op, S>> \in Good(t, K, o)
           /\ \A op \in CommandOps \ {"session_search"} : <<op, None>> \in Good(t, K, o)
           /\ Start \in Good(t, K, o)
           /\ Own \subseteq Good(t, K, o)
<1>1. \A x \in Commanding \cup Own \cup {Start} : x \in Items(t)
  BY CalmHas DEF Items, For, Starters
<1>2. \A x : x[1] \in (CommandNames \ {"session_search"}) \cup OwnNames \cup {"started"}
                 => ~Clearing(x) /\ x[1] # "drop" /\ x[1] \notin LoopConnOps
  BY DEF Clearing, Rank, CommandNames, CommandOps, CommandClientOps, CommandSetOps, OwnNames,
         LoopConnOps
<1>3. \A x : x[1] \in (CommandOps \ {"session_search"}) \cup OwnNames \cup {"started"}
                 => Touches(x) = {}
  BY DEF Touches, TouchOps, TouchSetOps, CommandOps, OwnNames
<1>4. \A x : x[1] \in CommandClientOps => Touches(x) = {x[2]}
  BY DEF Touches, TouchOps, CommandClientOps
<1>5. \A x : x[1] \in CommandSetOps => Touches(x) = x[2]
  BY DEF Touches, TouchOps, TouchSetOps, CommandSetOps
<1>6. ASSUME NEW c \in K, NEW op \in CommandClientOps PROVE <<op, c>> \in Good(t, K, o)
  <2> DEFINE x == <<op, c>>
  <2>1. x \in Commanding /\ x[1] = op /\ x[2] = c /\ op \in CommandNames \ {"session_search"}
    BY DEF Commanding, CommandNames, CommandClientOps
  <2> HIDE DEF x
  <2>2. x \in Good(t, K, o)
    BY <1>1, <1>2, <1>4, <2>1 DEF Good, Safe
  <2> QED  BY <2>2 DEF x
<1>7. \A S \in SUBSET K : \A op \in CommandSetOps : <<op, S>> \in Good(t, K, o)
  <2>1. \A S \in SUBSET K : \A op \in CommandSetOps : <<op, S>> \in Commanding /\ op \in CommandNames
                                                 /\ op # "session_search"
    BY DEF Commanding, CommandNames, CommandSetOps
  <2> QED  BY <1>1, <1>2, <1>5, <2>1 DEF Good, Safe
<1>8. \A op \in CommandOps \ {"session_search"} : <<op, None>> \in Good(t, K, o)
  <2>1. \A op \in CommandOps : <<op, None>> \in Commanding /\ op \in CommandNames
    BY DEF Commanding, CommandNames
  <2> QED  BY <1>1, <1>2, <1>3, <2>1 DEF Good, Safe
<1>9. Start \in Good(t, K, o)
  <2>1. Start[1] = "started"
    BY DEF Start
  <2> QED  BY <1>1, <1>2, <1>3, <2>1 DEF Good, Safe
<1>10. Own \subseteq Good(t, K, o)
  BY <1>1, <1>2, <1>3, KindNames DEF Good, Safe
<1> QED  BY <1>6, <1>7, <1>8, <1>9, <1>10

LEMMA GoodAnswer ==
    ASSUME NEW t, NEW h \in Chans, NEW K \in SUBSET Clients, NEW o
    PROVE  /\ \A op \in AnswerOps \cup {"reply"} : <<op, h>> \in Good(t, K, o)
           /\ \A S \in SUBSET K, b \in BOOLEAN :
                 <<"session_fetch_more", <<h, S, b>> >> \in Good(t, K, o)
<1>1. \A x \in Answers(h) : x \in Items(t) /\ x[1] \in AnswerNames
  BY KindNames DEF Items, For
<1>2. \A x : x[1] \in AnswerNames => ~Clearing(x) /\ x[1] # "drop" /\ x[1] \notin LoopConnOps
  BY DEF Clearing, Rank, AnswerNames, AnswerOps, LoopConnOps
<1>3. \A x : x[1] \in AnswerOps => Touches(x) = {}
  BY DEF Touches, TouchOps, TouchSetOps, AnswerOps
<1>4. \A x : x[1] = "session_fetch_more" => Touches(x) = x[2][2]
  BY DEF Touches, TouchOps, TouchSetOps
<1>5. \A op \in AnswerOps \cup {"reply"} : <<op, h>> \in Answers(h) /\ op \in AnswerOps
  BY DEF Answers, AnswerOps
<1>6. \A S \in SUBSET K, b \in BOOLEAN : <<"session_fetch_more", <<h, S, b>> >> \in Answers(h)
  BY DEF Answers
<1> QED  BY <1>1, <1>2, <1>3, <1>4, <1>5, <1>6 DEF Good, Safe

LEMMA GoodConn ==
    ASSUME NEW t \in Conns, NEW K \in SUBSET Clients, NEW o
    PROVE  /\ \A c \in K : /\ <<"client_disconnect", c>> \in Good(t, K, o)
                          /\ <<"unset_connection", c>> \in Good(t, K, o)
           /\ \A k \in Conns : \A op \in UndoConnOps \cup {"expired"} : <<op, k>> \in Good(t, K, o)
<1>1. \A x \in Closing \cup Undoing : x \in Items(t) /\ x[1] \in CloseNames \cup UndoNames
  BY CalmHas, KindNames DEF Items
<1>2. \A x : x[1] \in CloseNames \cup UndoNames =>
               ~Clearing(x) /\ x[1] # "drop" /\ x[1] \notin LoopConnOps
  BY DEF Clearing, Rank, CloseNames, UndoNames, UndoConnOps, LoopConnOps
<1>3. \A x : x[1] \in {"client_disconnect", "unset_connection"} => Touches(x) = {x[2]}
  BY DEF Touches, TouchOps
<1>4. \A x : x[1] \in UndoConnOps \cup {"expired"} => Touches(x) = {}
  BY DEF Touches, TouchOps, TouchSetOps, UndoConnOps
<1>5. \A c \in K : <<"client_disconnect", c>> \in Closing /\ <<"unset_connection", c>> \in Undoing
  BY DEF Closing, Undoing
<1>6. \A k \in Conns : \A op \in UndoConnOps \cup {"expired"} : <<op, k>> \in Closing \cup Undoing
  BY DEF Closing, Undoing
<1> QED  BY <1>1, <1>2, <1>3, <1>4, <1>5, <1>6 DEF Good, Safe

LEMMA HeadSafe ==
    ASSUME TypeInv, ClientInv, StaleInv, NEW t \in Threads, Running(t)
    PROVE  /\ Safe(Keeper(t), owner, Head(agenda[t]))
           /\ active \subseteq cached /\ cached \subseteq Keeper(t) /\ Keeper(t) \subseteq Clients
<1>1. agenda[t] \in Seq(Items(t)) /\ agenda[t] # <<>>
  BY HeadKinds
<1>2. 1 \in 1 .. Len(agenda[t]) /\ Head(agenda[t]) = agenda[t][1]
  BY <1>1
<1>3. active \subseteq cached /\ cached \subseteq Keeper(t) /\ Keeper(t) \subseteq Clients
  BY DEF ClientInv, ActiveInv, Keeper, TypeInv, DataInv
<1> QED  BY <1>2, <1>3 DEF StaleInv

(* Most steps let the clients stay.                                        *)
LEMMA TameStays ==
    ASSUME TypeInv, ClientInv, StaleInv, NEW t \in Threads, Step(t), ~Clears(t), ~Undoes(t)
    PROVE  /\ Stays(t) /\ Keeper(t)' \in SUBSET Clients /\ active \in SUBSET (Keeper(t)')
           /\ t \in Chans => Keeper(t)' = Keeper(t)
           /\ ~CreateConnection(t) /\ ~ClientStop(t) => UNCHANGED OtherData
<1>1. Running(t)
  BY Sole DEF ClientInv
<1>2. Safe(Keeper(t), owner, Head(agenda[t])) /\ active \subseteq cached /\ cached \subseteq Keeper(t)
      /\ Keeper(t) \subseteq Clients
  BY <1>1, HeadSafe
<1>3. CASE UNCHANGED <<OtherData, ref>>
  BY <1>2, <1>3 DEF OtherData, Stays, Keeper
<1>4. CASE CreateConnection(t)
  <2>1. Arg(t) \in Clients /\ t \in Chans /\ Head(agenda[t])[1] = "client_start_search"
    <3>1. Head(agenda[t]) \in Items(t) /\ Head(agenda[t])[1] = "client_start_search"
      BY <1>1, <1>4, HeadKinds DEF CreateConnection, Does
    <3> QED  BY <3>1, ItemKinds, ItemArgs DEF Arg, CommandNames, CommandClientOps
  <2>2. Arg(t) \in Keeper(t)
    BY <1>2, <2>1 DEF Safe, Touches, TouchOps, Arg
  <2>3. /\ UNCHANGED <<active, cached>>
        /\ \E k : owner' = [owner EXCEPT ![k] = Arg(t)]
    BY <1>4 DEF CreateConnection, sessionVars
  <2>4. \A k \in Conns : owner'[k] \in {owner[k], Arg(t)}
    BY <2>3 DEF TypeInv, DataInv
  <2>5. Keeper(t)' = Keeper(t)
    BY <2>1, <2>3 DEF Keeper
  <2> QED  BY <1>2, <1>4, <2>2, <2>4, <2>5 DEF Stays
<1>5. CASE ClientStop(t)
  <2>1. t \in Chans
    <3>1. Head(agenda[t]) \in Items(t) /\ Head(agenda[t])[1] = "client_stop"
      BY <1>1, <1>5, HeadKinds DEF ClientStop, Does
    <3> QED  BY <3>1, ItemKinds DEF CommandNames, CommandSetOps
  <2>2. UNCHANGED <<active, cached>> /\ (UNCHANGED owner \/ \E k : owner' = [owner EXCEPT ![k] = None])
    BY <1>5 DEF ClientStop, Release2, sessionVars
  <2>3. \A k \in Conns : owner'[k] \in {owner[k], None}
    BY <2>2 DEF TypeInv, DataInv
  <2>4. Keeper(t)' = Keeper(t)
    BY <2>1, <2>2 DEF Keeper
  <2> QED  BY <1>2, <1>5, <2>3, <2>4 DEF Stays
<1> QED  BY <1>3, <1>4, <1>5, TameData

LEMMA SetStateLeaves ==
    ASSUME NEW P, AlertAll \in Seq(P), NEW t, NEW c, NEW st, NEW after \in Seq(P),
           SetState(t, c, st, after)
    PROVE  PlainThen(t, P)
<1> DEFINE ops == (IF Releases(c, st) THEN AlertAll ELSE <<>>) \o after
<1>1. ops \in Seq(P)
  <2>1. <<>> \in Seq(P)
    OBVIOUS
  <2> QED  BY <2>1
<1> QED  BY <1>1 DEF SetState, PlainThen

(* Loops do nothing rare.                                                   *)
LEMMA LeftLoop ==
    ASSUME NEW P, NEW op
    PROVE  /\ Left(op, P) \subseteq P
           /\ \A x \in P : x[1] \notin Rare => x \in Left(op, P)
           /\ \A w \in Watches : Alert(w) \in P => Alert(w) \in Left(op, P)
           /\ \A c : Lock(c) \in P => Lock(c) \in Left(op, P)
           /\ \A c : Unlock(c) \in P => Unlock(c) \in Left(op, P)
  BY DEF Left, Rare, Alert, Lock, Unlock

LEMMA ClientGood ==
    ASSUME TypeInv, ClientInv, StaleInv, NEW t \in Threads, ClientStep(t), ~Undoes(t)
    PROVE  PlainThen(t, Left(Head(agenda[t])[1], Good(t, Keeper(t)', owner')))
<1> DEFINE hd == Head(agenda[t])
           K == Keeper(t)'
           G == Good(t, K, owner')
           P == Left(hd[1], G)
<1>1. Step(t) /\ Running(t) /\ ~Clears(t)
  <2>1. Running(t)
    BY ClientOrdinary DEF Ordinary
  <2>2. hd[1] \notin PhaseNames \cup {"select_targets", "session_search"}
    BY DEF ClientStep, ClientLock, ClientUnlock, ReuseConnection, CreateConnection, ConnectFails,
         StartSearch, NoMoreEvents, IgnoredEvent, SendApdu, RecvError, RecvRecord, End, GotRecords,
         PreferredCheck, RecordsCheck, Expired, ConnectionDestroy, ClientDisconnect,
         UnsetConnection, FreeConnection, Does, Event, PhaseNames, PhaseOps, PhaseSetOps
  <2> QED  BY <2>1, <2>2
           DEF Step, Clears, SessionSearch, ResetActive, Detach, DropCached, Drop, SelectTargets,
               Does, PhaseNames, PhaseOps, PhaseSetOps
<1>2. hd \in Items(t) /\ hd = <<hd[1], Arg(t)>> /\ Safe(Keeper(t), owner, hd)
  BY <1>1, HeadKinds, HeadSafe
<1>3. /\ K \in SUBSET Clients /\ Keeper(t) \subseteq K
      /\ \A k \in Conns : owner'[k] \in {owner[k], None} \cup K
      /\ ~CreateConnection(t) /\ ~ClientStop(t) => owner' = owner
  BY <1>1, TameStays DEF Stays, OtherData
<1>4. /\ hd[1] \in TouchOps => Arg(t) \in K
      /\ hd[1] \in LoopConnOps => Arg(t) \in Conns /\ owner'[Arg(t)] \in K \cup {None}
                                /\ owner[Arg(t)] \in K \cup {None}
  <2>1. hd[1] \in TouchOps => Arg(t) \in Keeper(t)
    BY <1>2 DEF Safe, Touches, TouchOps, Arg
  <2>2. hd[1] \in LoopConnOps => Arg(t) \in Conns /\ owner[Arg(t)] \in Keeper(t) \cup {None}
    BY <1>2, ItemArgs DEF Safe, Arg
  <2> QED  BY <1>3, <2>1, <2>2
<1>40. /\ <<"preferred_ready", None>> \in G
       /\ \A w \in Watches : Alert(w) \in G
       /\ \A c \in K : Lock(c) \in G /\ Unlock(c) \in G /\ <<"records_ready", c>> \in G
       /\ \A k \in Conns : owner'[k] \in K \cup {None} =>
             <<"non_block_events", k>> \in G /\ <<"client_got_records", k>> \in G
       /\ t \in Chans => \A c \in K : <<"search", c>> \in G
  BY <1>3, GoodLoop, GoodChan DEF LoopConnOps, CommandClientOps
<1> HIDE DEF K, G
<1>48. \A x \in G : x[1] \in {"preferred_ready", "records_ready", "non_block_events",
                            "client_got_records", "search"} => x \in P
  BY LeftLoop DEF Rare
<1>49. /\ \A w \in Watches : Alert(w) \in P
       /\ \A c \in K : Lock(c) \in P /\ Unlock(c) \in P
  <2>1. /\ \A w \in Watches : Alert(w) \in G => Alert(w) \in P
        /\ \A c \in K : Lock(c) \in G => Lock(c) \in P
        /\ \A c \in K : Unlock(c) \in G => Unlock(c) \in P
    BY LeftLoop, Zenon
  <2> HIDE DEF P
  <2> QED  BY <1>40, <2>1
<1> HIDE DEF P
<1>5. /\ <<"preferred_ready", None>> \in P
      /\ \A w \in Watches : Alert(w) \in P
      /\ \A c \in K : Lock(c) \in P /\ Unlock(c) \in P /\ <<"records_ready", c>> \in P
      /\ \A k \in Conns : owner'[k] \in K \cup {None} =>
            <<"non_block_events", k>> \in P /\ <<"client_got_records", k>> \in P
      /\ t \in Chans => \A c \in K : <<"search", c>> \in P
  BY <1>40, <1>48, <1>49
<1>6. \A c \in K : \A k \in Conns : owner'[k] \in K \cup {None} => LockedEvents(c, k) \in Seq(P)
  BY <1>5, Short DEF LockedEvents
<1>41. AlertAll \in Seq(P)
  BY <1>5, Short DEF AlertAll, Watches
<1>7. \A c, st : \A after \in Seq(P) : SetState(t, c, st, after) => PlainThen(t, P)
  BY <1>41, SetStateLeaves
<1>8. /\ <<>> \in Seq(P) /\ \A k \in Conns : owner'[k] \in K \cup {None} => Again(k) \in Seq(P)
      /\ Done(t) => PlainThen(t, P)
  BY <1>5, Short DEF Again, Done, PlainThen
<1>9. SUFFICES PlainThen(t, P)
  BY DEF P, G, K
<1>10. Does(t, "client_start_search") => t \in Chans /\ Arg(t) \in K
  BY <1>2, <1>4, ItemKinds DEF Does, CommandNames, CommandClientOps, TouchOps
<1>21. CASE ClientLock(t) \/ ClientUnlock(t) \/ ConnectFails(t) \/ NoMoreEvents(t) \/ UnsetConnection(t)
            \/ FreeConnection(t)
  BY <1>8, <1>21 DEF ClientLock, ClientUnlock, ConnectFails, NoMoreEvents, UnsetConnection, FreeConnection
<1>23. CASE ReuseConnection(t) \/ CreateConnection(t)
  <2>1. << <<"search", Arg(t)>> >> \in Seq(P)
    BY <1>5, <1>10, <1>23, Short DEF ReuseConnection, CreateConnection
  <2> QED  BY <1>8, <1>23, <2>1 DEF ReuseConnection, CreateConnection, PlainThen
<1>26. CASE StartSearch(t)
  <2> DEFINE c == Arg(t)
             k == conn[c]
  <2>1. c \in K /\ k # None /\ owner' = owner /\ ConnectionContinue(t, c, k, <<>>)
    BY <1>4, <1>26 DEF StartSearch, Does, TouchOps
  <2>2. c \in Clients /\ k \in Conns /\ owner[k] = c
    BY <1>3, <2>1 DEF TypeInv, DataInv, ClientInv, OwnInv
  <2>3. LockedEvents(c, k) \in Seq(P)
    BY <1>6, <2>1, <2>2
  <2> HIDE DEF c, k
  <2>4. LockedEvents(c, k) \o <<>> \in Seq(P)
    BY <2>3
  <2> QED  BY <1>8, <2>1, <2>4 DEF ConnectionContinue, PlainThen
<1>27. Does(t, "non_block_events") => Arg(t) \in Conns /\ owner[Arg(t)] \in K \cup {None}
                                     /\ Again(Arg(t)) \in Seq(P)
  BY <1>4, <1>8 DEF Does, LoopConnOps
<1>29. CASE IgnoredEvent(t)
  BY <1>27, <1>29 DEF IgnoredEvent, PlainThen
<1>30. CASE SendApdu(t) \/ RecvError(t) \/ End(t)
  BY <1>7, <1>27, <1>30 DEF SendApdu, RecvError, End, Event
<1>32. CASE RecvRecord(t)
  <2>1. Arg(t) \in Conns /\ owner'[Arg(t)] \in K \cup {None} /\ Again(Arg(t)) \in Seq(P)
    BY <1>4, <1>27, <1>32 DEF RecvRecord, Event, Does, LoopConnOps
  <2>2. << <<"client_got_records", Arg(t)>> >> \in Seq(P)
    BY <1>5, <2>1, Short
  <2> DEFINE ops == Again(Arg(t)) \o (IF GotAlready(t) THEN <<>>
                                      ELSE << <<"client_got_records", Arg(t)>> >>)
  <2>3. ops \in Seq(P)
    BY <1>8, <2>1, <2>2
  <2> QED  BY <1>32, <2>3 DEF RecvRecord, PlainThen
<1>34. CASE GotRecords(t)
  <2> DEFINE c == owner[Arg(t)]
             ops == << Unlock(c), <<"preferred_ready", None>>, Lock(c), <<"records_ready", c>> >>
  <2>1. c \in K \cup {None}
    BY <1>4, <1>34 DEF GotRecords, Does, LoopConnOps
  <2>2. c # None => ops \in Seq(P)
    BY <1>5, <2>1
  <2> QED  BY <1>8, <1>34, <2>2 DEF GotRecords, PlainThen
<1>35. CASE PreferredCheck(t)
  <2>1. <<Alert("pref")>> \in Seq(P)
    BY <1>5, Short DEF Watches
  <2> QED  BY <1>8, <1>35, <2>1 DEF PreferredCheck, PlainThen
<1>36. CASE RecordsCheck(t)
  <2>1. << Unlock(Arg(t)), Alert("show"), Alert("termlist"), Alert("record"), Lock(Arg(t)) >>
            \in Seq(P)
    <3>1. Arg(t) \in K
      BY <1>4, <1>36 DEF RecordsCheck, Does, TouchOps
    <3>2. Alert("show") \in P /\ Alert("termlist") \in P /\ Alert("record") \in P
      BY <1>5 DEF Watches
    <3> QED  BY <1>5, <3>1, <3>2, Short
  <2> QED  BY <1>8, <1>36, <2>1 DEF RecordsCheck, PlainThen
<1>37. CASE Expired(t) \/ ClientDisconnect(t)
  BY <1>7, <1>8, <1>37 DEF Expired, ClientDisconnect
<1>38. ~ConnectionDestroy(t)
  BY DEF Undoes
<1> QED
  BY <1>21, <1>23, <1>26, <1>29, <1>30, <1>32, <1>34, <1>35, <1>36, <1>37, <1>38 DEF ClientStep

LEMMA SessionGood ==
    ASSUME TypeInv, ClientInv, StaleInv, NEW t \in Threads, SessionStep(t), ~Clears(t)
    PROVE  PlainThen(t, Left(Head(agenda[t])[1], Good(t, Keeper(t)', owner')))
<1> DEFINE hd == Head(agenda[t])
           K == Keeper(t)'
           G == Good(t, K, owner')
           P == Left(hd[1], G)
<1>1. Step(t) /\ Running(t) /\ ~Undoes(t) /\ ~CreateConnection(t)
  <2>1. Running(t) /\ hd[1] \notin UndoNames \cup {"client_start_search"}
    BY DEF SessionStep, SessionSearch, ResetActive, Detach, DropCached, Drop, SelectTargets,
         SearchClients, Started, SessionSort, SortClients, SessionStop, StopClients, ClientStop,
         SessionAlertWatch, ShowRecords, FetchMore, FetchedMore, ShowAgain, ShowRecord,
         RecordWatch, Does, UndoNames, UndoConnOps
  <2> QED  BY <2>1
           DEF Step, Undoes, ConnectionDestroy, UnsetConnection, FreeConnection, CreateConnection,
               Does, UndoNames, UndoConnOps
<1>2. hd \in Items(t) /\ hd = <<hd[1], Arg(t)>> /\ Safe(Keeper(t), owner, hd)
  BY <1>1, HeadKinds, HeadSafe
<1>3. /\ K \in SUBSET Clients /\ Keeper(t) \subseteq K /\ active \in SUBSET K
      /\ ~ClientStop(t) => owner' = owner
  BY <1>1, TameStays DEF Stays, OtherData
<1>4. /\ hd[1] \in CommandSetOps => Arg(t) \in SUBSET K /\ t \in Chans
      /\ hd[1] \in CommandOps => t \in Chans
      /\ hd[1] \in AnswerOps => Arg(t) \in Chans
      /\ hd[1] = "session_fetch_more" =>
            Arg(t)[1] \in Chans /\ Arg(t)[2] \in SUBSET K /\ Arg(t)[3] \in BOOLEAN
  <2>1. hd[1] \in CommandSetOps => Arg(t) \subseteq Keeper(t)
    BY <1>2 DEF Safe, Touches, TouchOps, TouchSetOps, CommandSetOps, Arg
  <2>2. hd[1] = "session_fetch_more" => Arg(t)[2] \subseteq Keeper(t)
    BY <1>2 DEF Safe, Touches, TouchOps, TouchSetOps, Arg
  <2>3. hd[1] = "session_fetch_more" => Arg(t) \in Chans \X (SUBSET Clients) \X BOOLEAN
    BY <1>2, ItemArgs DEF Arg
  <2>4. hd[1] \in CommandSetOps \cup CommandOps => t \in Chans
    BY <1>2, ItemKinds DEF CommandNames
  <2>5. hd[1] \in AnswerOps => Arg(t) \in Chans
    BY <1>2, ItemArgs DEF Arg
  <2> QED  BY <1>3, <2>1, <2>2, <2>3, <2>4, <2>5
<1>40. t \in Chans =>
         /\ \A S \in SUBSET K : \A op \in CommandSetOps : <<op, S>> \in G
         /\ \A op \in CommandOps \ {"session_search"} : <<op, None>> \in G
         /\ \A c \in K : \A op \in CommandClientOps : <<op, c>> \in G
         /\ Start \in G
  BY <1>3, GoodChan
<1>41. \A h \in Chans : /\ \A op \in AnswerOps \cup {"reply"} : <<op, h>> \in G
                      /\ \A S \in SUBSET K, b \in BOOLEAN :
                            <<"session_fetch_more", <<h, S, b>> >> \in G
  BY <1>3, GoodAnswer
<1>42. /\ \A w \in Watches : Alert(w) \in G
       /\ \A c \in K : Lock(c) \in G /\ Unlock(c) \in G
       /\ \A k \in Conns : owner'[k] \in K \cup {None} => <<"non_block_events", k>> \in G
  BY <1>3, GoodLoop DEF LoopConnOps
<1> DEFINE May(op) == op \in Rare => <<hd[1], op>> \in RareCalls
<1> HIDE DEF K, G
<1>43. \A x \in G : May(x[1]) => x \in P
  BY DEF Left
<1> HIDE DEF P, May
<1>5. t \in Chans =>
        /\ \A S \in SUBSET K : \A op \in CommandSetOps : May(op) => <<op, S>> \in P
        /\ \A op \in CommandOps \ {"session_search"} : May(op) => <<op, None>> \in P
        /\ \A c \in K : \A op \in CommandClientOps : May(op) => <<op, c>> \in P
        /\ Start \in P
  <2>1. May("started") /\ Start[1] = "started"
    BY DEF May, Rare, Start
  <2> QED  BY <1>40, <1>43, <2>1
<1>6. \A h \in Chans :
        /\ \A op \in {"reply", "show_records", "show_record", "record_watch"} : <<op, h>> \in P
        /\ May("show_again") => <<"show_again", h>> \in P
        /\ \A S \in SUBSET K, b \in BOOLEAN : May("session_fetch_more") =>
              <<"session_fetch_more", <<h, S, b>> >> \in P
  <2>1. \A op \in {"reply", "show_records", "show_record", "record_watch"} : May(op)
    BY DEF May, Rare, AnswerOps
  <2>2. \A h \in Chans : \A op \in AnswerOps : May(op) => <<op, h>> \in P
    BY <1>41, <1>43
  <2>3. \A h \in Chans : \A S \in SUBSET K, b \in BOOLEAN : May("session_fetch_more") =>
              <<"session_fetch_more", <<h, S, b>> >> \in P
    BY <1>41, <1>43
  <2>4. {"reply", "show_records", "show_record", "record_watch", "show_again"} \subseteq AnswerOps
    BY DEF AnswerOps
  <2> QED  BY <2>1, <2>2, <2>3, <2>4
<1>44. /\ \A w \in Watches : Alert(w) \in P
       /\ \A c \in K : Lock(c) \in P /\ Unlock(c) \in P
       /\ \A k \in Conns : owner'[k] \in K \cup {None} => <<"non_block_events", k>> \in P
  BY <1>42, <1>43 DEF May, Rare, Alert, Lock, Unlock
<1>45. AlertAll \in Seq(P)
  BY <1>44, Short DEF AlertAll, Watches
<1>7. /\ \A c \in K : \A k \in Conns : owner'[k] \in K \cup {None} => LockedEvents(c, k) \in Seq(P)
      /\ AlertAll \in Seq(P)
      /\ \A c, st : \A after \in Seq(P) : SetState(t, c, st, after) => PlainThen(t, P)
  BY <1>44, <1>45, Short, SetStateLeaves DEF LockedEvents
<1>8. /\ Done(t) => PlainThen(t, P)
      /\ \A x \in P : <<x>> \in Seq(P) /\ (Then(t, <<x>>) => PlainThen(t, P))
      /\ \A x, y \in P : <<x, y>> \in Seq(P) /\ (Then(t, <<x, y>>) => PlainThen(t, P))
  <2>1. <<>> \in Seq(P) /\ (\A x \in P : <<x>> \in Seq(P)) /\ \A x, y \in P : <<x, y>> \in Seq(P)
    BY Short
  <2> QED  BY <2>1 DEF Done, PlainThen
<1>9. SUFFICES PlainThen(t, P)
  BY DEF P, G, K
<1> USE DEF CommandOps, CommandClientOps, CommandSetOps
<1>10. \A w : \A h \in Chans : SessionSetWatch(t, w, h, << <<"reply", h>> >>) => PlainThen(t, P)
  BY <1>6, <1>8 DEF SessionSetWatch
<1>46. \A op \in {"client_start_search", "sort_clients"} : May(op)
  BY DEF May, Rare
<1>47. /\ Does(t, "show_records") \/ Does(t, "session_fetch_more") => May("session_fetch_more")
       /\ Does(t, "session_fetch_more") => May("show_again")
       /\ Does(t, "session_stop") => May("stop_clients")
       /\ Does(t, "search_clients") => May("search_clients")
       /\ Does(t, "stop_clients") \/ Does(t, "client_stop") => May("client_stop")
  BY DEF May, Does, RareCalls
<1>27. CASE SearchClients(t)
  <2>1. t \in Chans /\ Arg(t) \in SUBSET K
    BY <1>4, <1>27 DEF SearchClients, Does
  <2>2. ASSUME NEW c \in Arg(t)
        PROVE  /\ <<"client_start_search", c>> \in P
               /\ <<"search_clients", Arg(t) \ {c}>> \in P
               /\ << <<"search_clients", Arg(t) \ {c}>> >> \in Seq(P)
    <3>1. <<"client_start_search", c>> \in P /\ <<"search_clients", Arg(t) \ {c}>> \in P
      BY <1>5, <1>27, <1>46, <1>47, <2>1 DEF SearchClients
    <3> QED  BY <1>8, <3>1
  <2>3. CASE Done(t)
    BY <1>8, <2>3
  <2>4. ASSUME NEW c \in Arg(t), SetState(t, c, "Error", << <<"search_clients", Arg(t) \ {c}>> >>)
        PROVE  PlainThen(t, P)
    BY <1>7, <2>2, <2>4
  <2>5. ASSUME NEW c \in Arg(t), Then(t, << <<"search_clients", Arg(t) \ {c}>> >>)
        PROVE  PlainThen(t, P)
    BY <1>8, <2>2, <2>5
  <2>6. ASSUME NEW c \in Arg(t), Then(t, << <<"client_start_search", c>>,
                                            <<"search_clients", Arg(t) \ {c}>> >>)
        PROVE  PlainThen(t, P)
    BY <1>8, <2>2, <2>6
  <2> QED  BY <1>27, <2>3, <2>4, <2>5, <2>6 DEF SearchClients
<1>28. CASE Started(t)
  BY <1>8, <1>28 DEF Started
<1>29. CASE SessionSort(t)
  <2>1. t \in Chans
    BY <1>4, <1>29 DEF SessionSort, Does
  <2>2. <<"sort_clients", active>> \in P /\ <<"started", None>> \in P
    BY <1>3, <1>5, <1>46, <2>1 DEF Start
  <2> QED  BY <1>8, <1>29, <2>2 DEF SessionSort
<1>30. CASE SortClients(t)
  <2>1. t \in Chans /\ Arg(t) \in SUBSET K
    BY <1>4, <1>30 DEF SortClients, Does
  <2>2. ASSUME NEW c \in Arg(t)
        PROVE  <<"client_start_search", c>> \in P /\ <<"sort_clients", Arg(t) \ {c}>> \in P
    BY <1>5, <1>46, <2>1
  <2> QED  BY <1>8, <1>30, <2>2 DEF SortClients
<1>31. CASE SessionStop(t)
  <2>1. t \in Chans
    BY <1>4, <1>31 DEF SessionStop, Does
  <2>2. << <<"stop_clients", None>>, <<"started", None>> >> \in Seq(P)
    BY <1>5, <1>8, <1>31, <1>47, <2>1 DEF Start, SessionStop
  <2>3. AlertAll \o << <<"stop_clients", None>>, <<"started", None>> >> \in Seq(P)
    BY <1>7, <2>2
  <2> QED  BY <1>8, <1>31, <2>3 DEF SessionStop, PlainThen
<1>32. CASE StopClients(t)
  <2>1. t \in Chans
    BY <1>4, <1>32 DEF StopClients, Does
  <2>2. <<"client_stop", active>> \in P
    BY <1>3, <1>5, <1>32, <1>47, <2>1 DEF StopClients
  <2> QED  BY <1>8, <1>32, <2>2 DEF StopClients
<1>33. CASE ClientStop(t)
  <2>1. t \in Chans /\ Arg(t) \in SUBSET K
    BY <1>4, <1>33 DEF ClientStop, Does
  <2>2. \A c : <<"client_stop", Arg(t) \ {c}>> \in P
    BY <1>5, <1>33, <1>47, <2>1 DEF ClientStop
  <2> QED  BY <1>8, <1>33, <2>2 DEF ClientStop
<1>34. CASE SessionAlertWatch(t)
  <2> DEFINE w == Arg(t)
             h == watch[w]
  <2>1. w \in {"show", "pref", "termlist", "record"}
    <3>1. hd[1] = "session_alert_watch"
      BY <1>34 DEF SessionAlertWatch, Does
    <3> QED  BY <1>2, <3>1, ItemArgs DEF Watches, Arg
  <2>2. h \in Chans \cup {None}
    BY <2>1 DEF TypeInv, DataInv, Watches
  <2>3. CASE h = None
    BY <1>8, <1>34, <2>3 DEF SessionAlertWatch, Done
  <2>4. CASE h # None
    <3>1. \E op \in {"reply", "show_records", "show_record", "record_watch"} : Then(t, << <<op, h>> >>)
      BY <1>34, <2>1, <2>4 DEF SessionAlertWatch, AnswerOps
    <3> QED  BY <1>6, <1>8, <2>2, <2>4, <3>1
  <2> QED  BY <2>3, <2>4
<1>35. CASE ShowRecords(t)
  <2>1. Arg(t) \in Chans
    BY <1>4, <1>35 DEF ShowRecords, Does, AnswerOps
  <2>2. <<"session_fetch_more", <<Arg(t), active, FALSE>> >> \in P /\ <<"reply", Arg(t)>> \in P
    BY <1>3, <1>6, <1>35, <1>47, <2>1 DEF ShowRecords
  <2> QED  BY <1>8, <1>35, <2>2 DEF ShowRecords, Reply
<1>36. CASE FetchMore(t)
  <2> DEFINE h == Arg(t)[1]
             rest(c, got) == <<"session_fetch_more", <<h, Arg(t)[2] \ {c}, got>> >>
  <2>1. h \in Chans /\ Arg(t)[2] \in SUBSET K /\ Arg(t)[3] \in BOOLEAN
    BY <1>4, <1>36 DEF FetchMore, Does
  <2>2. \A c : \A got \in BOOLEAN : rest(c, got) \in P
    BY <1>6, <1>36, <1>47, <2>1 DEF FetchMore
  <2>3. PICK c \in Arg(t)[2] :
          \/ Then(t, << rest(c, Arg(t)[3]) >>)
          \/ conn[c] # None /\ ConnectionContinue(t, c, conn[c], << rest(c, TRUE) >>)
    BY <1>36 DEF FetchMore
  <2>4. << rest(c, Arg(t)[3]) >> \in Seq(P) /\ << rest(c, TRUE) >> \in Seq(P)
        /\ (Then(t, << rest(c, Arg(t)[3]) >>) => PlainThen(t, P))
        /\ (Then(t, << rest(c, TRUE) >>) => PlainThen(t, P))
    BY <1>8, <2>1, <2>2
  <2> HIDE DEF rest
  <2>5. ASSUME conn[c] # None PROVE LockedEvents(c, conn[c]) \o << rest(c, TRUE) >> \in Seq(P)
    <3>1. owner' = owner
      BY <1>36 DEF FetchMore
    <3>2. c \in K /\ c \in Clients /\ conn[c] \in Conns /\ owner[conn[c]] = c
      BY <1>3, <2>1, <2>5 DEF TypeInv, DataInv, ClientInv, OwnInv
    <3>3. LockedEvents(c, conn[c]) \in Seq(P)
      BY <1>7, <3>1, <3>2
    <3>4. << rest(c, TRUE) >> \in Seq(P)
      BY <2>4
    <3>5. \A u, v \in Seq(P) : u \o v \in Seq(P)
      OBVIOUS
    <3> QED  BY <3>3, <3>4, <3>5, Zenon
  <2> QED  BY <2>3, <2>4, <2>5 DEF ConnectionContinue, PlainThen
<1>37. CASE FetchedMore(t)
  <2>1. Arg(t)[1] \in Chans
    BY <1>4, <1>37 DEF FetchedMore, Does
  <2>2. <<"show_again", Arg(t)[1]>> \in P /\ <<"reply", Arg(t)[1]>> \in P
    BY <1>6, <1>37, <1>47, <2>1 DEF AnswerOps, FetchedMore
  <2> QED  BY <1>8, <1>37, <2>2 DEF FetchedMore, Reply
<1>38. CASE ShowAgain(t) \/ RecordWatch(t)
  <2>1. Arg(t) \in Chans
    BY <1>4, <1>38 DEF ShowAgain, RecordWatch, Does, AnswerOps
  <2>2. \E w : SessionSetWatch(t, w, Arg(t), << <<"reply", Arg(t)>> >>)
    BY <1>38 DEF ShowAgain, RecordWatch, Reply
  <2> QED  BY <1>10, <2>1, <2>2
<1>39. CASE ShowRecord(t)
  <2>1. Arg(t) \in Chans
    BY <1>4, <1>39 DEF ShowRecord, Does, AnswerOps
  <2>2. <<"record_watch", Arg(t)>> \in P /\ <<"reply", Arg(t)>> \in P
    BY <1>6, <2>1 DEF AnswerOps
  <2> QED  BY <1>8, <1>39, <2>2 DEF ShowRecord, Reply
<1> QED
  BY <1>27, <1>28, <1>29, <1>30, <1>31, <1>32, <1>33, <1>34, <1>35, <1>36, <1>37, <1>38, <1>39
  DEF SessionStep, Clears

LEMMA CommandGood ==
    ASSUME TypeInv, ClientInv, StaleInv, NEW t \in Threads, CommandStep(t)
    PROVE  PlainThen(t, Left(Head(agenda[t])[1], Good(t, Keeper(t)', owner')))
<1> DEFINE hd == Head(agenda[t])
           K == Keeper(t)'
           G == Good(t, K, owner')
           P == Left(hd[1], G)
<1>1. Running(t) /\ hd[1] \in OwnNames \cup {"session_apply_setting", "reply"}
  BY DEF CommandStep, ApplySetting, ShowDecides, ShowWaits, TermlistDecides, TermlistWaits,
         Respond, Does, OwnNames
<1>2. hd \in Items(t) /\ hd = <<hd[1], Arg(t)>>
  BY <1>1, HeadKinds
<1>3. K \in SUBSET Clients
  <2>1. UNCHANGED <<cached, conn>>
    BY DEF CommandStep, ApplySetting, ShowDecides, ShowWaits, TermlistDecides, TermlistWaits,
           Respond, SessionSetWatch, sessionVars, clientVars
  <2> QED  BY <2>1 DEF Keeper, TypeInv, DataInv
<1>4. /\ hd[1] \in OwnNames => t \in Chans
      /\ hd[1] \in {"cmd_show", "show_watch"} => Arg(t) \in {"show", "pref"}
  BY <1>2, ItemKinds, ItemArgs DEF Arg
<1>40. t \in Chans => /\ Own \subseteq G
                      /\ <<"reply", t>> \in G /\ <<"show_records", t>> \in G
  BY <1>3, GoodChan, GoodAnswer DEF AnswerOps
<1> HIDE DEF K, G
<1>5. t \in Chans => /\ \A x \in Own : <<hd[1], x[1]>> \in RareCalls => x \in P
                     /\ <<"reply", t>> \in P /\ <<"show_records", t>> \in P
  BY <1>40 DEF Left, Rare
<1> HIDE DEF P
<1>6. /\ Done(t) => PlainThen(t, P)
      /\ \A x \in P : Then(t, <<x>>) => PlainThen(t, P)
      /\ \A x \in P : \A w, h : SessionSetWatch(t, w, h, <<x>>) => PlainThen(t, P)
  <2>1. <<>> \in Seq(P) /\ (\A x \in P : <<x>> \in Seq(P))
    BY Short
  <2> QED  BY <2>1 DEF Done, PlainThen, SessionSetWatch
<1>7. SUFFICES PlainThen(t, P)
  BY DEF P, G, K
<1>8. CASE ApplySetting(t) \/ Respond(t)
  BY <1>6, <1>8 DEF ApplySetting, Respond
<1>9. /\ \A w \in {"show", "pref"} : <<"show_watch", w>> \in Own
      /\ <<"termlist_watch", None>> \in Own
  BY DEF Own
<1>10. CASE ShowDecides(t) \/ TermlistDecides(t)
  <2>1. t \in Chans
    BY <1>4, <1>10 DEF ShowDecides, TermlistDecides, Does, OwnNames
  <2>2. CASE ShowDecides(t)
    <3>1. \A w \in {"show", "pref"} : <<"show_watch", w>> \in P
      BY <1>5, <1>9, <2>1, <2>2 DEF ShowDecides, Does, RareCalls
    <3> QED  BY <1>5, <1>6, <2>1, <2>2, <3>1 DEF ShowDecides
  <2>3. CASE TermlistDecides(t)
    <3>1. <<"termlist_watch", None>> \in P
      BY <1>5, <1>9, <2>1, <2>3 DEF TermlistDecides, Does, RareCalls
    <3> QED  BY <1>5, <1>6, <2>1, <2>3, <3>1 DEF TermlistDecides, Reply
  <2> QED  BY <1>10, <2>2, <2>3
<1>11. CASE ShowWaits(t) \/ TermlistWaits(t)
  <2>1. t \in Chans
    BY <1>4, <1>11 DEF ShowWaits, TermlistWaits, Does, OwnNames
  <2> QED  BY <1>5, <1>6, <1>11, <2>1 DEF ShowWaits, TermlistWaits, Reply
<1> QED  BY <1>8, <1>10, <1>11 DEF CommandStep

LEMMA TameGood ==
    ASSUME TypeInv, ClientInv, StaleInv, NEW t \in Threads, Step(t), ~Clears(t), ~Undoes(t)
    PROVE  /\ PlainThen(t, Left(Head(agenda[t])[1], Good(t, Keeper(t)', owner')))
           /\ PlainThen(t, Good(t, Keeper(t)', owner'))
<1> DEFINE G == Good(t, Keeper(t)', owner')
           P == Left(Head(agenda[t])[1], G)
<1>1. PlainThen(t, P)
  BY ClientGood, SessionGood, CommandGood DEF Step
<1>2. P \subseteq G
  BY LeftLoop
<1> HIDE DEF P, G
<1>3. Seq(P) \subseteq Seq(G)
  BY <1>2
<1>4. PlainThen(t, G)
  BY <1>1, <1>3 DEF PlainThen
<1> QED  BY <1>1, <1>4 DEF P, G

-----------------------------------------------------------------------------
(* A search gives up the clients of the one before, and touches them no    *)
(* more                                                                    *)

LEMMA PhaseSafe ==
    ASSUME NEW K, NEW o
    PROVE  /\ \A x : Bare(x) \/ x[1] \in {"reset_active", "session_search"} => Safe(K, o, x)
           /\ \A S \in SUBSET K : Safe(K, o, <<"detach", S>>)
           /\ \A S : Safe(K, o, <<"drop", S>>)
  BY DEF Safe, Bare, Touches, TouchOps, TouchSetOps, LoopConnOps

LEMMA ClearKeeps ==
    ASSUME TypeInv, ClientInv, StaleInv, NEW t \in Threads, Clears(t)
    PROVE  StaleInv'
<1> DEFINE a == agenda[t]
           K == Keeper(t)'
<1>1. /\ Step(t) /\ t \in Chans /\ Running(t) /\ HandlerInv
      /\ a \in Seq(Items(t)) /\ a # <<>> /\ Head(a) = a[1]
  BY PhaseHeads, Sole DEF ClientInv
<1>2. /\ Head(a)[1] \in PhaseSetOps => Arg(t) \in SUBSET Clients
      /\ <<>> \in Seq(Items(t))
      /\ \A x \in Items(t) : <<x>> \in Seq(Items(t))
      /\ \A op \in PhaseOps : <<op, None>> \in Items(t)
      /\ \A op \in PhaseSetOps : \A S \in SUBSET Clients : <<op, S>> \in Items(t)
      /\ <<"select_targets", None>> \in Items(t)
  BY PhaseHeads
<1>3. Keeper(t) = cached /\ K = cached' /\ owner' = owner /\ active \subseteq cached
      /\ cached \in SUBSET Clients /\ active \in SUBSET Clients
  BY <1>1 DEF Keeper, Clears, SessionSearch, ResetActive, Detach, DropCached, Drop, SelectTargets,
              connVars, ClientInv, ActiveInv, TypeInv, DataInv
<1>4. Head(a)[1] \in {"session_search", "reset_active", "detach", "drop_cached", "drop", "select_targets"}
  BY DEF Clears, SessionSearch, ResetActive, Detach, DropCached, Drop, SelectTargets, Does
<1>5. Clearing(Head(a))
  BY <1>4 DEF Clearing, Rank
<1>6. \A i \in 2 .. Len(a) : Safe(K, owner', a[i])
  <2>1. \A i \in 2 .. Len(a) : 1 \in 1 .. Len(a) /\ i \in 1 .. Len(a) /\ 1 < i
    BY <1>1
  <2>2. \A i \in 2 .. Len(a) : Bare(a[i])
    BY <1>1, <1>5, <2>1 DEF StaleInv, Cleared
  <2> QED  BY <2>2, PhaseSafe
<1> HIDE DEF K
<1>7. ASSUME NEW ops \in Seq(Items(t)), Then(t, ops), \A i \in 2 .. Len(ops) : Bare(ops[i]),
             \A i \in 1 .. Len(ops) : Safe(K, owner', ops[i])
      PROVE  StaleInv'
  <2>1. Cleared(ops)
    BY <1>7 DEF Cleared
  <2> QED  BY <1>1, <1>5, <1>6, <1>7, <2>1, StaleMove DEF K
<1>8. Done(t) => StaleInv'
  <2> DEFINE ops == <<>>
  <2>1. 1 .. Len(ops) = {} /\ 2 .. Len(ops) = {}
    OBVIOUS
  <2>2. Done(t) => Then(t, ops)
    BY DEF Done
  <2>3. ops \in Seq(Items(t))
    BY <1>2
  <2> HIDE DEF ops
  <2> QED  BY <1>7, <2>1, <2>2, <2>3
<1>9. ASSUME NEW x \in Items(t), Safe(K, owner', x), Then(t, <<x>>) PROVE StaleInv'
  <2> DEFINE ops == <<x>>
  <2>1. Len(ops) = 1 /\ ops[1] = x
    OBVIOUS
  <2>2. ops \in Seq(Items(t))
    BY <1>2
  <2>3. Then(t, ops)
    BY <1>9
  <2> HIDE DEF ops
  <2>4. \A i \in 2 .. Len(ops) : Bare(ops[i])
    BY <2>1
  <2>5. \A i \in 1 .. Len(ops) : Safe(K, owner', ops[i])
    BY <1>9, <2>1
  <2> QED  BY <1>7, <2>2, <2>3, <2>4, <2>5
<1>10. CASE SessionSearch(t)
  <2> DEFINE x == <<"reset_active", None>>
             y == <<"drop_cached", None>>
             z == <<"select_targets", None>>
  <2>1. x \in Items(t) /\ y \in Items(t) /\ z \in Items(t)
    BY <1>2 DEF PhaseOps
  <2>2. Safe(K, owner', x) /\ Safe(K, owner', y) /\ Safe(K, owner', z) /\ Bare(y) /\ Bare(z)
    BY PhaseSafe DEF Bare
  <2>3. CASE starting
    BY <1>8, <1>10, <2>3 DEF SessionSearch
  <2>4. CASE ~starting
    <3>1. Then(t, <<x>> \o (IF modified THEN <<y>> ELSE <<>>) \o <<z>>)
      BY <1>10, <2>4 DEF SessionSearch
    <3>5. <<x>> \o <<y>> \o <<z>> = <<x, y, z>> /\ <<x>> \o <<>> \o <<z>> = <<x, z>>
      BY Joined
    <3> HIDE DEF x, y, z
    <3>2. /\ <<x, y, z>> \in Seq(Items(t)) /\ Len(<<x, y, z>>) = 3
          /\ <<x, y, z>>[1] = x /\ <<x, y, z>>[2] = y /\ <<x, y, z>>[3] = z
          /\ <<x, z>> \in Seq(Items(t)) /\ Len(<<x, z>>) = 2
          /\ <<x, z>>[1] = x /\ <<x, z>>[2] = z
      BY <2>1, Short
    <3>3. CASE modified
      <4> DEFINE ops == <<x, y, z>>
      <4>1. \A i \in 2 .. Len(ops) : Bare(ops[i])
        BY <2>2, <3>2
      <4>2. \A i \in 1 .. Len(ops) : Safe(K, owner', ops[i])
        BY <2>2, <3>2
      <4>3. ops \in Seq(Items(t)) /\ Then(t, ops)
        BY <3>1, <3>2, <3>3, <3>5
      <4> HIDE DEF ops
      <4> QED  BY <1>7, <4>1, <4>2, <4>3
    <3>4. CASE ~modified
      <4> DEFINE ops == <<x, z>>
      <4>1. \A i \in 2 .. Len(ops) : Bare(ops[i])
        BY <2>2, <3>2
      <4>2. \A i \in 1 .. Len(ops) : Safe(K, owner', ops[i])
        BY <2>2, <3>2
      <4>3. ops \in Seq(Items(t)) /\ Then(t, ops)
        BY <3>1, <3>2, <3>4, <3>5
      <4> HIDE DEF ops
      <4> QED  BY <1>7, <4>1, <4>2, <4>3
    <3> QED  BY <3>3, <3>4
  <2> QED  BY <2>3, <2>4
<1>11. CASE ResetActive(t)
  <2>1. <<"detach", active>> \in Items(t) /\ K = cached
    BY <1>2, <1>3, <1>11 DEF ResetActive, PhaseSetOps
  <2>2. Safe(K, owner', <<"detach", active>>)
    BY <1>3, <2>1, PhaseSafe
  <2> QED  BY <1>9, <1>11, <2>1, <2>2 DEF ResetActive
<1>12. CASE Detach(t)
  <2>1. Head(a)[1] = "detach" /\ Arg(t) \in SUBSET Clients /\ K = cached
    BY <1>2, <1>3, <1>12 DEF Detach, Does, PhaseSetOps, sessionVars
  <2>2. Arg(t) \subseteq cached
    <3>1. Safe(Keeper(t), owner, Head(a))
      BY <1>1, HeadSafe
    <3> QED  BY <1>3, <2>1, <3>1 DEF Safe, Touches, TouchOps, TouchSetOps, Arg
  <2>3. \A c : <<"detach", Arg(t) \ {c}>> \in Items(t) /\ Safe(K, owner', <<"detach", Arg(t) \ {c}>>)
    BY <1>2, <2>1, <2>2, PhaseSafe DEF PhaseSetOps
  <2> QED  BY <1>8, <1>9, <1>12, <2>3 DEF Detach
<1>13. CASE DropCached(t)
  <2>1. <<"drop", cached>> \in Items(t) /\ Safe(K, owner', <<"drop", cached>>)
    BY <1>2, <1>3, PhaseSafe DEF PhaseSetOps
  <2> QED  BY <1>9, <1>13, <2>1 DEF DropCached
<1>14. CASE Drop(t)
  <2>1. Arg(t) \in SUBSET Clients
    BY <1>2, <1>14 DEF Drop, Does, PhaseSetOps
  <2>2. \A c : <<"drop", Arg(t) \ {c}>> \in Items(t) /\ Safe(K, owner', <<"drop", Arg(t) \ {c}>>)
    BY <1>2, <2>1, PhaseSafe DEF PhaseSetOps
  <2> QED  BY <1>8, <1>9, <1>14, <2>2 DEF Drop
<1>15. CASE SelectTargets(t)
  <2>1. <<"reset_active", None>> \in Items(t) /\ Safe(K, owner', <<"reset_active", None>>)
    BY <1>2, PhaseSafe DEF PhaseOps
  <2>2. ASSUME NEW S \in SUBSET Clients, Selects(S),
               Then(t, AlertAll \o << <<"search_clients", S>>, <<"started", None>> >>)
        PROVE  StaleInv'
    <3>1. S \subseteq K /\ K \in SUBSET Clients
      BY <1>3, <2>2 DEF Selects
    <3> DEFINE P == Good(t, K, owner')
               x == <<"search_clients", S>>
               ops == AlertAll \o <<x, Start>>
    <3>2. AlertAll \in Seq(P) /\ x \in P /\ Start \in P
      BY <1>1, <3>1, GoodLoop, GoodChan DEF CommandSetOps
    <3>3. \A p \in P : p \in Items(t) /\ ~Clearing(p) /\ Safe(K, owner', p)
      BY DEF Good
    <3> HIDE DEF P, x
    <3>4. <<x, Start>> \in Seq(P)
      BY <3>2, Short
    <3>5. ops \in Seq(P)
      BY <3>2, <3>4
    <3>6. Then(t, ops)
      BY <2>2 DEF x, Start
    <3> HIDE DEF ops
    <3>7. ops \in Seq(Items(t)) /\ \A i \in 1 .. Len(ops) : ops[i] \in P
      BY <3>3, <3>5
    <3>8. Cleared(ops)
      BY <3>3, <3>7 DEF Cleared
    <3> QED  BY <1>1, <1>5, <1>6, <3>3, <3>6, <3>7, <3>8, StaleMove DEF K
  <2> QED  BY <1>8, <1>9, <1>15, <2>1, <2>2 DEF SelectTargets
<1> QED  BY <1>10, <1>11, <1>12, <1>13, <1>14, <1>15 DEF Clears

LEMMA UndoKeeps ==
    ASSUME TypeInv, ClientInv, StaleInv, NEW t \in Threads, Undoes(t)
    PROVE  StaleInv'
<1> DEFINE a == agenda[t]
           k == Arg(t)
           K == Keeper(t)'
<1>1. /\ Step(t) /\ HandlerInv /\ Running(t) /\ a \in Seq(Items(t)) /\ a # <<>>
      /\ ~Does(t, "unset_connection") => k \in Conns /\ Len(a) = 1
      /\ Does(t, "unset_connection") => Len(a) = 2 /\ a[2][1] = "free"
  BY UndoHeads DEF ClientInv
<1>2. t \in Conns /\ Head(a)[1] \in UndoNames
  <2>1. Head(a)[1] \in UndoNames
    BY DEF Undoes, ConnectionDestroy, UnsetConnection, FreeConnection, Does, UndoNames, UndoConnOps
  <2>2. Head(a) \in Items(t)
    BY <1>1, HeadKinds
  <2> QED  BY <2>1, <2>2, ItemKinds
<1>3. t \notin Chans
  BY <1>2, SearchStateAssumption
<1>4. \A x : x[1] = "free" => Safe(K, owner', x)
  BY DEF Safe, Touches, TouchOps, TouchSetOps, LoopConnOps
<1>5. \A i \in 2 .. Len(a) : Safe(K, owner', a[i])
  BY <1>1, <1>4
<1>6. CASE Done(t)
  <2> DEFINE ops == <<>>
  <2>1. 1 .. Len(ops) = {} /\ ops \in Seq(Items(t))
    OBVIOUS
  <2>2. Then(t, ops)
    BY <1>6 DEF Done
  <2> HIDE DEF ops, K
  <2>3. Cleared(ops)
    BY <2>1 DEF Cleared
  <2> QED  BY <1>1, <1>5, <2>1, <2>2, <2>3, StaleMove DEF K
<1>7. CASE ConnectionDestroy(t)
  <2> DEFINE c == owner[k]
             x == <<"client_disconnect", c>>
             y == <<"unset_connection", c>>
             z == <<"free", k>>
             G == Good(t, K, owner')
  <2>1. UNCHANGED <<cached, conn, owner>> /\ k \in Conns /\ Does(t, "connection_destroy")
    BY <1>1, <1>7 DEF ConnectionDestroy, Does, sessionVars, clientVars, connVars
  <2>2. ~Freeing(k)
    BY <1>1, <2>1, Sole DEF Does
  <2>3. c # None => c \in Clients /\ conn[c] # None
    BY <2>1, <2>2, SearchStateAssumption DEF ClientInv, OwnInv, TypeInv, DataInv
  <2>4. c # None => c \in K
    BY <1>3, <2>1, <2>3 DEF Keeper
  <2>5. K \in SUBSET Clients /\ Stays(t)
    BY <2>1 DEF Keeper, TypeInv, DataInv, Stays
  <2>6. z \in G /\ (c # None => x \in G /\ y \in G)
    BY <1>2, <2>1, <2>4, <2>5, GoodConn DEF UndoConnOps
  <2>7. Then(t, (IF c = None THEN <<>> ELSE <<x, y>>) \o <<z>>)
    BY <1>7 DEF ConnectionDestroy
  <2> HIDE DEF c, x, y, z, G
  <2>8. (IF c = None THEN <<>> ELSE <<x, y>>) \in Seq(G) /\ <<z>> \in Seq(G)
    BY <2>6, Short
  <2>9. (IF c = None THEN <<>> ELSE <<x, y>>) \o <<z>> \in Seq(G)
    BY <2>8
  <2>10. PlainThen(t, Good(t, K, owner'))
    BY <2>7, <2>9 DEF PlainThen, G
  <2> QED  BY <1>1, <2>5, <2>10, GoodMove
<1> QED  BY <1>6, <1>7 DEF Undoes, UnsetConnection, FreeConnection

-----------------------------------------------------------------------------
(* A handler starts                                                        *)

LEMMA StaleStart ==
    ASSUME ~Threaded, TypeInv, ClientInv, NEW t \in Threads, MayStart(t),
           UNCHANGED <<cached, conn, owner>>, NEW ops \in Seq(Items(t)), Starts(t, ops),
           Cleared(ops), \A i \in 1 .. Len(ops) : Safe(Keeper(t), owner, ops[i])
    PROVE  StaleInv'
<1>1. \A u \in Threads : agenda[u] = <<>>
  BY DEF MayStart, Running
<1>2. agenda'[t] = ops /\ \A u \in Threads \ {t} : agenda'[u] = <<>>
  BY <1>1 DEF Starts, TypeInv, AgendaInv
<1>3. Keeper(t)' = Keeper(t) /\ owner' = owner
  BY DEF Keeper
<1>4. \A u \in Threads \ {t} : Cleared(agenda'[u]) /\ 1 .. Len(agenda'[u]) = {}
  BY <1>2 DEF Cleared
<1> QED  BY <1>2, <1>3, <1>4 DEF StaleInv

LEMMA StaleCommand ==
    ASSUME ~Threaded, TypeInv, ClientInv, NEW h \in Chans, Command(h)
    PROVE  StaleInv'
<1> DEFINE P == Good(h, Keeper(h), owner)
<1>1. h \in Threads /\ MayStart(h) /\ UNCHANGED <<cached, conn, owner>> /\ Keeper(h) \in SUBSET Clients
  BY DEF Command, CmdSearch, CmdStop, CmdSettings, CmdRecord, CmdTermlist, CmdShow, Request,
         sessionVars, clientVars, connVars, Threads, Keeper, TypeInv, DataInv
<1>2. /\ \A op \in CommandOps \ {"session_search"} : <<op, None>> \in P
      /\ Own \subseteq P
      /\ \A op \in AnswerOps \cup {"reply"} : <<op, h>> \in P
  BY <1>1, GoodChan, GoodAnswer
<1>3. \A x \in P : x \in Items(h) /\ ~Clearing(x) /\ Safe(Keeper(h), owner, x)
  BY DEF Good
<1> HIDE DEF P
<1>4. CASE CmdSearch(h)
  <2> DEFINE x == <<"session_search", None>>
             y == <<"reply", h>>
             ops == <<x, y>>
  <2>1. Starts(h, <<x>> \o <<y>>) /\ <<x, y>> = <<x>> \o <<y>>
    BY <1>4 DEF CmdSearch, Request, Reply
  <2>2. x \in Items(h) /\ y \in Items(h)
    BY <1>2, <1>3, CalmHas DEF Commanding, CommandOps, Items
  <2>3. Safe(Keeper(h), owner, x) /\ Safe(Keeper(h), owner, y) /\ Bare(y)
    BY PhaseSafe DEF Bare
  <2>4. Starts(h, ops)
    BY <2>1
  <2> HIDE DEF x, y
  <2>5. ops \in Seq(Items(h)) /\ Len(ops) = 2 /\ ops[1] = x /\ ops[2] = y
    BY <2>2
  <2> HIDE DEF ops
  <2>6. Cleared(ops) /\ \A i \in 1 .. Len(ops) : Safe(Keeper(h), owner, ops[i])
    BY <2>3, <2>5 DEF Cleared
  <2> QED  BY <1>1, <2>4, <2>5, <2>6, StaleStart
<1>5. CASE ~CmdSearch(h)
  <2>1. /\ <<"session_stop", None>> \in P /\ <<"session_apply_setting", None>> \in P
        /\ <<"session_sort", None>> \in P /\ <<"reply", h>> \in P /\ <<"show_record", h>> \in P
    BY <1>2 DEF CommandOps, AnswerOps
  <2>2. <<"cmd_termlist", None>> \in P /\ <<"cmd_show", "show">> \in P /\ <<"cmd_show", "pref">> \in P
    BY <1>2 DEF Own
  <2>3. \A x, y \in P : <<x>> \in Seq(P) /\ <<x, y>> \in Seq(P)
    BY Short
  <2>4. \E ops \in Seq(P) : Starts(h, ops)
    <3>1. /\ << <<"session_stop", None>>, <<"reply", h>> >>
                = << <<"session_stop", None>> >> \o << <<"reply", h>> >>
          /\ << <<"session_apply_setting", None>>, <<"reply", h>> >>
                = << <<"session_apply_setting", None>> >> \o << <<"reply", h>> >>
      OBVIOUS
    <3>2. CASE CmdStop(h)
      <4>1. Starts(h, << <<"session_stop", None>>, <<"reply", h>> >>)
        BY <3>1, <3>2 DEF CmdStop, Request, Reply
      <4> QED  BY <2>1, <2>3, <4>1
    <3>3. CASE CmdSettings(h)
      <4>1. Starts(h, << <<"session_apply_setting", None>>, <<"reply", h>> >>)
        BY <3>1, <3>3 DEF CmdSettings, Request, Reply
      <4> QED  BY <2>1, <2>3, <4>1
    <3>4. CASE CmdRecord(h)
      BY <2>1, <2>3, <3>4 DEF CmdRecord, Request
    <3>5. CASE CmdTermlist(h)
      BY <2>2, <2>3, <3>5 DEF CmdTermlist, Request
    <3>6. CASE CmdShow(h)
      <4>1. \E w \in {"show", "pref"} : Starts(h, << <<"session_sort", None>>, <<"cmd_show", w>> >>)
        BY <3>6 DEF CmdShow, Request
      <4> QED  BY <2>1, <2>2, <2>3, <4>1
    <3> QED  BY <1>5, <3>2, <3>3, <3>4, <3>5, <3>6 DEF Command
  <2>5. PICK ops \in Seq(P) : Starts(h, ops)
    BY <2>4
  <2>6. ops \in Seq(Items(h)) /\ \A i \in 1 .. Len(ops) : ops[i] \in P
    BY <1>3
  <2>7. Cleared(ops) /\ \A i \in 1 .. Len(ops) : Safe(Keeper(h), owner, ops[i])
    BY <1>3, <2>6 DEF Cleared
  <2> QED  BY <1>1, <2>5, <2>6, <2>7, StaleStart
<1> QED  BY <1>4, <1>5

LEMMA StaleConn ==
    ASSUME ~Threaded, TypeInv, ClientInv, NEW k \in Conns, SocketEvent(k) \/ Timeout(k)
    PROVE  StaleInv'
<1> DEFINE c == owner[k]
           K == Keeper(k)
           P == Good(k, K, owner)
           z == <<"connection_destroy", k>>
<1>1. k \in Threads /\ MayStart(k) /\ UNCHANGED <<cached, conn, owner>> /\ K \in SUBSET Clients
  BY DEF SocketEvent, Timeout, sessionVars, clientVars, connVars, Threads, Keeper, TypeInv, DataInv
<1>2. ~Freeing(k)
  BY <1>1 DEF MayStart, Freeing, Does
<1>3. k \notin Chans
  BY SearchStateAssumption
<1>4. c # None => c \in Clients /\ c \in K
  BY <1>2, <1>3, SearchStateAssumption DEF ClientInv, OwnInv, TypeInv, DataInv, Keeper
<1>5. z \in P /\ <<"expired", k>> \in P
  BY <1>1, GoodConn DEF UndoConnOps
<1>6. c # None => Lock(c) \in P /\ Unlock(c) \in P /\ LockedEvents(c, k) \in Seq(P)
  BY <1>1, <1>4, GoodLoop
<1>7. \A x \in P : x \in Items(k) /\ ~Clearing(x) /\ Safe(K, owner, x)
  BY DEF Good
<1> HIDE DEF P, z, c, K
<1>8. (c # None => << Lock(c), <<"expired", k>>, Unlock(c) >> \in Seq(P)) /\ <<>> \in Seq(P)
      /\ <<z>> \in Seq(P)
  BY <1>5, <1>6, Short
<1>9. \E ops \in Seq(P) : Starts(k, ops)
  <2>1. CASE SocketEvent(k)
    BY <1>6, <1>8, <2>1 DEF SocketEvent, c, z
  <2>2. CASE Timeout(k)
    <3> DEFINE pre == IF c = None THEN <<>> ELSE << Lock(c), <<"expired", k>>, Unlock(c) >>
    <3>1. Starts(k, pre \o <<z>>)
      BY <2>2 DEF Timeout, c, z
    <3>2. pre \in Seq(P)
      BY <1>8
    <3> HIDE DEF pre
    <3>3. pre \o <<z>> \in Seq(P)
      BY <1>8, <3>2
    <3> QED  BY <3>1, <3>3
  <2> QED  BY <2>1, <2>2
<1>10. PICK ops \in Seq(P) : Starts(k, ops)
  BY <1>9
<1>11. ops \in Seq(Items(k)) /\ \A i \in 1 .. Len(ops) : ops[i] \in P
  BY <1>7
<1>12. Cleared(ops) /\ \A i \in 1 .. Len(ops) : Safe(Keeper(k), owner, ops[i])
  BY <1>7, <1>11 DEF Cleared, K
<1> QED  BY <1>1, <1>10, <1>11, <1>12, StaleStart

LEMMA StaleNext ==
    ASSUME ~Threaded, TypeInv, ClientInv, StaleInv, [Next]_vars
    PROVE  StaleInv'
<1>1. ASSUME NEW t \in Threads, Step(t) PROVE StaleInv'
  <2>1. CASE ~Clears(t) /\ ~Undoes(t)
    <3>1. PlainThen(t, Good(t, Keeper(t)', owner'))
      BY <1>1, <2>1, TameGood
    <3> QED  BY <1>1, <2>1, <3>1, TameStays, GoodMove DEF ClientInv
  <2> QED  BY <2>1, ClearKeeps, UndoKeeps
<1>2. ASSUME UNCHANGED <<agenda, cached, conn, owner>> PROVE StaleInv'
  BY <1>2 DEF StaleInv, Keeper
<1>3. ASSUME NEW h \in Chans, ChannelDestroy(h) PROVE StaleInv'
  BY <1>2, <1>3 DEF ChannelDestroy, clientVars, connVars
<1>4. CASE UNCHANGED vars
  BY <1>2, <1>4 DEF vars, sessionVars, clientVars, connVars
<1> QED  BY <1>1, <1>3, <1>4, StaleCommand, StaleConn DEF Next

LEMMA StaleFacts ==
    ASSUME TypeInv, ClientInv, StaleInv
    PROVE  NoStaleClient
<1>1. \A c \in Clients : c \in cached \/ conn[c] # None => ref[c] > 0
  BY DEF ClientInv, RefInv, One
<1>2. active \subseteq cached /\ cached \subseteq Clients
  BY DEF ClientInv, ActiveInv, TypeInv, DataInv
<1>3. \A t : \A c \in Keeper(t) : ref[c] > 0
  BY <1>1, <1>2 DEF Keeper
<1>4. ASSUME NEW t \in Threads, NEW i \in 1 .. Len(agenda[t]), NEW c \in Touches(agenda[t][i])
      PROVE  ref[c] > 0
  <2> DEFINE a == agenda[t]
  <2>1. a \in Seq(Items(t)) /\ a[i] \in Items(t)
    BY DEF TypeInv, AgendaInv
  <2>2. CASE a[i][1] # "drop"
    BY <1>3, <1>4, <2>2 DEF StaleInv, Safe
  <2>3. CASE a[i][1] = "drop"
    <3>1. i = 1
      BY <1>4, <2>1, <2>3 DEF ClientInv, HandlerInv, Phased, PhaseSetOps
    <3>2. Running(t) /\ Does(t, "drop") /\ Arg(t) = a[i][2]
      BY <1>4, <2>1, <2>3, <3>1 DEF Does, Running, Arg
    <3>3. c \in a[i][2] /\ a[i][2] \subseteq Clients
      BY <1>4, <2>1, <2>3, ItemArgs DEF Touches, TouchOps, TouchSetOps, PhaseSetOps
    <3>4. Taken("drop", c) /\ c \in Clients
      BY <3>2, <3>3 DEF Taken
    <3> QED  BY <3>4 DEF ClientInv, RefInv, One
  <2> QED  BY <2>2, <2>3
<1>5. \A t \in Threads : DOMAIN agenda[t] = 1 .. Len(agenda[t])
  BY DEF TypeInv, AgendaInv
<1> QED  BY <1>1, <1>2, <1>4, <1>5 DEF NoStaleClient

(* No handler comes back to a client that was freed: whatever it still has *)
(* to do, after any of the calls it makes and whatever they released or    *)
(* dropped, is with clients that the session or a connection still keeps   *)
(* (client.c client_destroy, session.c session_remove_cached_clients,      *)
(* connection.c non_block_events).                                         *)
THEOREM NoStaleClientAlways ==
    ASSUME ~Threaded
    PROVE  Spec => []NoStaleClient
<1>1. Init => StaleInv
  BY DEF Init, StaleInv, Cleared
<1>2. TypeInv /\ ClientInv /\ StaleInv /\ [Next]_vars => StaleInv'
  BY StaleNext
<1>3. TypeInv /\ ClientInv /\ StaleInv => NoStaleClient
  BY StaleFacts
<1> QED  BY ClientSafety, <1>1, <1>2, <1>3, PTL DEF Spec

-----------------------------------------------------------------------------
(* What a step leaves to do                                                *)

Selected == {"session_alert_watch", "search_clients", "started"}
ClearNames(op) ==
    PhaseNames \cup {"select_targets"} \cup (IF op = "select_targets" THEN Selected ELSE {})

LEMMA ClearOps ==
    ASSUME TypeInv, ClientInv, NEW t \in Threads, Clears(t)
    PROVE  PlainThen(t, {x \in Items(t) : x[1] \in ClearNames(Head(agenda[t])[1])})
<1> DEFINE P == {x \in Items(t) : x[1] \in ClearNames(Head(agenda[t])[1])}
<1>1. /\ t \in Chans /\ active \in SUBSET Clients /\ cached \in SUBSET Clients
      /\ Head(agenda[t])[1] \in PhaseSetOps => Arg(t) \in SUBSET Clients
  BY PhaseHeads DEF TypeInv, DataInv
<1>2. /\ \A op \in PhaseOps : <<op, None>> \in P
      /\ \A op \in PhaseSetOps : \A S \in SUBSET Clients : <<op, S>> \in P
      /\ <<"select_targets", None>> \in P
  BY PhaseHeads DEF ClearNames, PhaseNames
<1>3. SelectTargets(t) => AlertAll \in Seq(P) /\ Start \in P
  <2> SUFFICES ASSUME SelectTargets(t) PROVE AlertAll \in Seq(P) /\ Start \in P
    OBVIOUS
  <2>1. (\A w \in Watches : Alert(w) \in Items(t)) /\ Start \in Items(t)
    BY <1>1, GoodLoop, GoodChan DEF Good
  <2>2. (\A w \in Watches : Alert(w) \in P) /\ Start \in P
    BY <2>1 DEF Alert, Start, ClearNames, Selected, SelectTargets, Does
  <2> HIDE DEF P
  <2> QED  BY <2>2, Short DEF AlertAll, Watches
<1>4. SelectTargets(t) => \A S \in SUBSET Clients : <<"search_clients", S>> \in P
  <2>1. \A S \in SUBSET Clients : <<"search_clients", S>> \in Items(t)
    BY <1>1, CalmHas DEF Commanding, CommandSetOps, Items
  <2> QED  BY <2>1 DEF ClearNames, Selected, SelectTargets, Does
<1> SUFFICES PlainThen(t, P)
  OBVIOUS
<1> HIDE DEF P
<1>5. /\ Done(t) => PlainThen(t, P)
      /\ \A x \in P : <<x>> \in Seq(P) /\ (Then(t, <<x>>) => PlainThen(t, P))
      /\ \A x, y \in P : <<x, y>> \in Seq(P)
      /\ \A x, y, z \in P : <<x, y, z>> \in Seq(P)
  <2>1. /\ <<>> \in Seq(P) /\ (\A x \in P : <<x>> \in Seq(P)) /\ (\A x, y \in P : <<x, y>> \in Seq(P))
        /\ \A x, y, z \in P : <<x, y, z>> \in Seq(P)
    BY Short
  <2> QED  BY <2>1 DEF Done, PlainThen
<1>6. CASE SessionSearch(t)
  <2> DEFINE x == <<"reset_active", None>>
             y == <<"drop_cached", None>>
             z == <<"select_targets", None>>
  <2>1. x \in P /\ y \in P /\ z \in P
    BY <1>2 DEF PhaseOps
  <2>2. <<x>> \o <<y>> \o <<z>> = <<x, y, z>> /\ <<x>> \o <<>> \o <<z>> = <<x, z>>
    BY Joined
  <2>3. Done(t) \/ Then(t, <<x>> \o (IF modified THEN <<y>> ELSE <<>>) \o <<z>>)
    BY <1>6 DEF SessionSearch
  <2> HIDE DEF x, y, z
  <2>4. <<x, y, z>> \in Seq(P) /\ <<x, z>> \in Seq(P)
    BY <1>5, <2>1
  <2>5. CASE modified
    BY <1>5, <2>2, <2>3, <2>4, <2>5 DEF PlainThen
  <2>6. CASE ~modified
    BY <1>5, <2>2, <2>3, <2>4, <2>6 DEF PlainThen
  <2> QED  BY <2>5, <2>6
<1>7. CASE ResetActive(t)
  BY <1>1, <1>2, <1>5, <1>7 DEF ResetActive, PhaseSetOps
<1>8. CASE DropCached(t)
  BY <1>1, <1>2, <1>5, <1>8 DEF DropCached, PhaseSetOps
<1>9. CASE Detach(t)
  <2>1. Arg(t) \in SUBSET Clients
    BY <1>1, <1>9 DEF Detach, Does, PhaseSetOps
  <2>2. \A c : <<"detach", Arg(t) \ {c}>> \in P
    BY <1>2, <2>1 DEF PhaseSetOps
  <2> QED  BY <1>5, <1>9, <2>2 DEF Detach
<1>10. CASE Drop(t)
  <2>1. Arg(t) \in SUBSET Clients
    BY <1>1, <1>10 DEF Drop, Does, PhaseSetOps
  <2>2. \A c : <<"drop", Arg(t) \ {c}>> \in P
    BY <1>2, <2>1 DEF PhaseSetOps
  <2> QED  BY <1>5, <1>10, <2>2 DEF Drop
<1>11. CASE SelectTargets(t)
  <2>1. <<"reset_active", None>> \in P
    BY <1>2 DEF PhaseOps
  <2>2. ASSUME NEW S \in SUBSET Clients,
               Then(t, AlertAll \o << <<"search_clients", S>>, <<"started", None>> >>)
        PROVE  PlainThen(t, P)
    <3> DEFINE two == << <<"search_clients", S>>, <<"started", None>> >>
    <3>1. two \in Seq(P)
      BY <1>3, <1>4, <1>5, <1>11 DEF Start
    <3>2. Then(t, AlertAll \o two)
      BY <2>2
    <3> HIDE DEF two
    <3>3. AlertAll \o two \in Seq(P)
      BY <1>3, <1>11, <3>1
    <3> QED  BY <3>2, <3>3 DEF PlainThen
  <2> QED  BY <1>5, <1>11, <2>1, <2>2 DEF SelectTargets
<1> QED  BY <1>6, <1>7, <1>8, <1>9, <1>10, <1>11 DEF Clears

LEMMA UndoOps ==
    ASSUME TypeInv, ClientInv, NEW t \in Threads, Undoes(t)
    PROVE  PlainThen(t, {x \in Items(t) : x[1] \in UndoNames \cup {"client_disconnect"}})
<1> DEFINE P == {x \in Items(t) : x[1] \in UndoNames \cup {"client_disconnect"}}
<1>1. Step(t) /\ Running(t) /\ ~Does(t, "unset_connection") => Arg(t) \in Conns
  BY UndoHeads
<1>2. CASE Done(t)
  BY <1>2, Short DEF Done, PlainThen
<1>3. CASE ConnectionDestroy(t)
  <2> DEFINE k == Arg(t)
             c == owner[k]
             x == <<"client_disconnect", c>>
             y == <<"unset_connection", c>>
             z == <<"free", k>>
  <2>1. t \in Conns /\ k \in Conns
    <3>1. Running(t) /\ Head(agenda[t])[1] = "connection_destroy"
      BY <1>3 DEF ConnectionDestroy, Does
    <3>2. Head(agenda[t]) \in Items(t)
      BY <3>1, HeadKinds
    <3> QED  BY <3>1, <3>2, ItemKinds, ItemArgs DEF Arg, UndoNames, UndoConnOps
  <2>2. c # None => c \in Clients
    BY <2>1 DEF TypeInv, DataInv
  <2>3. z \in P /\ (c # None => x \in P /\ y \in P)
    <3>1. z \in Undoing /\ (c # None => x \in Closing /\ y \in Undoing)
      BY <2>1, <2>2 DEF Closing, Undoing, UndoConnOps
    <3>2. Closing \cup Undoing \subseteq Items(t)
      BY <2>1, CalmHas DEF Items
    <3> QED  BY <3>1, <3>2 DEF UndoNames, UndoConnOps
  <2>4. Then(t, (IF c = None THEN <<>> ELSE <<x, y>>) \o <<z>>)
    BY <1>3 DEF ConnectionDestroy
  <2> HIDE DEF c, x, y, z, P
  <2>5. (IF c = None THEN <<>> ELSE <<x, y>>) \in Seq(P) /\ <<z>> \in Seq(P)
    BY <2>3, Short
  <2>6. (IF c = None THEN <<>> ELSE <<x, y>>) \o <<z>> \in Seq(P)
    BY <2>5
  <2> QED  BY <2>4, <2>6 DEF PlainThen, P
<1> QED  BY <1>2, <1>3 DEF Undoes, UnsetConnection, FreeConnection

(* Only those of RareCalls leave what is rare.                             *)
LEMMA StepLeaves ==
    ASSUME TypeInv, ClientInv, StaleInv, NEW t \in Threads, Step(t)
    PROVE  PlainThen(t, Left(Head(agenda[t])[1], Items(t)))
<1> DEFINE op == Head(agenda[t])[1]
           P == Left(op, Items(t))
<1>1. \A Q : Q \subseteq P /\ PlainThen(t, Q) => PlainThen(t, P)
  <2>1. \A Q : Q \subseteq P => Seq(Q) \subseteq Seq(P)
    OBVIOUS
  <2> QED  BY <2>1 DEF PlainThen
<1>2. CASE Clears(t)
  <2>1. {x \in Items(t) : x[1] \in ClearNames(op)} \subseteq P
    BY DEF Left, Rare, RareCalls, ClearNames, Selected, PhaseNames, PhaseOps, PhaseSetOps
  <2> QED  BY <1>1, <1>2, <2>1, ClearOps
<1>3. CASE Undoes(t)
  <2>1. CASE Done(t)
    BY <2>1, Short DEF Done, PlainThen
  <2>2. CASE ConnectionDestroy(t)
    <3>1. op = "connection_destroy"
      BY <2>2 DEF ConnectionDestroy, Does
    <3>2. {x \in Items(t) : x[1] \in UndoNames \cup {"client_disconnect"}} \subseteq P
      BY <3>1 DEF Left, Rare, RareCalls, UndoNames, UndoConnOps
    <3> QED  BY <1>1, <1>3, <3>2, UndoOps
  <2> QED  BY <1>3, <2>1, <2>2 DEF Undoes, UnsetConnection, FreeConnection
<1>4. CASE ~Clears(t) /\ ~Undoes(t)
  <2>1. Left(op, Good(t, Keeper(t)', owner')) \subseteq P
    BY DEF Left, Good
  <2> QED  BY <1>1, <1>4, <2>1, TameGood
<1> QED  BY <1>2, <1>3, <1>4

-----------------------------------------------------------------------------
(* The session mutex                                                       *)

Fetches(x) == x[1] = "session_fetch_more"

(* The n places of a where more records are fetched.                       *)
Places(a, n, f) ==
    /\ f \in [1 .. n -> 1 .. Len(a)]
    /\ \A i, j \in 1 .. n : i < j => f[i] < f[j]
    /\ \A j \in 1 .. Len(a) : Fetches(a[j]) <=> \E i \in 1 .. n : f[i] = j
Held(a, n) == \E f : Places(a, n, f)

(* Who fetches more records has the session mutex, once for each time.     *)
MutexInv ==
    /\ smutex \in Seq(Threads)
    /\ \A t \in Threads : Running(t) => Held(agenda[t], Len(smutex))
    /\ Quiet => smutex = <<>>

LEMMA HeldStays ==
    ASSUME NEW S, NEW a \in Seq(S), a # <<>>, NEW ops \in Seq(S), NEW n \in Nat, Held(a, n),
           Fetches(a[1]) => ops # <<>>,
           \A i \in 1 .. Len(ops) : Fetches(ops[i]) <=> Fetches(a[1]) /\ i = Len(ops)
    PROVE  Held(ops \o Tail(a), n)
<1> DEFINE b == ops \o Tail(a)
           m == Len(ops)
<1>1. /\ Len(b) = m + Len(a) - 1
      /\ \A i \in 1 .. m : b[i] = ops[i]
      /\ \A i \in m + 1 .. m + Len(a) - 1 : b[i] = a[i - m + 1]
      /\ Len(a) \in Nat \ {0} /\ m \in Nat /\ (ops # <<>> => m > 0)
  BY ThenSeq
<1>2. PICK f : Places(a, n, f)
  BY DEF Held
<1> DEFINE g == [i \in 1 .. n |-> f[i] + m - 1]
<1>3. \A i \in 1 .. n : f[i] \in 1 .. Len(a) /\ Fetches(a[f[i]]) /\ g[i] = f[i] + m - 1
  BY <1>2 DEF Places
<1> HIDE DEF m, b
<1>4. \A i \in 1 .. n : g[i] \in 1 .. Len(b)
  BY <1>1, <1>3
<1>5. g \in [1 .. n -> 1 .. Len(b)]
  BY <1>4
<1>6. \A i, j \in 1 .. n : i < j => g[i] < g[j]
  BY <1>1, <1>2, <1>3 DEF Places
<1> HIDE DEF g
<1>7. ASSUME NEW j \in 1 .. Len(b) PROVE Fetches(b[j]) <=> \E i \in 1 .. n : g[i] = j
  <2>1. CASE j < m
    <3>1. ~Fetches(b[j])
      BY <1>1, <2>1 DEF m
    <3>2. \A i \in 1 .. n : f[i] \in Nat /\ f[i] >= 1 /\ g[i] = f[i] + m - 1
      BY <1>1, <1>3
    <3>3. \A i \in 1 .. n : g[i] >= m
      BY <1>1, <3>2
    <3> QED  BY <1>1, <2>1, <3>1, <3>3
  <2>2. CASE j >= m
    <3>1. j - m + 1 \in 1 .. Len(a)
      BY <1>1, <2>2
    <3>2. Fetches(b[j]) <=> Fetches(a[j - m + 1])
      <4>1. CASE j > m
        BY <1>1, <4>1
      <4>2. CASE j = m
        <5>1. b[j] = ops[j] /\ j \in 1 .. Len(ops) /\ j - m + 1 = 1
          BY <1>1, <4>2 DEF m
        <5> QED  BY <4>2, <5>1 DEF m
      <4> QED  BY <1>1, <2>2, <4>1, <4>2
    <3>3. Fetches(a[j - m + 1]) <=> \E i \in 1 .. n : f[i] = j - m + 1
      BY <1>2, <3>1 DEF Places
    <3>4. ASSUME NEW i \in 1 .. n PROVE (f[i] = j - m + 1) <=> (g[i] = j)
      <4>1. f[i] \in Nat /\ g[i] = f[i] + m - 1 /\ m \in Nat /\ j \in Nat
        BY <1>1, <1>3
      <4>2. \A x, y, z, u \in Int : y = x + z - 1 => (x = u - z + 1 <=> y = u)
        OBVIOUS
      <4>3. f[i] \in Int /\ g[i] \in Int /\ m \in Int /\ j \in Int
        BY <4>1
      <4> QED  BY <4>1, <4>2, <4>3
    <3> QED  BY <3>2, <3>3, <3>4
  <2> QED  BY <1>1, <2>1, <2>2
<1> QED  BY <1>5, <1>6, <1>7 DEF Held, Places, b

LEMMA HeldMore ==
    ASSUME NEW S, NEW a \in Seq(S), a # <<>>, NEW x \in S, NEW n \in Nat, Held(a, n),
           ~Fetches(a[1]), Fetches(x)
    PROVE  Held(<<x>> \o Tail(a), n + 1)
<1> DEFINE b == <<x>> \o Tail(a)
<1>1. /\ Len(b) = Len(a) /\ b[1] = x /\ Len(a) \in Nat \ {0}
      /\ \A i \in 2 .. Len(a) : b[i] = a[i]
  OBVIOUS
<1>2. PICK f : Places(a, n, f)
  BY DEF Held
<1> DEFINE g == [i \in 1 .. n + 1 |-> IF i = 1 THEN 1 ELSE f[i - 1]]
<1> HIDE DEF b
<1>3. \A i \in 1 .. n : f[i] \in 2 .. Len(a)
  BY <1>1, <1>2 DEF Places
<1>4. g[1] = 1 /\ \A i \in 1 .. n : g[i + 1] = f[i]
  OBVIOUS
<1>5. g \in [1 .. n + 1 -> 1 .. Len(b)]
  BY <1>1, <1>3
<1> HIDE DEF g
<1>6. \A i \in 1 .. n + 1 : i = 1 \/ (i - 1 \in 1 .. n /\ g[i] = f[i - 1])
  <2>1. \A i \in 1 .. n + 1 : i # 1 => i - 1 \in 1 .. n /\ i - 1 + 1 = i
    OBVIOUS
  <2> QED  BY <1>4, <2>1
<1>7. \A i, j \in 1 .. n + 1 : i < j => g[i] < g[j]
  <2> SUFFICES ASSUME NEW i \in 1 .. n + 1, NEW j \in 1 .. n + 1, i < j PROVE g[i] < g[j]
    OBVIOUS
  <2>1. j - 1 \in 1 .. n /\ g[j] = f[j - 1]
    BY <1>6
  <2>2. CASE i = 1
    BY <1>3, <1>4, <2>1, <2>2
  <2>3. CASE i # 1
    BY <1>2, <1>6, <2>1, <2>3 DEF Places
  <2> QED  BY <2>2, <2>3
<1>8. ASSUME NEW j \in 1 .. Len(b) PROVE Fetches(b[j]) <=> \E i \in 1 .. n + 1 : g[i] = j
  <2>1. CASE j = 1
    BY <1>1, <1>4, <2>1
  <2>2. CASE j # 1
    <3>1. b[j] = a[j] /\ j \in 1 .. Len(a)
      BY <1>1, <2>2
    <3>2. Fetches(a[j]) <=> \E i \in 1 .. n : f[i] = j
      BY <1>2, <3>1 DEF Places
    <3>3. (\E i \in 1 .. n + 1 : g[i] = j) => \E i \in 1 .. n : f[i] = j
      BY <1>4, <1>6, <2>2
    <3>4. (\E i \in 1 .. n : f[i] = j) => \E i \in 1 .. n + 1 : g[i] = j
      <4>1. \A i \in 1 .. n : i + 1 \in 1 .. n + 1
        OBVIOUS
      <4> QED  BY <1>4, <4>1
    <3> QED  BY <3>1, <3>2, <3>3, <3>4
  <2> QED  BY <2>1, <2>2
<1> QED  BY <1>5, <1>7, <1>8 DEF Held, Places, b

LEMMA HeldLess ==
    ASSUME NEW S, NEW a \in Seq(S), a # <<>>, NEW x \in S, NEW n \in Nat, Held(a, n),
           Fetches(a[1]), ~Fetches(x)
    PROVE  n > 0 /\ Held(<<x>> \o Tail(a), n - 1)
<1> DEFINE b == <<x>> \o Tail(a)
<1>1. /\ Len(b) = Len(a) /\ b[1] = x /\ Len(a) \in Nat \ {0}
      /\ \A i \in 2 .. Len(a) : b[i] = a[i]
  OBVIOUS
<1>2. PICK f : Places(a, n, f)
  BY DEF Held
<1> DEFINE g == [i \in 1 .. n - 1 |-> f[i + 1]]
<1> HIDE DEF b
<1>3. PICK i \in 1 .. n : f[i] = 1
  BY <1>1, <1>2 DEF Places
<1>4. i = 1 /\ n > 0 /\ \A j \in 1 .. n : f[j] \in 1 .. Len(a)
  <2>1. \A j \in 1 .. n : f[j] \in 1 .. Len(a)
    BY <1>2 DEF Places
  <2>2. i > 1 => 1 \in 1 .. n /\ f[1] < f[i] /\ f[1] > 0
    BY <1>2, <2>1 DEF Places
  <2> QED  BY <1>3, <2>1, <2>2
<1>5. \A j \in 1 .. n - 1 : j + 1 \in 1 .. n /\ g[j] = f[j + 1] /\ f[j + 1] \in 2 .. Len(a)
  <2>1. \A j \in 1 .. n - 1 : j + 1 \in 1 .. n /\ g[j] = f[j + 1] /\ 1 < j + 1 /\ 1 \in 1 .. n
    OBVIOUS
  <2>2. \A j \in 1 .. n - 1 : f[1] < f[j + 1]
    BY <1>2, <2>1 DEF Places
  <2> QED  BY <1>3, <1>4, <2>1, <2>2
<1>6. g \in [1 .. n - 1 -> 1 .. Len(b)]
  BY <1>1, <1>5
<1> HIDE DEF g
<1>7. \A j, k \in 1 .. n - 1 : j < k => g[j] < g[k]
  BY <1>2, <1>5 DEF Places
<1>8. ASSUME NEW j \in 1 .. Len(b) PROVE Fetches(b[j]) <=> \E k \in 1 .. n - 1 : g[k] = j
  <2>1. CASE j = 1
    BY <1>1, <1>5, <2>1
  <2>2. CASE j # 1
    <3>1. b[j] = a[j] /\ j \in 1 .. Len(a)
      BY <1>1, <2>2
    <3>2. Fetches(a[j]) <=> \E k \in 1 .. n : f[k] = j
      BY <1>2, <3>1 DEF Places
    <3>3. (\E k \in 1 .. n - 1 : g[k] = j) => \E k \in 1 .. n : f[k] = j
      BY <1>5
    <3>4. (\E k \in 1 .. n : f[k] = j) => \E k \in 1 .. n - 1 : g[k] = j
      <4>1. \A k \in 1 .. n : f[k] = j => k # 1
        BY <1>3, <1>4, <2>2
      <4>2. \A k \in 1 .. n : k # 1 => k - 1 \in 1 .. n - 1 /\ k - 1 + 1 = k
        OBVIOUS
      <4>3. \A k \in 1 .. n : k # 1 => g[k - 1] = f[k]
        BY <1>5, <4>2
      <4> QED  BY <4>1, <4>2, <4>3
    <3> QED  BY <3>1, <3>2, <3>3, <3>4
  <2> QED  BY <2>1, <2>2
<1> QED  BY <1>4, <1>6, <1>7, <1>8 DEF Held, Places, b

LEMMA HeldNone ==
    ASSUME NEW S, NEW a \in Seq(S), \A i \in 1 .. Len(a) : ~Fetches(a[i])
    PROVE  Held(a, 0) /\ \A n \in Nat : Held(a, n) => n = 0
<1> DEFINE f == [i \in 1 .. 0 |-> 1]
<1>1. f \in [1 .. 0 -> 1 .. Len(a)] /\ 1 .. 0 = {}
  OBVIOUS
<1>2. Places(a, 0, f)
  BY <1>1 DEF Places
<1>3. ASSUME NEW n \in Nat, NEW g, Places(a, n, g), n # 0 PROVE FALSE
  <2>1. 1 \in 1 .. n
    BY <1>3
  <2>2. g[1] \in 1 .. Len(a)
    BY <1>3, <2>1 DEF Places
  <2>3. Fetches(a[g[1]])
    BY <1>3, <2>1, <2>2 DEF Places
  <2> QED  BY <2>2, <2>3
<1> QED  BY <1>2, <1>3 DEF Held

LEMMA OnlyFetches ==
    ASSUME NEW t \in Threads, Step(t)
    PROVE  /\ Does(t, "session_fetch_more") => FetchMore(t) \/ FetchedMore(t)
           /\ Does(t, "show_records") => ShowRecords(t)
<1> SUFFICES ASSUME Does(t, "session_fetch_more") \/ Does(t, "show_records")
             PROVE  /\ Does(t, "session_fetch_more") => FetchMore(t) \/ FetchedMore(t)
                    /\ Does(t, "show_records") => ShowRecords(t)
  OBVIOUS
<1>1. ~CommandStep(t)
  BY DEF CommandStep, ApplySetting, ShowDecides, ShowWaits, TermlistDecides, TermlistWaits,
         Respond, Does
<1>2. ~ClientStep(t)
  BY DEF ClientStep, ClientLock, ClientUnlock, ReuseConnection, CreateConnection, ConnectFails,
         StartSearch, NoMoreEvents, IgnoredEvent, SendApdu, RecvError, RecvRecord, End, GotRecords,
         PreferredCheck, RecordsCheck, Expired, ConnectionDestroy, ClientDisconnect,
         UnsetConnection, FreeConnection, Does, Event
<1>3. SessionStep(t)
  BY <1>1, <1>2 DEF Step
<1> QED
  BY <1>3
  DEF SessionStep, SessionSearch, ResetActive, Detach, DropCached, Drop, SelectTargets,
      SearchClients, Started, SessionSort, SortClients, SessionStop, StopClients, ClientStop,
      SessionAlertWatch, ShowRecords, FetchMore, FetchedMore, ShowAgain, ShowRecord, RecordWatch, Does

LEMMA MutexStays ==
    ASSUME NEW t \in Threads, Step(t), ~ShowRecords(t), ~FetchedMore(t)
    PROVE  smutex' = smutex
<1>1. CASE ClientStep(t)
  BY <1>1
  DEF ClientStep, ClientLock, ClientUnlock, ReuseConnection, CreateConnection, ConnectFails,
      StartSearch, NoMoreEvents, IgnoredEvent, SendApdu, RecvError, RecvRecord, End, GotRecords,
      PreferredCheck, RecordsCheck, Expired, ConnectionDestroy, ClientDisconnect,
      UnsetConnection, FreeConnection, sessionVars
<1>2. CASE SessionStep(t)
  BY <1>2
  DEF SessionStep, SessionSearch, ResetActive, Detach, DropCached, Drop, SelectTargets,
      SearchClients, Started, SessionSort, SortClients, SessionStop, StopClients, ClientStop,
      SessionAlertWatch, FetchMore, ShowAgain, ShowRecord, RecordWatch, SessionSetWatch, sessionVars
<1>3. CASE CommandStep(t)
  BY <1>3
  DEF CommandStep, ApplySetting, ShowDecides, ShowWaits, TermlistDecides, TermlistWaits, Respond,
      SessionSetWatch, sessionVars
<1> QED  BY <1>1, <1>2, <1>3 DEF Step

LEMMA MutexMove ==
    ASSUME TypeInv, ClientInv, NEW t \in Threads, Step(t), smutex' \in Seq(Threads),
           Held(agenda'[t], Len(smutex'))
    PROVE  MutexInv'
<1>1. AgendaInv' /\ \A u \in Threads \ {t} : agenda'[u] = <<>>
  BY Sole DEF ClientInv
<1>2. \A u \in Threads : Running(u)' => Held(agenda'[u], Len(smutex'))
  BY <1>1 DEF Running
<1>3. ASSUME Quiet' PROVE smutex' = <<>>
  <2>1. agenda'[t] = <<>>
    BY <1>3 DEF Quiet, Running
  <2>2. Len(smutex') \in Nat /\ (Len(smutex') = 0 => smutex' = <<>>)
    OBVIOUS
  <2>3. <<>> \in Seq(Items(t)) /\ \A i \in 1 .. Len(<<>>) : ~Fetches(<<>>[i])
    OBVIOUS
  <2>4. \A n \in Nat : Held(<<>>, n) => n = 0
    BY <2>3, HeldNone
  <2> QED  BY <2>1, <2>2, <2>4
<1> QED  BY <1>2, <1>3 DEF MutexInv

(* A step that leaves ops to be done, the session mutex being as it was.   *)
LEMMA MutexKept ==
    ASSUME TypeInv, ClientInv, MutexInv, NEW t \in Threads, Step(t), smutex' = smutex,
           NEW ops \in Seq(Items(t)), Then(t, ops),
           Fetches(Head(agenda[t])) => ops # <<>>,
           \A i \in 1 .. Len(ops) :
               Fetches(ops[i]) <=> Fetches(Head(agenda[t])) /\ i = Len(ops)
    PROVE  MutexInv'
<1> DEFINE a == agenda[t]
           n == Len(smutex)
<1>1. a \in Seq(Items(t)) /\ a # <<>> /\ Head(a) = a[1] /\ Running(t) /\ AgendaInv
  BY Sole DEF ClientInv, TypeInv
<1>2. agenda'[t] = ops \o Tail(a)
  BY <1>1, AgendaMoves
<1>3. n \in Nat /\ Held(a, n)
  BY <1>1 DEF MutexInv
<1> HIDE DEF a, n
<1>4. Held(ops \o Tail(a), n)
  BY <1>1, <1>3, HeldStays DEF a
<1> QED  BY <1>2, <1>4, MutexMove DEF n, MutexInv

LEMMA MutexStep ==
    ASSUME TypeInv, ClientInv, StaleInv, MutexInv, NEW t \in Threads, Step(t)
    PROVE  MutexInv'
<1> DEFINE a == agenda[t]
           n == Len(smutex)
<1>1. /\ a \in Seq(Items(t)) /\ a # <<>> /\ Head(a) = a[1] /\ Running(t) /\ AgendaInv
      /\ Head(a) \in Items(t)
  BY Sole, HeadKinds DEF ClientInv, TypeInv
<1>2. n \in Nat /\ Held(a, n) /\ smutex \in Seq(Threads)
  BY <1>1 DEF MutexInv
<1>3. \A S \in SUBSET Clients, b \in BOOLEAN, h \in Chans :
          <<"session_fetch_more", <<h, S, b>> >> \in Items(t)
  BY DEF Items, For, Answers
<1>4. \A op \in AnswerOps : \A h \in Chans : <<op, h>> \in Items(t)
  BY DEF Items, For, Answers
<1>5. CASE ShowRecords(t) /\ ExtendRecs
  <2> DEFINE x == <<"session_fetch_more", <<Arg(t), active, FALSE>> >>
  <2>1. Arg(t) \in Chans /\ Head(a)[1] = "show_records"
    BY <1>1, <1>5, ItemArgs DEF ShowRecords, Does, Arg, AnswerOps
  <2>2. x \in Items(t) /\ Fetches(x) /\ ~Fetches(a[1])
    BY <1>1, <1>3, <2>1 DEF Fetches, TypeInv, DataInv
  <2>3. Then(t, <<x>>) /\ smutex' = <<t>> \o smutex
    BY <1>5 DEF ShowRecords
  <2> HIDE DEF x
  <2>4. agenda'[t] = <<x>> \o Tail(a)
    <3>1. <<x>> \in Seq(Items(t))
      BY <2>2
    <3> QED  BY <1>1, <2>3, <3>1, AgendaMoves
  <2> HIDE DEF a
  <2>5. Held(<<x>> \o Tail(a), n + 1)
    BY <1>1, <1>2, <2>2, HeldMore
  <2>6. smutex' \in Seq(Threads) /\ Len(smutex') = n + 1
    BY <1>2, <2>3
  <2> QED  BY <2>4, <2>5, <2>6, MutexMove
<1>6. CASE FetchedMore(t)
  <2> DEFINE x == IF Arg(t)[3] THEN <<"show_again", Arg(t)[1]>> ELSE <<"reply", Arg(t)[1]>>
  <2>1. Arg(t)[1] \in Chans /\ Head(a)[1] = "session_fetch_more"
    BY <1>1, <1>6, ItemArgs DEF FetchedMore, Does, Arg
  <2>2. x \in Items(t) /\ ~Fetches(x) /\ Fetches(a[1])
    BY <1>1, <1>4, <2>1 DEF Fetches, AnswerOps
  <2>3. Then(t, <<x>>) /\ smutex' = Tail(smutex)
    BY <1>6 DEF FetchedMore, Reply
  <2> HIDE DEF x
  <2>4. agenda'[t] = <<x>> \o Tail(a)
    <3>1. <<x>> \in Seq(Items(t))
      BY <2>2
    <3> QED  BY <1>1, <2>3, <3>1, AgendaMoves
  <2> HIDE DEF a
  <2>5. n > 0 /\ Held(<<x>> \o Tail(a), n - 1)
    BY <1>1, <1>2, <2>2, HeldLess
  <2>6. smutex' \in Seq(Threads) /\ Len(smutex') = n - 1
    BY <1>2, <2>3, <2>5
  <2> QED  BY <2>4, <2>5, <2>6, MutexMove
<1>7. CASE FetchMore(t)
  <2>1. Arg(t) \in Chans \X (SUBSET Clients) \X BOOLEAN /\ Head(a)[1] = "session_fetch_more"
    BY <1>1, <1>7, ItemArgs DEF FetchMore, Does, Arg
  <2> DEFINE rest(c, got) == <<"session_fetch_more", <<Arg(t)[1], Arg(t)[2] \ {c}, got>> >>
  <2>2. PICK c \in Arg(t)[2], got \in BOOLEAN :
           \/ Then(t, <<rest(c, got)>>)
           \/ conn[c] # None /\ Then(t, LockedEvents(c, conn[c]) \o <<rest(c, got)>>)
    <3>1. Arg(t)[3] \in BOOLEAN
      BY <2>1
    <3> QED  BY <1>7, <3>1 DEF FetchMore, ConnectionContinue
  <2> DEFINE x == rest(c, got)
  <2>3. x \in Items(t) /\ Fetches(x) /\ Fetches(Head(a))
    <3>1. Arg(t)[2] \ {c} \in SUBSET Clients /\ Arg(t)[1] \in Chans
      BY <2>1
    <3> QED  BY <1>3, <2>1, <3>1 DEF Fetches
  <2>4. smutex' = smutex
    BY <1>7 DEF FetchMore, sessionVars
  <2> HIDE DEF x
  <2>5. CASE Then(t, <<x>>)
    <3>1. <<x>> \in Seq(Items(t)) /\ Len(<<x>>) = 1 /\ <<x>>[1] = x /\ <<x>> # <<>>
      BY <2>3
    <3> DEFINE ops == <<x>>
    <3> HIDE DEF ops
    <3>2. ops \in Seq(Items(t)) /\ Len(ops) = 1 /\ ops[1] = x /\ ops # <<>> /\ Then(t, ops)
      BY <2>5, <3>1 DEF ops
    <3>3. \A i \in 1 .. Len(ops) : Fetches(ops[i]) <=> Fetches(Head(a)) /\ i = Len(ops)
      BY <2>3, <3>2
    <3> QED  BY <2>4, <3>2, <3>3, MutexKept
  <2>6. CASE conn[c] # None /\ Then(t, LockedEvents(c, conn[c]) \o <<x>>)
    <3>1. c \in Clients /\ conn[c] \in Conns
      BY <2>1, <2>6 DEF TypeInv, DataInv
    <3> DEFINE k == conn[c]
               u == Lock(c)
               v == <<"non_block_events", k>>
               w == Unlock(c)
    <3>2. u \in Items(t) /\ v \in Items(t) /\ w \in Items(t)
      <4>1. u \in Loop /\ v \in Loop /\ w \in Loop
        BY <3>1 DEF Loop, LoopClientOps, LoopConnOps, Lock, Unlock
      <4> QED  BY <4>1, CalmHas DEF Items
    <3>3. ~Fetches(u) /\ ~Fetches(v) /\ ~Fetches(w)
      BY DEF Fetches, Lock, Unlock
    <3> DEFINE ops == LockedEvents(c, k) \o <<x>>
    <3>4. LockedEvents(c, k) = <<u, v, w>>
      BY DEF LockedEvents
    <3>5. Then(t, ops)
      BY <2>6
    <3> HIDE DEF u, v, w, k
    <3>6. /\ ops \in Seq(Items(t)) /\ Len(ops) = 4 /\ ops # <<>>
          /\ ops[1] = u /\ ops[2] = v /\ ops[3] = w /\ ops[4] = x
      BY <2>3, <3>2, <3>4
    <3> HIDE DEF ops
    <3>7. \A i \in 1 .. Len(ops) : Fetches(ops[i]) <=> Fetches(Head(a)) /\ i = Len(ops)
      <4>1. \A i \in 1 .. Len(ops) : i = 1 \/ i = 2 \/ i = 3 \/ i = 4
        BY <3>6
      <4> QED  BY <2>3, <3>3, <3>6, <4>1
    <3> QED  BY <2>4, <3>5, <3>6, <3>7, MutexKept
  <2> QED  BY <2>2, <2>5, <2>6 DEF x
<1>8. CASE ~FetchMore(t) /\ ~FetchedMore(t) /\ ~(ShowRecords(t) /\ ExtendRecs)
  <2>1. ~Fetches(Head(a)) /\ smutex' = smutex
    <3>1. ~Does(t, "session_fetch_more")
      BY <1>8, OnlyFetches
    <3>2. smutex' = smutex
      BY <1>8, MutexStays DEF ShowRecords
    <3> QED  BY <1>1, <3>1, <3>2 DEF Fetches, Does
  <2>2. \E ops \in Seq({x \in Items(t) : ~Fetches(x)}) : Then(t, ops)
    <3> DEFINE Q == {x \in Items(t) : ~Fetches(x)}
    <3> SUFFICES \E ops \in Seq(Q) : Then(t, ops)
      OBVIOUS
    <3>1. CASE ShowRecords(t)
      <4>1. Arg(t) \in Chans
        BY <1>1, <3>1, ItemArgs DEF ShowRecords, Does, Arg, AnswerOps
      <4>2. <<"reply", Arg(t)>> \in Q
        BY <1>4, <4>1 DEF AnswerOps, Fetches
      <4>3. Then(t, << <<"reply", Arg(t)>> >>)
        BY <1>8, <3>1 DEF ShowRecords, Reply
      <4> HIDE DEF Q
      <4> QED  BY <4>2, <4>3, Short
    <3>2. CASE ~ShowRecords(t)
      <4>1. Head(a)[1] \notin {"show_records", "session_fetch_more"}
        BY <1>1, <2>1, <3>2, OnlyFetches DEF Fetches, Does
      <4>2. Left(Head(a)[1], Items(t)) \subseteq Q
        BY <4>1 DEF Left, Rare, RareCalls, Fetches
      <4>3. Seq(Left(Head(a)[1], Items(t))) \subseteq Seq(Q)
        BY <4>2
      <4> QED  BY <4>3, StepLeaves DEF PlainThen
    <3> QED  BY <3>1, <3>2
  <2>3. PICK ops \in Seq({x \in Items(t) : ~Fetches(x)}) : Then(t, ops)
    BY <2>2
  <2>4. ops \in Seq(Items(t)) /\ \A i \in 1 .. Len(ops) : ~Fetches(ops[i])
    OBVIOUS
  <2> QED  BY <2>1, <2>3, <2>4, MutexKept
<1> QED  BY <1>5, <1>6, <1>7, <1>8

(* What a handler starts with.                                             *)
BeginNames == {"session_search", "session_stop", "session_apply_setting", "reply", "show_record",
               "session_sort", "cmd_show", "cmd_termlist", "client_lock", "client_unlock",
               "non_block_events", "expired", "connection_destroy"}
Begins(t) ==
    /\ MayStart(t) /\ UNCHANGED <<sessionVars, clientVars, connVars>>
    /\ \E ops \in Seq({x \in Items(t) : x[1] \in BeginNames}) :
          /\ Starts(t, ops)
          /\ \A i \in 1 .. Len(ops) : ops[i][1] \in OwnNames => i = Len(ops)

LEMMA CommandBegins ==
    ASSUME NEW h \in Chans, Command(h)
    PROVE  Begins(h)
<1> DEFINE P == {x \in Items(h) : x[1] \in BeginNames}
           D(x) == x \in P /\ x[1] \notin OwnNames
<1>1. MayStart(h) /\ UNCHANGED <<sessionVars, clientVars, connVars>>
  BY DEF Command, CmdSearch, CmdStop, CmdSettings, CmdRecord, CmdTermlist, CmdShow, Request
<1>2. /\ \A op \in {"session_search", "session_stop", "session_apply_setting", "session_sort"} :
            D(<<op, None>>)
      /\ \A op \in {"reply", "show_record"} : D(<<op, h>>)
      /\ <<"cmd_termlist", None>> \in P /\ \A w \in {"show", "pref"} : <<"cmd_show", w>> \in P
  <2>1. /\ \A op \in CommandOps : <<op, None>> \in Items(h)
        /\ \A op \in AnswerOps : <<op, h>> \in Items(h)
    <3>1. \A op \in CommandOps : <<op, None>> \in Commanding
      BY DEF Commanding
    <3> QED  BY <3>1, CalmHas DEF Items, For, Answers
  <2>2. Own \subseteq Items(h)
    BY DEF Items, For
  <2>3. <<"cmd_termlist", None>> \in Own /\ \A w \in {"show", "pref"} : <<"cmd_show", w>> \in Own
    BY DEF Own
  <2> QED  BY <2>1, <2>2, <2>3 DEF BeginNames, OwnNames, CommandOps, AnswerOps
<1> HIDE DEF P
<1>3. \E x, y \in P : Starts(h, <<x>>) \/ (Starts(h, <<x, y>>) /\ D(x))
  <2>1. /\ << <<"session_stop", None>>, <<"reply", h>> >>
              = << <<"session_stop", None>> >> \o << <<"reply", h>> >>
        /\ << <<"session_apply_setting", None>>, <<"reply", h>> >>
              = << <<"session_apply_setting", None>> >> \o << <<"reply", h>> >>
        /\ << <<"session_search", None>>, <<"reply", h>> >>
              = << <<"session_search", None>> >> \o << <<"reply", h>> >>
    OBVIOUS
  <2>2. CASE CmdSearch(h)
    <3>1. Starts(h, << <<"session_search", None>>, <<"reply", h>> >>)
      BY <2>1, <2>2 DEF CmdSearch, Request, Reply
    <3> QED  BY <1>2, <3>1
  <2>3. CASE CmdStop(h)
    <3>1. Starts(h, << <<"session_stop", None>>, <<"reply", h>> >>)
      BY <2>1, <2>3 DEF CmdStop, Request, Reply
    <3> QED  BY <1>2, <3>1
  <2>4. CASE CmdSettings(h)
    <3>1. Starts(h, << <<"session_apply_setting", None>>, <<"reply", h>> >>)
      BY <2>1, <2>4 DEF CmdSettings, Request, Reply
    <3> QED  BY <1>2, <3>1
  <2>5. CASE CmdRecord(h)
    BY <1>2, <2>5 DEF CmdRecord, Request
  <2>6. CASE CmdTermlist(h)
    BY <1>2, <2>6 DEF CmdTermlist, Request
  <2>7. CASE CmdShow(h)
    <3>1. \E w \in {"show", "pref"} : Starts(h, << <<"session_sort", None>>, <<"cmd_show", w>> >>)
      BY <2>7 DEF CmdShow, Request
    <3> QED  BY <1>2, <3>1
  <2> QED  BY <2>2, <2>3, <2>4, <2>5, <2>6, <2>7 DEF Command
<1>4. PICK x \in P, y \in P : Starts(h, <<x>>) \/ (Starts(h, <<x, y>>) /\ D(x))
  BY <1>3
<1>5. <<x>> \in Seq(P) /\ Len(<<x>>) = 1 /\ <<x, y>> \in Seq(P) /\ Len(<<x, y>>) = 2 /\ <<x, y>>[1] = x
  OBVIOUS
<1>6. \A i \in 1 .. 2 : i = 1 \/ i = 2
  OBVIOUS
<1>7. \E ops \in Seq(P) : /\ Starts(h, ops)
                          /\ \A i \in 1 .. Len(ops) : ops[i][1] \in OwnNames => i = Len(ops)
  <2>1. CASE Starts(h, <<x>>)
    <3>1. \A i \in 1 .. Len(<<x>>) : i = Len(<<x>>)
      BY <1>5
    <3> QED  BY <1>5, <2>1, <3>1
  <2>2. CASE Starts(h, <<x, y>>) /\ D(x)
    <3> DEFINE ops == <<x, y>>
    <3>1. ops \in Seq(P) /\ Len(ops) = 2 /\ ops[1] = x /\ Starts(h, ops)
      BY <1>5, <2>2
    <3> HIDE DEF ops
    <3>2. \A i \in 1 .. Len(ops) : ops[i][1] \in OwnNames => i = Len(ops)
      BY <1>6, <2>2, <3>1
    <3> QED  BY <3>1, <3>2
  <2> QED  BY <1>4, <2>1, <2>2
<1> QED  BY <1>1, <1>7 DEF Begins, P

LEMMA ConnBegins ==
    ASSUME TypeInv, NEW k \in Conns, SocketEvent(k) \/ Timeout(k)
    PROVE  Begins(k)
<1> DEFINE P == {x \in Items(k) : x[1] \in BeginNames}
           c == owner[k]
           z == <<"connection_destroy", k>>
<1>1. MayStart(k) /\ UNCHANGED <<sessionVars, clientVars, connVars>>
  BY DEF SocketEvent, Timeout
<1>2. z \in P /\ <<"expired", k>> \in P /\ <<"non_block_events", k>> \in P
  <2>1. z \in Undoing /\ <<"expired", k>> \in Closing /\ <<"non_block_events", k>> \in Loop
    BY DEF Undoing, UndoConnOps, Closing, Loop, LoopConnOps
  <2> QED  BY <2>1, CalmHas DEF Items, BeginNames
<1>3. c # None => Lock(c) \in P /\ Unlock(c) \in P
  <2>1. c # None => c \in Clients
    BY DEF TypeInv, DataInv
  <2>2. c # None => Lock(c) \in Loop /\ Unlock(c) \in Loop
    BY <2>1 DEF Loop, LoopClientOps, Lock, Unlock
  <2> QED  BY <2>2, CalmHas DEF Items, BeginNames, Lock, Unlock
<1>4. \A x \in P : x[1] \notin OwnNames
  BY ItemKinds, SearchStateAssumption
<1> HIDE DEF P, z, c
<1>5. /\ c # None => << Lock(c), <<"expired", k>>, Unlock(c) >> \in Seq(P)
      /\ c # None => LockedEvents(c, k) \in Seq(P)
      /\ <<>> \in Seq(P) /\ <<z>> \in Seq(P)
  BY <1>2, <1>3, Short DEF LockedEvents
<1>6. \E ops \in Seq(P) : Starts(k, ops)
  <2>1. CASE SocketEvent(k)
    BY <1>5, <2>1 DEF SocketEvent, c, z
  <2>2. CASE Timeout(k)
    <3> DEFINE pre == IF c = None THEN <<>> ELSE << Lock(c), <<"expired", k>>, Unlock(c) >>
    <3>1. Starts(k, pre \o <<z>>)
      BY <2>2 DEF Timeout, c, z
    <3>2. pre \in Seq(P)
      BY <1>5
    <3> HIDE DEF pre
    <3>3. pre \o <<z>> \in Seq(P)
      BY <1>5, <3>2
    <3> QED  BY <3>1, <3>3
  <2> QED  BY <2>1, <2>2
<1>7. PICK ops \in Seq(P) : Starts(k, ops)
  BY <1>6
<1>8. \A i \in 1 .. Len(ops) : ops[i][1] \notin OwnNames
  BY <1>4
<1> QED  BY <1>1, <1>7, <1>8 DEF Begins, P

LEMMA BeginSole ==
    ASSUME ~Threaded, TypeInv, NEW t \in Threads, NEW ops \in Seq(Items(t)), MayStart(t),
           Starts(t, ops)
    PROVE  /\ Quiet /\ agenda'[t] = ops
           /\ \A u \in Threads : agenda[u] = <<>> /\ (u # t => agenda'[u] = <<>>)
  BY DEF MayStart, Starts, Quiet, Running, TypeInv, AgendaInv

LEMMA MutexNext ==
    ASSUME ~Threaded, TypeInv, ClientInv, StaleInv, MutexInv, [Next]_vars
    PROVE  MutexInv'
<1>1. ASSUME NEW t \in Threads, Begins(t) PROVE MutexInv'
  <2> DEFINE P == {x \in Items(t) : x[1] \in BeginNames}
  <2>1. PICK ops \in Seq(P) : Starts(t, ops)
    BY <1>1 DEF Begins
  <2>2. ops \in Seq(Items(t)) /\ \A i \in 1 .. Len(ops) : ~Fetches(ops[i])
    <3>1. \A x \in P : x \in Items(t) /\ ~Fetches(x)
      BY DEF BeginNames, Fetches
    <3> HIDE DEF P
    <3> QED  BY <3>1
  <2>3. /\ Quiet /\ agenda'[t] = ops
        /\ \A u \in Threads : u # t => agenda'[u] = <<>>
    BY <1>1, <2>1, <2>2, BeginSole DEF Begins
  <2>4. smutex' = <<>> /\ <<>> \in Seq(Threads) /\ Len(<<>>) = 0
    BY <1>1, <2>3 DEF Begins, MutexInv, sessionVars
  <2>5. Held(ops, 0)
    BY <2>2, HeldNone
  <2> QED  BY <2>3, <2>4, <2>5 DEF MutexInv, Running
<1>2. ASSUME UNCHANGED <<agenda, smutex>> PROVE MutexInv'
  BY <1>2 DEF MutexInv, Running, Quiet
<1>3. ASSUME NEW h \in Chans, ChannelDestroy(h) PROVE MutexInv'
  BY <1>2, <1>3 DEF ChannelDestroy
<1>4. CASE UNCHANGED vars
  BY <1>2, <1>4 DEF vars, sessionVars
<1>5. Chans \subseteq Threads /\ Conns \subseteq Threads
  BY DEF Threads
<1> QED  BY <1>1, <1>3, <1>4, <1>5, MutexStep, CommandBegins, ConnBegins DEF Next

(* Nobody keeps the session mutex when all handlers are done: what         *)
(* show_range_start takes is given back for each show command that fetched *)
(* more records, whichever way that went.                                  *)
THEOREM SessionMutexFreeAlways ==
    ASSUME ~Threaded
    PROVE  Spec => []SessionMutexFree
<1>1. Init => StaleInv /\ MutexInv
  <2>1. Init => StaleInv
    BY DEF Init, StaleInv, Cleared
  <2>2. <<>> \in Seq(Threads)
    OBVIOUS
  <2> QED  BY <2>1, <2>2 DEF Init, MutexInv, Running
<1>2. TypeInv /\ ClientInv /\ StaleInv /\ [Next]_vars => StaleInv'
  BY StaleNext
<1>3. TypeInv /\ ClientInv /\ StaleInv /\ MutexInv /\ [Next]_vars => MutexInv'
  BY MutexNext
<1>4. MutexInv => SessionMutexFree
  BY DEF MutexInv, SessionMutexFree
<1> QED  BY ClientSafety, <1>1, <1>2, <1>3, <1>4, PTL DEF Spec

-----------------------------------------------------------------------------
(* Waiting for active clients                                              *)

Blocking == {"show", "pref", "termlist"}
WatchNames == {"show_watch", "termlist_watch"}
StopNames == {"stop_clients", "client_stop", "search_clients"}

(* What comes between a client that is disconnected and its connection     *)
(* that is taken from it.                                                  *)
Parting == {"client_disconnect", "session_alert_watch"} \cup AnswerOps

Selecting(a) == \E i \in 1 .. Len(a) : a[i][1] = "select_targets"
Stopping(a) == \E i \in 1 .. Len(a) : a[i][1] \in StopNames

(* A command sets its watch at once after it decided to, a search that     *)
(* gives up clients takes others, and a connection is taken from a client  *)
(* as soon as that was disconnected and those it released were answered.   *)
Plan(a) ==
    \A i \in 1 .. Len(a) :
        /\ a[i][1] \in OwnNames => i = Len(a)
        /\ a[i][1] \in WatchNames => i = 1
        /\ a[i][1] \notin {"session_fetch_more", "show_again"}
        /\ Rank(a[i]) > 0 => Selecting(a)
        /\ a[i][1] = "unset_connection" => \A j \in 1 .. i - 1 : a[j][1] \in Parting

(* ops in place of the first of a.                                         *)
PlanStep(a, ops) ==
    /\ \A i \in 1 .. Len(ops) :
          /\ ops[i][1] \in OwnNames => Len(a) = 1 /\ Len(ops) = 1
          /\ ops[i][1] \notin {"session_fetch_more", "show_again"}
          /\ Rank(ops[i]) > 0 => Selecting(ops) \/ (Rank(a[1]) > 0 /\ a[1][1] # "select_targets")
          /\ ops[i][1] = "unset_connection" => \A j \in 1 .. i - 1 : ops[j][1] \in Parting
    /\ a[1][1] = "select_targets" => \A i \in 2 .. Len(a) : Rank(a[i]) = 0
    /\ a[1][1] \in Parting => \A i \in 1 .. Len(ops) : ops[i][1] \in Parting

LEMMA PlanMove ==
    ASSUME NEW S, NEW a \in Seq(S), a # <<>>, NEW ops \in Seq(S), Plan(a), PlanStep(a, ops)
    PROVE  Plan(ops \o Tail(a))
<1> DEFINE b == ops \o Tail(a)
           m == Len(ops)
<1>1. /\ Len(b) = m + Len(a) - 1
      /\ \A i \in 1 .. m : b[i] = ops[i]
      /\ \A i \in m + 1 .. m + Len(a) - 1 : b[i] = a[i - m + 1]
      /\ \A i \in 2 .. Len(a) : b[m + i - 1] = a[i]
      /\ Len(a) \in Nat \ {0} /\ m \in Nat
  BY ThenSeq
<1> HIDE DEF b
<1>2. Selecting(ops) => Selecting(b)
  <2>1. \A i \in 1 .. m : i \in 1 .. Len(b)
    BY <1>1
  <2> QED  BY <1>1, <2>1 DEF Selecting
<1>3. Selecting(a) /\ a[1][1] # "select_targets" => Selecting(b)
  <2> SUFFICES ASSUME NEW i \in 1 .. Len(a), a[i][1] = "select_targets", a[1][1] # "select_targets"
               PROVE  Selecting(b)
    BY DEF Selecting
  <2>1. i \in 2 .. Len(a) /\ m + i - 1 \in 1 .. Len(b)
    BY <1>1
  <2> QED  BY <1>1, <2>1 DEF Selecting
<1> SUFFICES ASSUME NEW i \in 1 .. Len(b)
             PROVE  /\ b[i][1] \in OwnNames => i = Len(b)
                    /\ b[i][1] \in WatchNames => i = 1
                    /\ b[i][1] \notin {"session_fetch_more", "show_again"}
                    /\ Rank(b[i]) > 0 => Selecting(b)
                    /\ b[i][1] = "unset_connection" => \A j \in 1 .. i - 1 : b[j][1] \in Parting
  BY DEF Plan, b
<1>4. CASE i <= m
  <2>1. b[i] = ops[i] /\ i \in 1 .. Len(ops) /\ \A j \in 1 .. i - 1 : b[j] = ops[j]
    BY <1>1, <1>4
  <2>2. b[i][1] \in OwnNames => i = 1 /\ i = Len(b)
    BY <1>1, <1>4, <2>1 DEF PlanStep
  <2>3. WatchNames \subseteq OwnNames
    BY DEF WatchNames, OwnNames
  <2>4. b[i][1] \notin {"session_fetch_more", "show_again"}
    BY <2>1 DEF PlanStep
  <2>5. Rank(b[i]) > 0 => Selecting(b)
    <3>1. Rank(a[1]) > 0 => Selecting(a)
      BY <1>1 DEF Plan
    <3> QED  BY <1>2, <1>3, <2>1, <3>1 DEF PlanStep
  <2>6. b[i][1] = "unset_connection" => \A j \in 1 .. i - 1 : b[j][1] \in Parting
    BY <2>1 DEF PlanStep
  <2> QED  BY <2>2, <2>3, <2>4, <2>5, <2>6
<1>5. CASE i > m
  <2> DEFINE n == i - m + 1
  <2>1. b[i] = a[n] /\ n \in 2 .. Len(a) /\ n \in 1 .. Len(a) /\ n # 1
    BY <1>1, <1>5
  <2>2. b[i][1] \in OwnNames => i = Len(b)
    <3>1. b[i][1] \in OwnNames => n = Len(a)
      BY <2>1 DEF Plan
    <3> QED  BY <1>1, <3>1
  <2>3. n = Len(a) => i = Len(b)
    BY <1>1
  <2>4. /\ b[i][1] \notin WatchNames
        /\ b[i][1] \notin {"session_fetch_more", "show_again"}
    BY <2>1 DEF Plan
  <2>5. Rank(b[i]) > 0 => Selecting(b)
    <3>1. Rank(a[n]) > 0 => Selecting(a) /\ (a[1][1] = "select_targets" => Rank(a[n]) = 0)
      BY <2>1 DEF Plan, PlanStep
    <3> QED  BY <1>3, <2>1, <3>1
  <2>6. ASSUME b[i][1] = "unset_connection", NEW j \in 1 .. i - 1 PROVE b[j][1] \in Parting
    <3>1. \A l \in 1 .. n - 1 : a[l][1] \in Parting
      BY <2>1, <2>6 DEF Plan
    <3>2. CASE j <= m
      <4>1. 1 \in 1 .. n - 1 /\ j \in 1 .. m /\ b[j] = ops[j]
        BY <1>1, <2>1, <3>2
      <4> QED  BY <3>1, <4>1 DEF PlanStep
    <3>3. CASE j > m
      <4>1. b[j] = a[j - m + 1]
        <5>1. j \in m + 1 .. m + Len(a) - 1
          BY <1>1, <3>3
        <5> QED  BY <1>1, <5>1
      <4>2. j - m + 1 \in 1 .. n - 1
        BY <1>1, <3>3
      <4> QED  BY <3>1, <4>1, <4>2
    <3> QED  BY <1>1, <3>2, <3>3
  <2> QED  BY <2>1, <2>2, <2>4, <2>5, <2>6
<1> QED  BY <1>1, <1>4, <1>5

LEMMA HeadSteps ==
    ASSUME NEW t \in Threads, Step(t)
    PROVE  /\ Does(t, "client_disconnect") => ClientDisconnect(t)
           /\ Does(t, "connection_destroy") => ConnectionDestroy(t)
           /\ Does(t, "session_alert_watch") => SessionAlertWatch(t)
           /\ Does(t, "show_records") => ShowRecords(t)
           /\ Does(t, "show_record") => ShowRecord(t)
           /\ Does(t, "record_watch") => RecordWatch(t)
           /\ Does(t, "session_stop") => SessionStop(t)
           /\ Does(t, "reply") => Respond(t)
           /\ Does(t, "cmd_show") => ShowDecides(t)
           /\ Does(t, "cmd_termlist") => TermlistDecides(t)
<1>1. ASSUME Does(t, "client_disconnect") \/ Does(t, "connection_destroy")
      PROVE  ClientDisconnect(t) \/ ConnectionDestroy(t)
  <2>1. ~CommandStep(t)
    BY <1>1 DEF CommandStep, ApplySetting, ShowDecides, ShowWaits, TermlistDecides,
                TermlistWaits, Respond, Does
  <2>2. ~SessionStep(t)
    BY <1>1
    DEF SessionStep, SessionSearch, ResetActive, Detach, DropCached, Drop, SelectTargets,
        SearchClients, Started, SessionSort, SortClients, SessionStop, StopClients, ClientStop,
        SessionAlertWatch, ShowRecords, FetchMore, FetchedMore, ShowAgain, ShowRecord, RecordWatch,
        Does
  <2>3. ClientStep(t)
    BY <2>1, <2>2 DEF Step
  <2> QED
    BY <1>1, <2>3
    DEF ClientStep, ClientLock, ClientUnlock, ReuseConnection, CreateConnection, ConnectFails,
        StartSearch, NoMoreEvents, IgnoredEvent, SendApdu, RecvError, RecvRecord, End, GotRecords,
        PreferredCheck, RecordsCheck, Expired, UnsetConnection, FreeConnection, Does, Event
<1>2. ASSUME \/ Does(t, "session_alert_watch") \/ Does(t, "show_records") \/ Does(t, "show_record")
             \/ Does(t, "record_watch") \/ Does(t, "session_stop")
      PROVE  SessionAlertWatch(t) \/ ShowRecords(t) \/ ShowRecord(t) \/ RecordWatch(t) \/ SessionStop(t)
  <2>1. ~CommandStep(t)
    BY <1>2 DEF CommandStep, ApplySetting, ShowDecides, ShowWaits, TermlistDecides,
                TermlistWaits, Respond, Does
  <2>2. ~ClientStep(t)
    BY <1>2
    DEF ClientStep, ClientLock, ClientUnlock, ReuseConnection, CreateConnection, ConnectFails,
        StartSearch, NoMoreEvents, IgnoredEvent, SendApdu, RecvError, RecvRecord, End, GotRecords,
        PreferredCheck, RecordsCheck, Expired, ConnectionDestroy, ClientDisconnect,
        UnsetConnection, FreeConnection, Does, Event
  <2>3. SessionStep(t)
    BY <2>1, <2>2 DEF Step
  <2> QED
    BY <1>2, <2>3
    DEF SessionStep, SessionSearch, ResetActive, Detach, DropCached, Drop, SelectTargets,
        SearchClients, Started, SessionSort, SortClients, StopClients, ClientStop,
        FetchMore, FetchedMore, ShowAgain, Does
<1>3. ASSUME Does(t, "reply") \/ Does(t, "cmd_show") \/ Does(t, "cmd_termlist")
      PROVE  Respond(t) \/ ShowDecides(t) \/ TermlistDecides(t)
  <2>1. ~ClientStep(t)
    BY <1>3
    DEF ClientStep, ClientLock, ClientUnlock, ReuseConnection, CreateConnection, ConnectFails,
        StartSearch, NoMoreEvents, IgnoredEvent, SendApdu, RecvError, RecvRecord, End, GotRecords,
        PreferredCheck, RecordsCheck, Expired, ConnectionDestroy, ClientDisconnect,
        UnsetConnection, FreeConnection, Does, Event
  <2>2. ~SessionStep(t)
    BY <1>3
    DEF SessionStep, SessionSearch, ResetActive, Detach, DropCached, Drop, SelectTargets,
        SearchClients, Started, SessionSort, SortClients, SessionStop, StopClients, ClientStop,
        SessionAlertWatch, ShowRecords, FetchMore, FetchedMore, ShowAgain, ShowRecord, RecordWatch,
        Does
  <2> QED
    BY <1>3, <2>1, <2>2 DEF Step, CommandStep, ApplySetting, ShowWaits, TermlistWaits, Does
<1> QED
  BY <1>1, <1>2, <1>3
  DEF ClientDisconnect, ConnectionDestroy, SessionAlertWatch, ShowRecords, ShowRecord, RecordWatch,
      SessionStop, Respond, ShowDecides, TermlistDecides, Does

(* A step that parts a client and its connection leaves no other.          *)
LEMMA PartingOps ==
    ASSUME ~ExtendRecs, TypeInv, NEW t \in Threads, Step(t), Running(t),
           Head(agenda[t])[1] \in Parting \ {"show_again"}
    PROVE  PlainThen(t, {x \in Items(t) : x[1] \in Parting \ {"client_disconnect", "show_again"}})
<1> DEFINE P == {x \in Items(t) : x[1] \in Parting \ {"client_disconnect", "show_again"}}
           hd == Head(agenda[t])
<1>1. hd \in Items(t)
  BY HeadKinds
<1>2. /\ \A h \in Chans : \A op \in {"reply", "show_records", "show_record", "record_watch"} :
            <<op, h>> \in P
      /\ \A w \in Watches : Alert(w) \in P
  <2>1. \A h \in Chans : \A op \in AnswerOps : <<op, h>> \in Items(t)
    BY DEF Items, For, Answers
  <2>2. \A w \in Watches : Alert(w) \in Items(t)
    <3>1. \A w \in Watches : Alert(w) \in Loop
      BY DEF Loop, Alert
    <3> QED  BY <3>1, CalmHas DEF Items
  <2> QED  BY <2>1, <2>2 DEF Parting, AnswerOps, Alert
<1> SUFFICES PlainThen(t, P)
  OBVIOUS
<1> HIDE DEF P
<1>3. AlertAll \in Seq(P)
  BY <1>2, Short DEF AlertAll, Watches
<1>4. /\ Done(t) => PlainThen(t, P)
      /\ \A x \in P : Then(t, <<x>>) => PlainThen(t, P)
      /\ \A c, st : SetState(t, c, st, <<>>) => PlainThen(t, P)
  <2>1. <<>> \in Seq(P) /\ (\A x \in P : <<x>> \in Seq(P))
    BY Short
  <2> QED  BY <1>3, <2>1, SetStateLeaves DEF Done, PlainThen
<1>5. CASE hd[1] = "client_disconnect"
  BY <1>4, <1>5, HeadSteps DEF Does, ClientDisconnect
<1>6. CASE hd[1] = "session_alert_watch"
  <2> DEFINE w == Arg(t)
             h == watch[w]
  <2>1. w \in {"show", "pref", "termlist", "record"} /\ SessionAlertWatch(t)
    BY <1>1, <1>6, ItemArgs, HeadSteps DEF Watches, Arg, Does
  <2>2. h \in Chans \cup {None}
    BY <2>1 DEF TypeInv, DataInv, Watches
  <2>3. CASE h = None
    BY <1>4, <2>1, <2>3 DEF SessionAlertWatch, Done
  <2>4. CASE h # None
    <3>1. \E op \in {"reply", "show_records", "show_record", "record_watch"} : Then(t, << <<op, h>> >>)
      BY <2>1, <2>4 DEF SessionAlertWatch
    <3> QED  BY <1>2, <1>4, <2>2, <2>4, <3>1
  <2> QED  BY <2>3, <2>4
<1>7. CASE hd[1] \in AnswerOps \ {"show_again"}
  <2>1. Arg(t) \in Chans
    BY <1>1, <1>7, ItemArgs DEF Arg
  <2>2. <<"reply", Arg(t)>> \in P /\ <<"record_watch", Arg(t)>> \in P
    BY <1>2, <2>1
  <2>3. Respond(t) \/ ShowRecords(t) \/ ShowRecord(t) \/ RecordWatch(t)
    BY <1>7, HeadSteps DEF Does, AnswerOps
  <2> QED
    BY <1>4, <2>2, <2>3 DEF Respond, ShowRecords, ShowRecord, RecordWatch, SessionSetWatch, Reply
<1> QED  BY <1>5, <1>6, <1>7 DEF Parting

(* A search that gives up nothing more.                                    *)
LEMMA LastPhase ==
    ASSUME NEW S, NEW a \in Seq(S), Phased(a), a # <<>>, a[1][1] = "select_targets"
    PROVE  \A i \in 2 .. Len(a) : Rank(a[i]) = 0
<1> SUFFICES ASSUME NEW i \in 2 .. Len(a), Rank(a[i]) # 0 PROVE FALSE
  OBVIOUS
<1>1. Rank(a[1]) = 3
  BY DEF Rank
<1>2. \A x : Rank(x) \in Nat /\ Rank(x) <= 3
  BY RankValues
<1>3. \A j \in 2 .. Len(a) : Rank(a[j]) > 0 => 0 < Rank(a[j - 1]) /\ Rank(a[j - 1]) < Rank(a[j])
  BY DEF Phased
<1>4. Rank(a[i]) > 0 /\ Rank(a[i - 1]) > 0 /\ Rank(a[i - 1]) < Rank(a[i])
  BY <1>2, <1>3
<1>5. i # 2
  <2>1. i = 2 => i - 1 = 1
    OBVIOUS
  <2> QED  BY <1>1, <1>2, <1>4, <2>1
<1>6. i - 1 \in 2 .. Len(a) /\ i - 1 - 1 = i - 2
  BY <1>5
<1>7. Rank(a[i - 2]) > 0 /\ Rank(a[i - 2]) < Rank(a[i - 1])
  BY <1>3, <1>4, <1>6
<1>8. i # 3
  <2>1. i = 3 => i - 2 = 1
    OBVIOUS
  <2> QED  BY <1>1, <1>2, <1>7, <2>1
<1>9. i - 2 \in 2 .. Len(a) /\ i - 2 - 1 = i - 3
  BY <1>5, <1>8
<1>10. Rank(a[i - 3]) > 0 /\ Rank(a[i - 3]) < Rank(a[i - 2])
  BY <1>3, <1>7, <1>9
<1> QED  BY <1>2, <1>4, <1>7, <1>10

LEMMA StepPlan ==
    ASSUME ~ExtendRecs, BadSearches \cap {"targets", "limit"} = {}, TypeInv, ClientInv, StaleInv,
           NEW t \in Threads, Step(t), Plan(agenda[t])
    PROVE  \E ops \in Seq(Items(t)) : Then(t, ops) /\ PlanStep(agenda[t], ops)
<1> DEFINE a == agenda[t]
           hd == a[1]
           Goal == \E ops \in Seq(Items(t)) : Then(t, ops) /\ PlanStep(a, ops)
<1>1. /\ a \in Seq(Items(t)) /\ a # <<>> /\ Head(a) = hd /\ Running(t) /\ hd \in Items(t)
      /\ Phased(a)
  BY Sole, HeadKinds DEF ClientInv, HandlerInv
<1>2. Len(a) \in Nat \ {0} /\ 1 \in 1 .. Len(a)
  BY <1>1
<1>3. /\ hd[1] \in OwnNames => Len(a) = 1
      /\ hd[1] \notin {"session_fetch_more", "show_again"}
      /\ hd[1] = "select_targets" => \A i \in 2 .. Len(a) : Rank(a[i]) = 0
  <2>1. hd[1] = "select_targets" => \A i \in 2 .. Len(a) : Rank(a[i]) = 0
    BY <1>1, LastPhase
  <2> QED  BY <1>2, <2>1 DEF Plan
<1>4. \A op : Does(t, op) <=> hd[1] = op
  BY <1>1 DEF Does
<1> SUFFICES Goal
  OBVIOUS
<1> HIDE DEF a
<1>5. ASSUME NEW Q \in SUBSET Items(t), PlainThen(t, Q),
             \A x \in Q : /\ x[1] \notin OwnNames \cup {"session_fetch_more", "show_again", "unset_connection"}
                          /\ Rank(x) = 0 \/ (Rank(hd) > 0 /\ hd[1] # "select_targets")
                          /\ hd[1] \in Parting => x[1] \in Parting
      PROVE  Goal
  <2>1. PICK ops \in Seq(Q) : Then(t, ops)
    BY <1>5 DEF PlainThen
  <2>2. ops \in Seq(Items(t)) /\ \A i \in 1 .. Len(ops) : ops[i] \in Q
    OBVIOUS
  <2>3. PlanStep(a, ops)
    BY <1>3, <1>5, <2>2, RankValues DEF PlanStep
  <2> QED  BY <2>1, <2>2, <2>3
<1>6. CASE hd[1] \in Parting
  <2> DEFINE Q == {x \in Items(t) : x[1] \in Parting \ {"client_disconnect", "show_again"}}
  <2>1. PlainThen(t, Q)
    BY <1>1, <1>3, <1>6, PartingOps DEF a
  <2>2. \A x \in Q : /\ x[1] \notin OwnNames \cup {"session_fetch_more", "show_again", "unset_connection"}
                     /\ x[1] \notin PhaseNames \cup {"select_targets"}
                     /\ x[1] \in Parting
    BY DEF Parting, AnswerOps, OwnNames, PhaseNames, PhaseOps, PhaseSetOps
  <2> QED  BY <1>5, <2>1, <2>2, RankValues
<1>7. CASE hd[1] \in {"cmd_show", "cmd_termlist"}
  <2>1. Len(a) = 1 /\ hd[1] \notin Parting /\ hd[1] # "select_targets" /\ t \in Chans
        /\ (hd[1] = "cmd_show" => Arg(t) \in {"show", "pref"})
    BY <1>1, <1>3, <1>7, ItemKinds, ItemArgs DEF OwnNames, Parting, AnswerOps, Arg, a
  <2>2. ShowDecides(t) \/ TermlistDecides(t)
    BY <1>4, <1>7, HeadSteps
  <2>3. \E op \in {"reply", "show_records", "show_watch", "termlist_watch"} :
            \E y : <<op, y>> \in Items(t) /\ Then(t, << <<op, y>> >>)
    <3>1. <<"reply", t>> \in Items(t) /\ <<"show_records", t>> \in Items(t)
      BY <2>1 DEF Items, For, Answers, AnswerOps
    <3>2. Own \subseteq Items(t)
      BY <2>1 DEF Items, For
    <3>3. <<"termlist_watch", None>> \in Own /\ \A w \in {"show", "pref"} : <<"show_watch", w>> \in Own
      BY DEF Own
    <3> QED  BY <2>2, <3>1, <3>2, <3>3 DEF ShowDecides, TermlistDecides, Reply
  <2> PICK op \in {"reply", "show_records", "show_watch", "termlist_watch"} :
          \E y : <<op, y>> \in Items(t) /\ Then(t, << <<op, y>> >>)
    BY <2>3
  <2>4. PICK y : <<op, y>> \in Items(t) /\ Then(t, << <<op, y>> >>)
    OBVIOUS
  <2> DEFINE x == <<op, y>>
             ops == <<x>>
  <2>5. x[1] = op /\ Rank(x) = 0
    <3>1. x[1] = op
      OBVIOUS
    <3>2. op \notin PhaseNames \cup {"select_targets"}
      BY DEF PhaseNames, PhaseOps, PhaseSetOps
    <3> QED  BY <3>1, <3>2, RankValues
  <2> HIDE DEF x
  <2>6. ops \in Seq(Items(t)) /\ Then(t, ops) /\ Len(ops) = 1 /\ ops[1] = x
    BY <2>4 DEF x
  <2> HIDE DEF ops
  <2>7. PlanStep(a, ops)
    <3>1. \A i \in 1 .. Len(ops) : ops[i] = x
      BY <2>6
    <3> QED  BY <2>1, <2>5, <2>6, <3>1 DEF PlanStep
  <2> QED  BY <2>6, <2>7
<1>8. CASE hd[1] = "connection_destroy"
  <2> DEFINE k == Arg(t)
             c == owner[k]
             x == <<"client_disconnect", c>>
             y == <<"unset_connection", c>>
             z == <<"free", k>>
  <2>1. ConnectionDestroy(t) /\ t \in Conns /\ k \in Conns /\ hd[1] \notin Parting
        /\ hd[1] # "select_targets"
    BY <1>1, <1>4, <1>8, HeadSteps, ItemKinds, ItemArgs
    DEF UndoNames, UndoConnOps, Arg, Parting, AnswerOps, a
  <2>2. /\ z \in Items(t) /\ c # None => x \in Items(t) /\ y \in Items(t)
        /\ z \in Items(t)
    <3>1. c # None => c \in Clients
      BY <2>1 DEF TypeInv, DataInv
    <3>2. z \in Undoing /\ (c # None => x \in Closing /\ y \in Undoing)
      BY <2>1, <3>1 DEF Closing, Undoing, UndoConnOps
    <3> QED  BY <2>1, <3>2, CalmHas DEF Items
  <2>3. Then(t, (IF c = None THEN <<>> ELSE <<x, y>>) \o <<z>>)
    BY <2>1 DEF ConnectionDestroy
  <2>4. \A u : u[1] \notin PhaseNames \cup {"select_targets"} => Rank(u) = 0
    BY RankValues
  <2>5. /\ \A u \in {x, y, z} : Rank(u) = 0
        /\ x[1] \in Parting
        /\ \A u \in {x, y, z} : u[1] \notin OwnNames \cup {"session_fetch_more", "show_again"}
        /\ x[1] # "unset_connection" /\ z[1] # "unset_connection"
    BY <2>4 DEF PhaseNames, PhaseOps, PhaseSetOps, Parting, OwnNames
  <2> HIDE DEF x, y, z, c
  <2>6. CASE c = None
    <3> DEFINE ops == <<>> \o <<z>>
    <3>1. ops \in Seq(Items(t)) /\ Len(ops) = 1 /\ ops[1] = z /\ Then(t, ops)
      BY <2>2, <2>3, <2>6
    <3> HIDE DEF ops
    <3>2. \A i \in 1 .. Len(ops) : ops[i] = z
      BY <3>1
    <3> QED  BY <2>1, <2>5, <3>1, <3>2 DEF PlanStep
  <2>7. CASE c # None
    <3> DEFINE ops == <<x, y>> \o <<z>>
    <3>1. /\ ops \in Seq(Items(t)) /\ Len(ops) = 3 /\ ops[1] = x /\ ops[2] = y /\ ops[3] = z
          /\ Then(t, ops)
      BY <2>2, <2>3, <2>7
    <3> HIDE DEF ops
    <3>2. \A i \in 1 .. Len(ops) : (i = 1 /\ ops[i] = x) \/ (i = 2 /\ ops[i] = y) \/ (i = 3 /\ ops[i] = z)
      BY <3>1
    <3>3. \A i \in 1 .. Len(ops) : ops[i][1] = "unset_connection" => \A j \in 1 .. i - 1 : ops[j][1] \in Parting
      <4>1. \A j \in 1 .. 1 : ops[j][1] \in Parting
        BY <2>5, <3>1
      <4> QED  BY <2>5, <3>2, <4>1
    <3> QED  BY <2>1, <2>5, <3>1, <3>2, <3>3 DEF PlanStep
  <2> QED  BY <2>6, <2>7
<1>9. CASE ResetActive(t) \/ Detach(t) \/ DropCached(t) \/ Drop(t)
  <2> DEFINE Q == {x \in Items(t) : x[1] \in ClearNames(hd[1])}
  <2>1. Clears(t) /\ hd[1] \in PhaseNames
    BY <1>4, <1>9 DEF Clears, ResetActive, Detach, DropCached, Drop, PhaseNames, PhaseOps, PhaseSetOps
  <2>2. Rank(hd) > 0 /\ hd[1] # "select_targets" /\ hd[1] \notin Parting
    <3>1. Rank(hd) # 0 /\ Rank(hd) \in 0 .. 3
      BY <2>1, RankValues
    <3> QED  BY <2>1, <3>1 DEF PhaseNames, PhaseOps, PhaseSetOps, Parting, AnswerOps
  <2>3. PlainThen(t, Q)
    BY <2>1, ClearOps DEF a
  <2>4. \A x \in Q : x[1] \notin OwnNames \cup {"session_fetch_more", "show_again", "unset_connection"}
    BY DEF ClearNames, Selected, PhaseNames, PhaseOps, PhaseSetOps, OwnNames
  <2> QED  BY <1>5, <2>2, <2>3, <2>4
<1>10. CASE SelectTargets(t)
  <2>1. t \in Chans /\ hd[1] = "select_targets"
    <3>1. Clears(t)
      BY <1>10 DEF Clears
    <3> QED  BY <1>4, <1>10, <3>1, PhaseHeads DEF SelectTargets
  <2> DEFINE Q == {x \in Items(t) : x[1] \in {"session_alert_watch", "search_clients", "started"}}
  <2>2. PICK S \in SUBSET Clients :
            Then(t, AlertAll \o << <<"search_clients", S>>, <<"started", None>> >>)
    BY <1>10 DEF SelectTargets
  <2>3. /\ \A w \in Watches : Alert(w) \in Q
        /\ <<"search_clients", S>> \in Q /\ <<"started", None>> \in Q
    <3>1. /\ \A w \in Watches : Alert(w) \in Loop
          /\ <<"search_clients", S>> \in Commanding /\ <<"started", None>> \in Starters
      BY DEF Loop, Alert, Commanding, CommandSetOps, Starters, Start
    <3> QED  BY <2>1, <3>1, CalmHas DEF Items, Alert
  <2>4. \A x \in Q : /\ x \in Items(t)
                     /\ x[1] \notin OwnNames \cup {"session_fetch_more", "show_again", "unset_connection"}
                     /\ x[1] \notin PhaseNames \cup {"select_targets"}
    BY DEF PhaseNames, PhaseOps, PhaseSetOps, OwnNames
  <2>5. hd[1] \notin Parting
    BY <2>1 DEF Parting, AnswerOps
  <2> HIDE DEF Q
  <2>6. AlertAll \in Seq(Q) /\ << <<"search_clients", S>>, <<"started", None>> >> \in Seq(Q)
    BY <2>3, Short DEF AlertAll, Watches
  <2> DEFINE two == << <<"search_clients", S>>, <<"started", None>> >>
  <2>7. Then(t, AlertAll \o two) /\ two \in Seq(Q)
    BY <2>2, <2>6
  <2> HIDE DEF two
  <2>8. AlertAll \o two \in Seq(Q)
    BY <2>6, <2>7
  <2>9. PlainThen(t, Q) /\ Q \in SUBSET Items(t)
    BY <2>4, <2>7, <2>8 DEF PlainThen
  <2> QED  BY <1>5, <2>4, <2>5, <2>9, RankValues
<1>11. CASE SessionSearch(t)
  <2> DEFINE x == <<"reset_active", None>>
             y == <<"drop_cached", None>>
             z == <<"select_targets", None>>
  <2>1. /\ x \in Items(t) /\ y \in Items(t) /\ z \in Items(t)
        /\ hd[1] = "session_search"
    <3>1. Clears(t)
      BY <1>11 DEF Clears
    <3> QED  BY <1>4, <1>11, <3>1, PhaseHeads DEF PhaseOps, SessionSearch
  <2>2. hd[1] \notin Parting /\ hd[1] # "select_targets"
    BY <2>1 DEF Parting, AnswerOps
  <2>3. <<x>> \o <<y>> \o <<z>> = <<x, y, z>> /\ <<x>> \o <<>> \o <<z>> = <<x, z>>
    BY Joined
  <2>4. Done(t) \/ Then(t, <<x>> \o (IF modified THEN <<y>> ELSE <<>>) \o <<z>>)
    BY <1>11 DEF SessionSearch
  <2>5. \A u \in {x, y, z} :
            u[1] \notin OwnNames \cup {"session_fetch_more", "show_again", "unset_connection"}
    BY DEF OwnNames
  <2>6. z[1] = "select_targets"
    OBVIOUS
  <2> HIDE DEF x, y, z
  <2>7. ASSUME NEW ops \in Seq(Items(t)), Then(t, ops), NEW n \in 1 .. Len(ops), ops[n] = z,
               \A i \in 1 .. Len(ops) : ops[i] \in {x, y, z}
        PROVE  Goal
    <3>1. Selecting(ops)
      BY <2>6, <2>7 DEF Selecting
    <3>2. PlanStep(a, ops)
      BY <2>2, <2>5, <2>7, <3>1 DEF PlanStep
    <3> QED  BY <2>7, <3>2
  <2>8. CASE Done(t)
    <3>1. PlainThen(t, {}) /\ {} \in SUBSET Items(t)
      BY <2>8, Short DEF Done, PlainThen
    <3> QED  BY <1>5, <3>1
  <2>9. CASE Then(t, <<x, y, z>>)
    <3> DEFINE ops == <<x, y, z>>
    <3>1. /\ ops \in Seq(Items(t)) /\ Then(t, ops) /\ 3 \in 1 .. Len(ops) /\ ops[3] = z
          /\ ops[1] = x /\ ops[2] = y /\ Len(ops) = 3
      BY <2>1, <2>9
    <3> HIDE DEF ops
    <3>2. \A i \in 1 .. Len(ops) : ops[i] \in {x, y, z}
      BY <3>1
    <3> QED  BY <2>7, <3>1, <3>2
  <2>10. CASE Then(t, <<x, z>>)
    <3> DEFINE ops == <<x, z>>
    <3>1. /\ ops \in Seq(Items(t)) /\ Then(t, ops) /\ 2 \in 1 .. Len(ops) /\ ops[2] = z
          /\ ops[1] = x /\ Len(ops) = 2
      BY <2>1, <2>10
    <3> HIDE DEF ops
    <3>2. \A i \in 1 .. Len(ops) : ops[i] \in {x, y, z}
      BY <3>1
    <3> QED  BY <2>7, <3>1, <3>2
  <2> QED  BY <2>3, <2>4, <2>8, <2>9, <2>10
<1>12. CASE UnsetConnection(t) \/ FreeConnection(t)
  <2>1. Done(t)
    BY <1>12 DEF UnsetConnection, FreeConnection
  <2>2. PlainThen(t, {}) /\ {} \in SUBSET Items(t)
    BY <2>1, Short DEF Done, PlainThen
  <2> QED  BY <1>5, <2>2
<1>13. CASE /\ ~Clears(t) /\ ~Undoes(t)
            /\ hd[1] \notin Parting \cup {"cmd_show", "cmd_termlist", "connection_destroy"}
  <2> DEFINE Q == Left(hd[1], Good(t, Keeper(t)', owner'))
  <2>1. PlainThen(t, Q)
    BY <1>1, <1>13, TameGood DEF a
  <2>2. \A x \in Q : x \in Items(t) /\ ~Clearing(x) /\ (x[1] \in Rare => <<hd[1], x[1]>> \in RareCalls)
    BY DEF Left, Good
  <2>3. \A x \in Q : Rank(x) = 0
    <3>1. \A x \in Q : ~(Rank(x) > 0)
      BY <2>2 DEF Clearing
    <3>2. \A r \in 0 .. 3 : ~(r > 0) => r = 0
      OBVIOUS
    <3> HIDE DEF Q
    <3> QED  BY <3>1, <3>2, RankValues
  <2> HIDE DEF Q
  <2>4. \A op \in OwnNames \cup {"session_fetch_more", "show_again", "unset_connection"} :
            op \in Rare /\ <<hd[1], op>> \notin RareCalls
    BY <1>3, <1>13 DEF OwnNames, Rare, RareCalls, Parting, AnswerOps
  <2>5. Q \in SUBSET Items(t)
    BY <2>2
  <2> QED  BY <1>5, <1>13, <2>1, <2>2, <2>3, <2>4, <2>5
<1>14. ConnectionDestroy(t) => hd[1] = "connection_destroy"
  BY <1>4 DEF ConnectionDestroy
<1> QED
  BY <1>6, <1>7, <1>8, <1>9, <1>10, <1>11, <1>12, <1>13, <1>14 DEF Clears, Undoes

(* The step that ends the last activity of a session releases those who    *)
(* wait for it, unless it is one of a search or stop, which did before, or *)
(* takes a connection away.                                                *)
LEMMA LastActive ==
    ASSUME TypeInv, ClientInv, EndInv, NEW t \in Threads, Step(t), ~NoActive, NoActive',
           ~ResetActive(t), ~SelectTargets(t), ~SearchClients(t), ~ClientStop(t),
           ~UnsetConnection(t)
    PROVE  \E after \in Seq(Items(t)) : Then(t, AlertAll \o after)
<1> DEFINE Goal == \E after \in Seq(Items(t)) : Then(t, AlertAll \o after)
<1>1. active' = active
  <2>1. CASE ClientStep(t)
    BY <2>1
    DEF ClientStep, ClientLock, ClientUnlock, ReuseConnection, CreateConnection, ConnectFails,
        StartSearch, NoMoreEvents, IgnoredEvent, SendApdu, RecvError, RecvRecord, End, GotRecords,
        PreferredCheck, RecordsCheck, Expired, ConnectionDestroy, ClientDisconnect,
        UnsetConnection, FreeConnection, sessionVars
  <2>2. CASE SessionStep(t)
    BY <2>2
    DEF SessionStep, SessionSearch, Detach, DropCached, Drop,
        SearchClients, Started, SessionSort, SortClients, SessionStop, StopClients, ClientStop,
        SessionAlertWatch, ShowRecords, FetchMore, FetchedMore, ShowAgain, ShowRecord, RecordWatch,
        SessionSetWatch, sessionVars
  <2>3. CASE CommandStep(t)
    BY <2>3
    DEF CommandStep, ApplySetting, ShowDecides, ShowWaits, TermlistDecides, TermlistWaits, Respond,
        SessionSetWatch, sessionVars
  <2> QED  BY <2>1, <2>2, <2>3 DEF Step
<1>2. PICK c \in active : IsActive(c)
  BY DEF NoActive
<1>3. c \in Clients /\ DOMAIN state = Clients /\ conn \in [Clients -> Conns \cup {None}] /\ sess[c]
  BY DEF TypeInv, DataInv, EndInv, ClientInv, ActiveInv
<1>4. \A d \in active : ~IsActive(d)'
  BY <1>1 DEF NoActive
<1>5. UNCHANGED <<state, conn>> => Goal
  BY <1>2, <1>4 DEF IsActive
<1>6. ASSUME NEW d, NEW st, NEW after \in Seq(Items(t)), SetState(t, d, st, after), conn' = conn
      PROVE  Goal
  <2>1. state' = [state EXCEPT ![d] = st]
    BY <1>6 DEF SetState
  <2>2. \A e \in active : IsActive(e) => e = d
    <3>1. \A e \in active : e \in Clients
      BY DEF TypeInv, DataInv
    <3>2. \A e \in active : e # d => state'[e] = state[e]
      BY <1>3, <2>1, <3>1
    <3> QED  BY <1>4, <1>6, <3>2 DEF IsActive
  <2>3. c = d /\ st \notin Busy
    BY <1>2, <1>3, <1>4, <1>6, <2>1, <2>2 DEF IsActive
  <2>4. Releases(d, st)
    BY <1>2, <1>3, <2>2, <2>3 DEF Releases
  <2> QED  BY <1>6, <2>4 DEF SetState
<1>7. ASSUME NEW d, NEW st \in Busy, state' = [state EXCEPT ![d] = st],
             conn' = conn \/ \E k \in Conns : conn' = [conn EXCEPT ![d] = k]
      PROVE  Goal
  <2>1. state'[c] \in {state[c], st} /\ conn'[c] \in {conn[c]} \cup Conns
    BY <1>3, <1>7
  <2> QED  BY <1>2, <1>4, <1>7, <2>1, SearchStateAssumption DEF IsActive
<1>8. Head(agenda[t]) \in Items(t) /\ Running(t)
  BY Sole, HeadKinds DEF ClientInv
<1>9. /\ Does(t, "non_block_events") => Again(Arg(t)) \in Seq(Items(t))
      /\ <<>> \in Seq(Items(t))
  <2>1. Does(t, "non_block_events") => <<"non_block_events", Arg(t)>> \in Items(t)
    <3>1. Does(t, "non_block_events") => <<"non_block_events", Arg(t)>> \in Loop
      BY <1>8, ItemArgs DEF Does, Arg, LoopConnOps, Loop
    <3> QED  BY <3>1, CalmHas DEF Items
  <2> QED  BY <2>1, Short DEF Again
<1>10. "Connecting" \in Busy /\ "Working" \in Busy
  BY DEF Busy
<1>11. CASE CreateConnection(t)
  <2>1. \E k \in Conns : conn' = [conn EXCEPT ![Arg(t)] = k]
    BY <1>11 DEF CreateConnection
  <2>2. state' = [state EXCEPT ![Arg(t)] = "Connecting"]
    BY <1>11 DEF CreateConnection
  <2> QED  BY <1>7, <1>10, <2>1, <2>2
<1>12. CASE ConnectFails(t)
  <2>1. conn' = conn /\ conn[Arg(t)] = None /\ \E st : state' = [state EXCEPT ![Arg(t)] = st]
    BY <1>12 DEF ConnectFails
  <2>2. state'[c] = state[c]
    BY <1>2, <1>3, <2>1 DEF IsActive
  <2> QED  BY <1>2, <1>4, <2>1, <2>2 DEF IsActive
<1>13. CASE StartSearch(t)
  BY <1>7, <1>10, <1>13 DEF StartSearch
<1>14. CASE SendApdu(t) \/ RecvError(t)
  <2>1. \E st : SetState(t, owner[Arg(t)], st, Again(Arg(t)))
    BY <1>14 DEF SendApdu, RecvError
  <2>2. conn' = conn /\ Does(t, "non_block_events")
    BY <1>14 DEF SendApdu, RecvError, Event
  <2> QED  BY <1>6, <1>9, <2>1, <2>2
<1>15. CASE End(t)
  <2>1. \E st : SetState(t, owner[Arg(t)], st, Again(Arg(t)))
    BY <1>15 DEF End
  <2>2. conn' = conn /\ Does(t, "non_block_events")
    BY <1>15 DEF End, Event
  <2> QED  BY <1>6, <1>9, <2>1, <2>2
<1>16. CASE Expired(t)
  BY <1>5, <1>6, <1>9, <1>16 DEF Expired
<1>17. CASE ClientDisconnect(t)
  BY <1>5, <1>6, <1>9, <1>17 DEF ClientDisconnect
<1>19. CASE FetchMore(t)
  <2>1. conn' = conn
    BY <1>19 DEF FetchMore
  <2>2. state' = state \/ \E d : state' = [state EXCEPT ![d] = "Working"]
    BY <1>19 DEF FetchMore
  <2> QED  BY <1>5, <1>7, <1>10, <2>1, <2>2
<1>20. CASE UNCHANGED <<state, conn>>
  BY <1>5, <1>20
<1>21. CASE ClientStep(t)
  BY <1>11, <1>12, <1>13, <1>14, <1>15, <1>16, <1>17, <1>20, <1>21
  DEF ClientStep, ClientLock, ClientUnlock, ReuseConnection, NoMoreEvents, IgnoredEvent, RecvRecord,
      GotRecords, PreferredCheck, RecordsCheck, ConnectionDestroy, FreeConnection, clientVars
<1>22. CASE SessionStep(t)
  BY <1>19, <1>20, <1>22
  DEF SessionStep, SessionSearch, Detach, DropCached, Drop, Started, SessionSort, SortClients,
      SessionStop, StopClients, SessionAlertWatch, ShowRecords, FetchedMore, ShowAgain, ShowRecord,
      RecordWatch, SessionSetWatch, clientVars
<1>23. CASE CommandStep(t)
  BY <1>20, <1>23
  DEF CommandStep, ApplySetting, ShowDecides, ShowWaits, TermlistDecides, TermlistWaits, Respond,
      SessionSetWatch, clientVars
<1> QED  BY <1>21, <1>22, <1>23 DEF Step

(* A watch that is not set, or that is about to be alerted.                *)
Alerted(a, w) == watch[w] = None \/ \E i \in 1 .. Len(a) : a[i] = Alert(w)
Released(a) == \A w \in Blocking : Alerted(a, w)

LEMMA WatchStays ==
    ASSUME NEW t \in Threads, Step(t), ~SessionAlertWatch(t),
           Head(agenda[t])[1] \notin WatchNames \cup {"show_again", "record_watch"}
    PROVE  watch' = watch
<1>1. CASE ClientStep(t)
  BY <1>1
  DEF ClientStep, ClientLock, ClientUnlock, ReuseConnection, CreateConnection, ConnectFails,
      StartSearch, NoMoreEvents, IgnoredEvent, SendApdu, RecvError, RecvRecord, End, GotRecords,
      PreferredCheck, RecordsCheck, Expired, ConnectionDestroy, ClientDisconnect,
      UnsetConnection, FreeConnection, sessionVars
<1>2. CASE SessionStep(t)
  <2>1. ~ShowAgain(t) /\ ~RecordWatch(t)
    BY DEF ShowAgain, RecordWatch, Does
  <2> QED
    BY <1>2, <2>1
    DEF SessionStep, SessionSearch, ResetActive, Detach, DropCached, Drop, SelectTargets,
        SearchClients, Started, SessionSort, SortClients, SessionStop, StopClients, ClientStop,
        ShowRecords, FetchMore, FetchedMore, ShowRecord, sessionVars
<1>3. CASE CommandStep(t)
  <2>1. ~ShowWaits(t) /\ ~TermlistWaits(t)
    BY DEF ShowWaits, TermlistWaits, Does, WatchNames
  <2> QED
    BY <1>3, <2>1
    DEF CommandStep, ApplySetting, ShowDecides, TermlistDecides, Respond, sessionVars
<1> QED  BY <1>1, <1>2, <1>3 DEF Step

(* What a step leaves: what it adds, then what was behind its item.        *)
Behind(t, a, b, ops) ==
    /\ a \in Seq(Items(t)) /\ a # <<>> /\ Head(a) = a[1] /\ a[1] \in Items(t)
    /\ Len(a) \in Nat \ {0} /\ Len(ops) \in Nat
    /\ b = ops \o Tail(a) /\ b \in Seq(Items(t)) /\ Len(b) = Len(ops) + Len(a) - 1
    /\ \A i \in 1 .. Len(ops) : b[i] = ops[i]
    /\ \A i \in Len(ops) + 1 .. Len(ops) + Len(a) - 1 : b[i] = a[i - Len(ops) + 1]
    /\ \A i \in 2 .. Len(a) : b[Len(ops) + i - 1] = a[i]

LEMMA Tailed ==
    ASSUME TypeInv, ClientInv, NEW t \in Threads, Step(t), NEW ops \in Seq(Items(t)), Then(t, ops)
    PROVE  Running(t) /\ Behind(t, agenda[t], agenda'[t], ops)
<1> DEFINE a == agenda[t]
<1>1. a \in Seq(Items(t)) /\ a # <<>> /\ Head(a) = a[1] /\ Running(t) /\ AgendaInv
  BY Sole DEF ClientInv, TypeInv
<1>2. agenda'[t] = ops \o Tail(a)
  BY <1>1, AgendaMoves
<1> HIDE DEF a
<1>3. /\ ops \o Tail(a) \in Seq(Items(t))
      /\ Len(ops \o Tail(a)) = Len(ops) + Len(a) - 1
      /\ \A i \in 1 .. Len(ops) : (ops \o Tail(a))[i] = ops[i]
      /\ \A i \in 2 .. Len(a) : (ops \o Tail(a))[Len(ops) + i - 1] = a[i]
      /\ \A i \in Len(ops) + 1 .. Len(ops) + Len(a) - 1 :
                 (ops \o Tail(a))[i] = a[i - Len(ops) + 1]
      /\ Len(a) \in Nat \ {0} /\ Len(ops) \in Nat
  BY <1>1, ThenSeq
<1>4. a[1] \in Items(t)
  BY <1>1
<1> QED  BY <1>1, <1>2, <1>3, <1>4 DEF a, Behind

(* A step that alerts all releases all.                                    *)
LEMMA Wakes ==
    ASSUME TypeInv, ClientInv, NEW t \in Threads, Step(t), NEW after \in Seq(Items(t)),
           Then(t, AlertAll \o after)
    PROVE  Released(agenda[t])'
<1> DEFINE ops == AlertAll \o after
<1>1. AlertAll \in Seq(Items(t))
  <2>1. Calm(t) \subseteq Items(t)
    BY CalmHas DEF Items
  <2> QED  BY <2>1, CalmHas
<1>2. Len(AlertAll) = 3 /\ AlertAll[1] = Alert("show") /\ AlertAll[2] = Alert("termlist")
      /\ AlertAll[3] = Alert("pref")
  BY DEF AlertAll
<1>3. /\ ops \in Seq(Items(t)) /\ Len(ops) >= 3
      /\ ops[1] = Alert("show") /\ ops[2] = Alert("termlist") /\ ops[3] = Alert("pref")
  <2>1. /\ ops \in Seq(Items(t)) /\ Len(ops) = Len(AlertAll) + Len(after) /\ Len(after) \in Nat
        /\ \A i \in 1 .. Len(AlertAll) : ops[i] = AlertAll[i]
    BY <1>1
  <2>2. 1 \in 1 .. Len(AlertAll) /\ 2 \in 1 .. Len(AlertAll) /\ 3 \in 1 .. Len(AlertAll)
    BY <1>2
  <2> HIDE DEF ops
  <2> QED  BY <1>2, <2>1, <2>2
<1> HIDE DEF ops
<1>4. Then(t, ops)
  BY DEF ops
<1> DEFINE b == agenda'[t]
<1>5. /\ Len(b) >= 3 /\ Len(b) \in Nat
      /\ b[1] = Alert("show") /\ b[2] = Alert("termlist") /\ b[3] = Alert("pref")
  <2>1. /\ Len(b) = Len(ops) + Len(agenda[t]) - 1
        /\ \A i \in 1 .. Len(ops) : b[i] = ops[i]
        /\ Len(agenda[t]) \in Nat \ {0} /\ Len(ops) \in Nat
    <3>1. Running(t) /\ Behind(t, agenda[t], agenda'[t], ops)
      BY <1>3, <1>4, Tailed
    <3> QED  BY <3>1 DEF Behind
  <2>2. 1 \in 1 .. Len(ops) /\ 2 \in 1 .. Len(ops) /\ 3 \in 1 .. Len(ops)
    BY <1>3, <2>1
  <2> HIDE DEF b
  <2> QED  BY <1>3, <2>1, <2>2
<1>6. \A w \in Blocking : \E i \in 1 .. Len(b) : b[i] = Alert(w)
  <2>1. 1 \in 1 .. Len(b) /\ 2 \in 1 .. Len(b) /\ 3 \in 1 .. Len(b)
    BY <1>5
  <2> HIDE DEF b
  <2> QED  BY <1>5, <2>1 DEF Blocking
<1> QED  BY <1>6 DEF Released, Alerted

(* A watch that is released stays so until a command waits again.          *)
LEMMA ReleasedStays ==
    ASSUME TypeInv, ClientInv, NEW t \in Threads, Step(t), NEW ops \in Seq(Items(t)), Then(t, ops),
           Head(agenda[t])[1] \notin WatchNames \cup {"show_again"}, Released(agenda[t])
    PROVE  Released(agenda[t])'
<1> DEFINE a == agenda[t]
           b == agenda'[t]
           m == Len(ops)
<1>1. /\ a # <<>> /\ Head(a) = a[1] /\ Len(b) = m + Len(a) - 1 /\ Len(a) \in Nat \ {0} /\ m \in Nat
      /\ \A i \in 2 .. Len(a) : b[m + i - 1] = a[i]
  <2>1. Running(t) /\ Behind(t, agenda[t], agenda'[t], ops)
    BY Tailed
  <2> QED  BY <2>1 DEF Behind
<1> SUFFICES ASSUME NEW w \in Blocking
             PROVE  watch'[w] = None \/ \E i \in 1 .. Len(b) : b[i] = Alert(w)
  BY DEF Released, Alerted
<1>2. Alerted(a, w) /\ w \in Watches /\ w # "record" /\ watch \in [Watches -> Chans \cup {None}]
  BY DEF Released, Blocking, Watches, TypeInv, DataInv
<1> HIDE DEF a, b, m
<1>3. \A i \in 2 .. Len(a) : a[i] = Alert(w) => \E j \in 1 .. Len(b) : b[j] = Alert(w)
  <2>1. \A i \in 2 .. Len(a) : m + i - 1 \in 1 .. Len(b)
    BY <1>1
  <2> QED  BY <1>1, <2>1
<1>4. Head(a)[1] = "session_alert_watch" => SessionAlertWatch(t)
  BY <1>1, HeadSteps DEF Does, Running, a
<1>5. CASE SessionAlertWatch(t)
  <2>1. watch' = [watch EXCEPT ![Arg(t)] = None]
    BY <1>5 DEF SessionAlertWatch, Unwatch
  <2>2. CASE Arg(t) = w
    BY <1>2, <2>1, <2>2
  <2>3. CASE Arg(t) # w
    <3>1. watch'[w] = watch[w]
      BY <1>2, <2>1, <2>3
    <3>2. a[1] # Alert(w)
      <4>1. a[1][2] # w
        BY <1>1, <2>3 DEF Arg, a
      <4> QED  BY <4>1 DEF Alert
    <3>3. \A i \in 1 .. Len(a) : i = 1 \/ i \in 2 .. Len(a)
      BY <1>1
    <3> QED  BY <1>2, <1>3, <3>1, <3>2, <3>3 DEF Alerted
  <2> QED  BY <2>2, <2>3
<1>6. CASE ~SessionAlertWatch(t)
  <2>1. watch'[w] = watch[w]
    <3>1. CASE Head(a)[1] = "record_watch"
      <4>1. SessionSetWatch(t, "record", Arg(t), Reply(Arg(t)))
        BY <1>1, <3>1, HeadSteps DEF Does, Running, RecordWatch, a
      <4> QED  BY <1>2, <4>1 DEF SessionSetWatch
    <3>2. CASE Head(a)[1] # "record_watch"
      BY <1>6, <3>2, WatchStays DEF a
    <3> QED  BY <3>1, <3>2
  <2>2. a[1] # Alert(w)
    BY <1>1, <1>4, <1>6 DEF Alert
  <2>3. \A i \in 1 .. Len(a) : i = 1 \/ i \in 2 .. Len(a)
    BY <1>1
  <2> QED  BY <1>2, <1>3, <2>1, <2>2, <2>3 DEF Alerted
<1> QED  BY <1>5, <1>6

(* What a step leaves is what it leaves, however it is written.            *)
LEMMA StepNames ==
    ASSUME TypeInv, ClientInv, StaleInv, NEW t \in Threads, Step(t), NEW ops \in Seq(Items(t)),
           Then(t, ops)
    PROVE  /\ \A i \in 1 .. Len(ops) :
                 ops[i][1] \in Rare => <<agenda[t][1][1], ops[i][1]>> \in RareCalls
           /\ \A other \in Seq(Items(t)) : Then(t, other) =>
                 /\ Len(other) = Len(ops)
                 /\ \A i \in 1 .. Len(ops) : other[i] = ops[i]
<1> DEFINE a == agenda[t]
           P == Left(Head(a)[1], Items(t))
<1>1. ASSUME NEW other \in Seq(Items(t)), Then(t, other)
      PROVE  Len(other) = Len(ops) /\ \A i \in 1 .. Len(ops) : other[i] = ops[i]
  <2>1. /\ Len(agenda'[t]) = Len(ops) + Len(a) - 1 /\ Len(a) \in Nat \ {0} /\ Len(ops) \in Nat
        /\ \A i \in 1 .. Len(ops) : agenda'[t][i] = ops[i]
    <3>1. Running(t) /\ Behind(t, agenda[t], agenda'[t], ops)
      BY Tailed
    <3> QED  BY <3>1 DEF Behind
  <2>2. /\ Len(agenda'[t]) = Len(other) + Len(a) - 1 /\ Len(other) \in Nat
        /\ \A i \in 1 .. Len(other) : agenda'[t][i] = other[i]
    <3>1. Running(t) /\ Behind(t, agenda[t], agenda'[t], other)
      BY <1>1, Tailed
    <3> QED  BY <3>1 DEF Behind
  <2> HIDE DEF a
  <2>3. Len(other) = Len(ops)
    BY <2>1, <2>2
  <2> QED  BY <2>1, <2>2, <2>3
<1>2. PICK other \in Seq(P) : Then(t, other)
  BY StepLeaves DEF PlainThen
<1>3. other \in Seq(Items(t)) /\ \A i \in 1 .. Len(other) : other[i] \in P
  <2>1. P \subseteq Items(t)
    BY DEF Left
  <2> HIDE DEF P
  <2> QED  BY <2>1
<1>4. \A i \in 1 .. Len(ops) : ops[i] \in P
  <2>1. Len(other) = Len(ops) /\ \A i \in 1 .. Len(ops) : other[i] = ops[i]
    BY <1>1, <1>2, <1>3
  <2> QED  BY <1>3, <2>1
<1>5. Head(a) = a[1]
  <2>1. Running(t) /\ Behind(t, agenda[t], agenda'[t], ops)
    BY Tailed
  <2> QED  BY <2>1 DEF Behind
<1> QED  BY <1>1, <1>4, <1>5 DEF Left

LEMMA SelectingStays ==
    ASSUME TypeInv, ClientInv, NEW t \in Threads, Step(t), NEW ops \in Seq(Items(t)), Then(t, ops),
           Selecting(agenda[t]), agenda[t][1][1] # "select_targets"
    PROVE  Selecting(agenda'[t])
<1> DEFINE a == agenda[t]
           b == agenda'[t]
           m == Len(ops)
<1>1. /\ Len(b) = m + Len(a) - 1 /\ Len(a) \in Nat \ {0} /\ m \in Nat
      /\ \A i \in 2 .. Len(a) : b[m + i - 1] = a[i]
  <2>1. Running(t) /\ Behind(t, agenda[t], agenda'[t], ops)
    BY Tailed
  <2> QED  BY <2>1 DEF Behind
<1>2. PICK i \in 1 .. Len(a) : a[i][1] = "select_targets"
  BY DEF Selecting
<1>3. a[1][1] # "select_targets"
  OBVIOUS
<1> HIDE DEF a, b, m
<1>4. i \in 2 .. Len(a) /\ m + i - 1 \in 1 .. Len(b)
  BY <1>1, <1>2, <1>3
<1>5. b[m + i - 1][1] = "select_targets"
  BY <1>1, <1>2, <1>4
<1> QED  BY <1>4, <1>5 DEF Selecting, b

(* Taking a connection away that is not active ends no activity.           *)
LEMMA UnsetIdle ==
    ASSUME TypeInv, ClientInv, NEW t \in Threads, UnsetConnection(t), ~IsActive(Arg(t)), NoActive'
    PROVE  NoActive
<1>1. active' = active /\ state' = state /\ conn' = [conn EXCEPT ![Arg(t)] = None]
  BY DEF UnsetConnection, sessionVars
<1> SUFFICES ASSUME NEW c \in active PROVE ~IsActive(c)
  BY DEF NoActive
<1>2. CASE c = Arg(t)
  BY <1>2
<1>3. CASE c # Arg(t)
  <2>1. c \in Clients /\ conn \in [Clients -> Conns \cup {None}]
    BY DEF TypeInv, DataInv
  <2>2. conn'[c] = conn[c] /\ state'[c] = state[c]
    BY <1>1, <1>3, <2>1
  <2>3. ~IsActive(c)'
    BY <1>1 DEF NoActive
  <2> QED  BY <2>2, <2>3 DEF IsActive
<1> QED  BY <1>2, <1>3

(* Client c is not active, or disconnected before the n-th of a.           *)
Parted(a, n, c) ==
    ~IsActive(c) \/ \E i \in 1 .. n - 1 : a[i] = <<"client_disconnect", c>>

(* No command waits for active clients if there are none, nor while they   *)
(* are stopped or started, unless it is about to be answered.              *)
Waits(a) ==
    /\ Plan(a)
    /\ NoActive /\ ~Selecting(a) => Released(a)
    /\ Stopping(a) => Released(a)
    /\ a # <<>> /\ a[1][1] \in WatchNames => ~NoActive
    /\ \A i \in 1 .. Len(a) : a[i][1] = "unset_connection" => Parted(a, i, a[i][2])

WaitInv ==
    \A t \in Threads : (\A u \in Threads \ {t} : ~Running(u)) => Waits(agenda[t])

(* A search alerts all before it starts its clients.                       *)
LEMMA SelectReleased ==
    ASSUME ~ExtendRecs, BadSearches \cap {"targets", "limit"} = {}, TypeInv, ClientInv,
           NEW t \in Threads, SelectTargets(t)
    PROVE  Released(agenda[t])'
<1>1. Step(t) /\ t \in Chans
  <2>1. Clears(t)
    BY DEF Clears
  <2> QED  BY <2>1, PhaseHeads
<1>2. PICK S \in SUBSET Clients :
          Then(t, AlertAll \o << <<"search_clients", S>>, <<"started", None>> >>)
  BY DEF SelectTargets
<1>3. <<"search_clients", S>> \in Items(t) /\ <<"started", None>> \in Items(t)
  <2>1. <<"search_clients", S>> \in Commanding /\ <<"started", None>> \in Starters
    BY DEF Commanding, CommandSetOps, Starters, Start
  <2> QED  BY <1>1, <2>1, CalmHas DEF Items
<1>4. << <<"search_clients", S>>, <<"started", None>> >> \in Seq(Items(t))
  BY <1>3, Short
<1> QED  BY <1>1, <1>2, <1>4, Wakes

LEMMA IdleReleased ==
    ASSUME ~ExtendRecs, BadSearches \cap {"targets", "limit"} = {}, TypeInv, ClientInv, StaleInv,
           EndInv, NEW t \in Threads, Step(t), Waits(agenda[t]), NEW ops \in Seq(Items(t)),
           Then(t, ops), NoActive', ~Selecting(agenda'[t])
    PROVE  Released(agenda[t])'
<1> DEFINE a == agenda[t]
<1>1. /\ a \in Seq(Items(t)) /\ a # <<>> /\ Head(a) = a[1] /\ Len(a) \in Nat \ {0} /\ Running(t)
      /\ 1 \in 1 .. Len(a)
  <2>1. Running(t) /\ Behind(t, agenda[t], agenda'[t], ops)
    BY Tailed
  <2> QED  BY <2>1 DEF Behind
<1>2. \A op : Does(t, op) <=> a[1][1] = op
  BY <1>1 DEF Does
<1>3. /\ Plan(a) /\ a[1][1] \notin {"session_fetch_more", "show_again"}
      /\ Rank(a[1]) > 0 => Selecting(a)
  BY <1>1 DEF Waits, Plan
<1>4. CASE a[1][1] = "select_targets"
  <2>1. SelectTargets(t)
    BY <1>2, <1>4, OnlySelects
  <2> QED  BY <2>1, SelectReleased
<1>5. CASE a[1][1] # "select_targets"
  <2>1. ~Selecting(a) /\ ~SelectTargets(t)
    BY <1>2, <1>5, SelectingStays DEF SelectTargets
  <2>2. ASSUME Released(a), a[1][1] \notin WatchNames PROVE Released(agenda[t])'
    BY <1>1, <1>3, <2>2, ReleasedStays
  <2>3. CASE NoActive
    BY <1>1, <2>1, <2>2, <2>3 DEF Waits
  <2>4. CASE ~NoActive
    <3>1. ~ResetActive(t)
      <4>1. ResetActive(t) => Rank(a[1]) = 1
        BY <1>2 DEF ResetActive, Rank
      <4> QED  BY <1>3, <2>1, <4>1
    <3>2. CASE ClientStop(t) \/ SearchClients(t)
      <4>1. a[1][1] \in StopNames /\ Stopping(a)
        BY <1>1, <1>2, <3>2 DEF ClientStop, SearchClients, Stopping, StopNames
      <4>2. a[1][1] \notin WatchNames
        BY <4>1 DEF StopNames, WatchNames
      <4> QED  BY <2>2, <4>1, <4>2 DEF Waits
    <3>3. ~UnsetConnection(t)
      <4> SUFFICES ASSUME UnsetConnection(t) PROVE FALSE
        OBVIOUS
      <4>1. a[1][1] = "unset_connection" /\ Arg(t) = a[1][2]
        BY <1>1, <1>2 DEF UnsetConnection, Arg
      <4>2. Parted(a, 1, a[1][2])
        BY <1>1, <4>1 DEF Waits
      <4>3. ~IsActive(Arg(t))
        BY <4>1, <4>2 DEF Parted
      <4> QED  BY <2>4, <4>3, UnsetIdle
    <3>4. CASE ~ClientStop(t) /\ ~SearchClients(t)
      BY <2>1, <2>4, <3>1, <3>3, <3>4, LastActive, Wakes
    <3> QED  BY <3>2, <3>4
  <2> QED  BY <2>3, <2>4
<1> QED  BY <1>4, <1>5

LEMMA StopReleased ==
    ASSUME ~ExtendRecs, BadSearches \cap {"targets", "limit"} = {}, TypeInv, ClientInv, StaleInv,
           NEW t \in Threads, Step(t), Waits(agenda[t]), NEW ops \in Seq(Items(t)), Then(t, ops),
           Stopping(agenda'[t])
    PROVE  Released(agenda[t])'
<1> DEFINE a == agenda[t]
           b == agenda'[t]
           m == Len(ops)
<1>1. /\ a \in Seq(Items(t)) /\ a # <<>> /\ Head(a) = a[1] /\ Len(a) \in Nat \ {0} /\ m \in Nat
      /\ 1 \in 1 .. Len(a) /\ Running(t)
      /\ Len(b) = m + Len(a) - 1
      /\ \A i \in 1 .. m : b[i] = ops[i]
      /\ \A i \in m + 1 .. m + Len(a) - 1 : b[i] = a[i - m + 1]
  <2>1. Running(t) /\ Behind(t, agenda[t], agenda'[t], ops)
    BY Tailed
  <2> QED  BY <2>1 DEF Behind
<1>2. Plan(a) /\ a[1][1] \notin {"session_fetch_more", "show_again"}
  BY <1>1 DEF Waits, Plan
<1>3. PICK i \in 1 .. Len(b) : b[i][1] \in StopNames
  BY DEF Stopping
<1>4. ASSUME Stopping(a), a[1][1] \notin WatchNames PROVE Released(agenda[t])'
  BY <1>1, <1>2, <1>4, ReleasedStays DEF Waits
<1>5. CASE i > m
  <2> DEFINE n == i - m + 1
  <2> HIDE DEF a, b, m
  <2>1. n \in 2 .. Len(a) /\ n \in 1 .. Len(a) /\ b[i] = a[n]
    BY <1>1, <1>3, <1>5
  <2>2. Stopping(a)
    BY <1>3, <2>1 DEF Stopping
  <2>3. a[1][1] \notin WatchNames
    <3>1. a[1][1] \in OwnNames => 1 = Len(a)
      BY <1>1, <1>2 DEF Plan
    <3>2. Len(a) # 1
      BY <2>1
    <3> QED  BY <3>1, <3>2 DEF WatchNames, OwnNames
  <2> USE DEF a
  <2> QED  BY <1>4, <2>2, <2>3
<1>6. CASE i <= m
  <2>1. i \in 1 .. Len(ops) /\ ops[i][1] \in StopNames
    BY <1>1, <1>3, <1>6
  <2>2. <<a[1][1], ops[i][1]>> \in RareCalls
    <3>1. ops[i][1] \in Rare
      BY <2>1 DEF StopNames, Rare
    <3> QED  BY <2>1, <3>1, StepNames
  <2>3. a[1][1] \in {"session_stop", "select_targets"} \cup StopNames
    BY <2>1, <2>2 DEF RareCalls, StopNames
  <2>4. CASE a[1][1] \in StopNames
    <3>1. Stopping(a) /\ a[1][1] \notin WatchNames
      BY <1>1, <2>3, <2>4 DEF Stopping, StopNames, WatchNames
    <3> QED  BY <1>4, <3>1
  <2>5. CASE a[1][1] = "session_stop"
    <3>1. SessionStop(t)
      BY <1>1, <2>5, HeadSteps DEF Does
    <3>2. ~Done(t)
      <4>1. ASSUME Done(t) PROVE FALSE
        <5>1. Len(<<>>) = 0 /\ <<>> \in Seq(Items(t))
          OBVIOUS
        <5>2. Len(ops) = 0
          BY <4>1, <5>1, StepNames DEF Done
        <5> QED  BY <2>1, <5>2
      <4> QED  BY <4>1
    <3>3. Then(t, AlertAll \o << <<"stop_clients", None>>, <<"started", None>> >>)
      BY <3>1, <3>2 DEF SessionStop
    <3>4. << <<"stop_clients", None>>, <<"started", None>> >> \in Seq(Items(t))
      <4>1. t \in Chans
        <5>1. a[1][1] \in CommandNames
          BY <2>5 DEF CommandNames, CommandOps
        <5> QED  BY <1>1, <5>1, ItemKinds
      <4>2. <<"stop_clients", None>> \in Commanding /\ <<"started", None>> \in Starters
        BY DEF Commanding, CommandOps, Starters, Start
      <4>3. <<"stop_clients", None>> \in Items(t) /\ <<"started", None>> \in Items(t)
        BY <4>1, <4>2, CalmHas DEF Items
      <4> QED  BY <4>3, Short
    <3> QED  BY <3>3, <3>4, Wakes
  <2>6. CASE a[1][1] = "select_targets"
    <3>1. SelectTargets(t)
      BY <1>1, <2>6, OnlySelects DEF Does
    <3> QED  BY <3>1, SelectReleased
  <2> QED  BY <2>3, <2>4, <2>5, <2>6
<1> QED  BY <1>1, <1>5, <1>6

(* A command that is about to wait has seen an active client.              *)
LEMMA WatchesActive ==
    ASSUME TypeInv, ClientInv, StaleInv, NEW t \in Threads, Step(t), Waits(agenda[t]),
           NEW ops \in Seq(Items(t)), Then(t, ops), agenda'[t] # <<>>,
           agenda'[t][1][1] \in WatchNames
    PROVE  ~NoActive'
<1> DEFINE a == agenda[t]
           b == agenda'[t]
           m == Len(ops)
<1>1. /\ a \in Seq(Items(t)) /\ a # <<>> /\ Head(a) = a[1] /\ Len(a) \in Nat \ {0} /\ m \in Nat
      /\ Running(t) /\ b \in Seq(Items(t))
      /\ Len(b) = m + Len(a) - 1
      /\ \A i \in 1 .. m : b[i] = ops[i]
      /\ \A i \in 2 .. Len(a) : b[m + i - 1] = a[i]
  <2>1. Running(t) /\ Behind(t, agenda[t], agenda'[t], ops)
    BY Tailed
  <2> QED  BY <2>1 DEF Behind
<1>2. Plan(a)
  BY DEF Waits
<1>3. Len(b) >= 1 /\ b[1][1] \in WatchNames
  BY <1>1
<1>4. m # 0
  <2> SUFFICES ASSUME m = 0 PROVE FALSE
    OBVIOUS
  <2> HIDE DEF a, b, m
  <2>1. 2 \in 2 .. Len(a) /\ 2 \in 1 .. Len(a) /\ m + 2 - 1 = 1
    BY <1>1, <1>3
  <2>2. a[2][1] \in WatchNames
    BY <1>1, <1>3, <2>1
  <2>3. 2 = 1
    BY <1>2, <2>1, <2>2 DEF Plan
  <2> QED  BY <2>3
<1>5. 1 \in 1 .. m /\ ops[1][1] \in WatchNames
  BY <1>1, <1>3, <1>4
<1>6. <<a[1][1], ops[1][1]>> \in RareCalls
  <2>1. ops[1][1] \in Rare
    BY <1>5 DEF WatchNames, Rare
  <2> QED  BY <1>5, <2>1, StepNames
<1>7. a[1][1] \in {"cmd_show", "cmd_termlist"}
  BY <1>5, <1>6 DEF RareCalls, WatchNames
<1>8. ShowDecides(t) \/ TermlistDecides(t)
  BY <1>1, <1>7, HeadSteps DEF Does
<1>9. UNCHANGED <<active, state, conn>>
  BY <1>8 DEF ShowDecides, TermlistDecides, sessionVars, clientVars
<1>10. ~NoActive
  <2> SUFFICES ASSUME NoActive PROVE FALSE
    OBVIOUS
  <2>1. PreferredReady
    BY DEF NoActive, PreferredReady
  <2>2. \E op \in {"show_records", "reply"} : Then(t, << <<op, t>> >>)
    BY <1>8, <2>1 DEF ShowDecides, TermlistDecides, Reply
  <2>3. PICK op \in {"show_records", "reply"} : Then(t, << <<op, t>> >>)
    BY <2>2
  <2> DEFINE x == <<op, t>>
  <2>4. x \in Items(t) /\ x[1] = op
    <3>1. t \in Chans
      <4>1. a[1][1] \in OwnNames
        BY <1>7 DEF OwnNames
      <4> QED  BY <1>1, <4>1, ItemKinds
    <3>2. x \in Answers(t)
      BY DEF Answers, AnswerOps
    <3> QED  BY <3>1, <3>2 DEF Items, For
  <2> HIDE DEF x
  <2>5. <<x>> \in Seq(Items(t)) /\ <<x>>[1] = x /\ Then(t, <<x>>)
    BY <2>3, <2>4 DEF x
  <2>6. <<x>>[1] = ops[1]
    BY <1>5, <2>5, StepNames
  <2> QED  BY <1>5, <2>3, <2>4, <2>5, <2>6 DEF WatchNames
<1> QED  BY <1>9, <1>10 DEF NoActive, IsActive

(* A connection is taken from a client that is not active any more.        *)
LEMMA PartedStays ==
    ASSUME TypeInv, ClientInv, StaleInv, EndInv, NEW t \in Threads, Step(t), Waits(agenda[t]),
           NEW ops \in Seq(Items(t)), Then(t, ops), NEW i \in 1 .. Len(agenda'[t]), NEW c,
           agenda'[t][i][1] = "unset_connection", agenda'[t][i][2] = c
    PROVE  \/ ~(conn'[c] # None /\ state'[c] \in Busy)
           \/ \E j \in 1 .. i - 1 : agenda'[t][j] = <<"client_disconnect", c>>
<1> DEFINE a == agenda[t]
           b == agenda'[t]
           m == Len(ops)
           gone == <<"client_disconnect", c>>
           Goal == \/ ~(conn'[c] # None /\ state'[c] \in Busy)
                   \/ \E j \in 1 .. i - 1 : b[j] = gone
<1>1. /\ a \in Seq(Items(t)) /\ a # <<>> /\ Head(a) = a[1] /\ Len(a) \in Nat \ {0} /\ m \in Nat
      /\ Running(t) /\ b \in Seq(Items(t)) /\ a[1] \in Items(t)
      /\ Len(b) = m + Len(a) - 1
      /\ \A j \in 1 .. m : b[j] = ops[j]
      /\ \A j \in m + 1 .. m + Len(a) - 1 : b[j] = a[j - m + 1]
      /\ \A j \in 2 .. Len(a) : b[m + j - 1] = a[j]
  <2>1. Running(t) /\ Behind(t, agenda[t], agenda'[t], ops)
    BY Tailed
  <2> QED  BY <2>1 DEF Behind
<1>2. Plan(a) /\ i \in 1 .. Len(b) /\ b[i][1] = "unset_connection" /\ b[i][2] = c
  BY DEF Waits
<1>3. c \in Clients
  <2>1. b[i] \in Items(t)
    BY <1>1
  <2> QED  BY <2>1, <1>2, ItemArgs
<1>4. /\ Does(t, "client_disconnect") <=> a[1][1] = "client_disconnect"
      /\ Does(t, "connection_destroy") <=> a[1][1] = "connection_destroy"
      /\ \A op \in AnswerOps \cup {"session_alert_watch"} : Does(t, op) <=> a[1][1] = op
  BY <1>1 DEF Does
<1> SUFFICES Goal
  OBVIOUS
<1> HIDE DEF gone
<1>5. CASE i <= m
  <2>1. i \in 1 .. Len(ops) /\ ops[i][1] = "unset_connection" /\ ops[i][2] = c
    BY <1>1, <1>2, <1>5
  <2>2. <<a[1][1], ops[i][1]>> \in RareCalls
    <3>1. ops[i][1] \in Rare
      BY <2>1 DEF Rare
    <3> QED  BY <2>1, <3>1, StepNames
  <2>3. ConnectionDestroy(t)
    <3>1. a[1][1] = "connection_destroy"
      BY <2>1, <2>2 DEF RareCalls
    <3> QED  BY <1>4, <3>1, HeadSteps
  <2> DEFINE k == Arg(t)
             d == owner[k]
             x == <<"client_disconnect", d>>
             y == <<"unset_connection", d>>
             z == <<"free", k>>
  <2>4. t \in Conns /\ k \in Conns
    BY <1>1, <1>4, <2>3, ItemKinds, ItemArgs DEF UndoNames, UndoConnOps, Arg, ConnectionDestroy
  <2>5. z \in Items(t) /\ (d # None => x \in Items(t) /\ y \in Items(t))
    <3>1. d # None => d \in Clients
      BY <2>4 DEF TypeInv, DataInv
    <3>2. z \in Undoing /\ (d # None => x \in Closing /\ y \in Undoing)
      BY <2>4, <3>1 DEF Closing, Undoing, UndoConnOps
    <3> QED  BY <2>4, <3>2, CalmHas DEF Items
  <2>6. Then(t, (IF d = None THEN <<>> ELSE <<x, y>>) \o <<z>>)
    BY <2>3 DEF ConnectionDestroy
  <2>7. x[1] # "unset_connection" /\ z[1] # "unset_connection" /\ y[2] = d /\ (d = c => x = gone)
    BY DEF gone
  <2> HIDE DEF x, y, z, d
  <2>8. CASE d = None
    <3> DEFINE other == <<>> \o <<z>>
    <3>1. other \in Seq(Items(t)) /\ Then(t, other) /\ Len(other) = 1 /\ other[1] = z
      BY <2>5, <2>6, <2>8
    <3> HIDE DEF other
    <3>2. Len(ops) = 1 /\ other[i] = ops[i]
      BY <2>1, <3>1, StepNames
    <3>3. i = 1
      BY <2>1, <3>2
    <3> QED  BY <2>1, <2>7, <3>1, <3>2, <3>3
  <2>9. CASE d # None
    <3> DEFINE other == <<x, y>> \o <<z>>
    <3>1. /\ other \in Seq(Items(t)) /\ Then(t, other) /\ Len(other) = 3
          /\ other[1] = x /\ other[2] = y /\ other[3] = z
      BY <2>5, <2>6, <2>9
    <3> HIDE DEF other
    <3>2. Len(ops) = 3 /\ \A j \in 1 .. Len(ops) : other[j] = ops[j]
      BY <3>1, StepNames
    <3>3. i = 1 \/ i = 2 \/ i = 3
      BY <2>1, <3>2
    <3>4. 1 \in 1 .. Len(ops) /\ 1 \in 1 .. m
      BY <3>2
    <3>5. i = 2
      BY <2>1, <2>7, <3>1, <3>2, <3>3
    <3>6. d = c /\ b[1] = x
      <4>1. ops[2] = y /\ ops[1] = x
        BY <2>1, <3>1, <3>2, <3>4, <3>5
      <4> QED  BY <1>1, <2>1, <2>7, <3>4, <3>5, <4>1
    <3>7. 1 \in 1 .. i - 1
      BY <3>5
    <3> QED  BY <2>7, <3>6, <3>7
  <2> QED  BY <2>8, <2>9
<1>6. CASE i > m
  <2> DEFINE n == i - m + 1
  <2>1. n \in 2 .. Len(a) /\ n \in 1 .. Len(a) /\ 1 \in 1 .. n - 1
        /\ a[n][1] = "unset_connection" /\ a[n][2] = c
    <3> HIDE DEF a, b, m
    <3>1. i \in m + 1 .. m + Len(a) - 1 /\ n \in 2 .. Len(a) /\ n \in 1 .. Len(a) /\ 1 \in 1 .. n - 1
      BY <1>1, <1>2, <1>6
    <3> QED  BY <1>1, <1>2, <3>1
  <2>2. a[1][1] \in Parting \ {"show_again"}
    <3>1. 1 \in 1 .. Len(a)
      BY <1>1
    <3> QED  BY <1>2, <2>1, <3>1 DEF Plan
  <2>3. Parted(a, n, c)
    BY <2>1 DEF Waits
  <2>4. ASSUME a[1][1] = "client_disconnect"
        PROVE  /\ conn' = conn
               /\ state'[c] \in {state[c], "Disconnected"}
               /\ a[1][2] = c => state'[c] \in {"Idle", "Disconnected"}
    <3>1. ClientDisconnect(t) /\ Arg(t) = a[1][2]
      BY <1>1, <1>4, <2>4, HeadSteps DEF Arg
    <3>2. conn' = conn /\ (\/ state[Arg(t)] = "Idle" /\ state' = state
                           \/ state' = [state EXCEPT ![Arg(t)] = "Disconnected"])
      BY <3>1 DEF ClientDisconnect, SetState
    <3>3. DOMAIN state = Clients
      BY DEF TypeInv, DataInv, EndInv
    <3> QED  BY <1>3, <3>1, <3>2, <3>3
  <2>5. CASE \E j \in 1 .. n - 1 : a[j] = gone
    <3>1. PICK j \in 1 .. n - 1 : a[j] = gone
      BY <2>5
    <3>2. CASE j = 1
      <4>1. a[1][1] = "client_disconnect" /\ a[1][2] = c
        BY <3>1, <3>2 DEF gone
      <4> QED  BY <2>4, <4>1 DEF Busy
    <3>3. CASE j # 1
      <4> HIDE DEF a, b, m, Goal
      <4>1. j \in 2 .. Len(a) /\ m + j - 1 \in 1 .. i - 1
        BY <1>1, <2>1, <3>3
      <4>2. b[m + j - 1] = gone
        BY <1>1, <3>1, <4>1
      <4> QED  BY <4>1, <4>2 DEF Goal
    <3> QED  BY <3>2, <3>3
  <2>6. CASE ~IsActive(c)
    <3>1. CASE a[1][1] = "client_disconnect"
      BY <2>4, <2>6, <3>1 DEF IsActive, Busy
    <3>2. CASE a[1][1] # "client_disconnect"
      <4>1. SessionAlertWatch(t) \/ ShowRecords(t) \/ ShowRecord(t) \/ RecordWatch(t) \/ Respond(t)
        BY <1>4, <2>2, <3>2, HeadSteps DEF Parting, AnswerOps
      <4>2. state' = state /\ conn' = conn
        BY <4>1 DEF SessionAlertWatch, ShowRecords, ShowRecord, RecordWatch, Respond,
                    SessionSetWatch, clientVars
      <4> QED  BY <2>6, <4>2 DEF IsActive
    <3> QED  BY <3>1, <3>2
  <2> QED  BY <2>3, <2>5, <2>6 DEF Parted, gone
<1> QED  BY <1>1, <1>5, <1>6

LEMMA WaitStep ==
    ASSUME ~ExtendRecs, BadSearches \cap {"targets", "limit"} = {}, TypeInv, ClientInv, StaleInv,
           EndInv, NEW t \in Threads, Step(t), Waits(agenda[t])
    PROVE  Waits(agenda[t])'
<1>1. PICK ops \in Seq(Items(t)) : Then(t, ops) /\ PlanStep(agenda[t], ops)
  BY StepPlan DEF Waits
<1>2. Plan(agenda'[t])
  <2>1. agenda[t] \in Seq(Items(t)) /\ agenda[t] # <<>> /\ agenda'[t] = ops \o Tail(agenda[t])
    <3>1. Running(t) /\ Behind(t, agenda[t], agenda'[t], ops)
      BY <1>1, Tailed
    <3> QED  BY <3>1 DEF Behind
  <2>2. Plan(ops \o Tail(agenda[t]))
    BY <1>1, <2>1, PlanMove DEF Waits
  <2> QED  BY <2>1, <2>2
<1>3. NoActive' /\ ~Selecting(agenda'[t]) => Released(agenda[t])'
  BY <1>1, IdleReleased
<1>4. Stopping(agenda'[t]) => Released(agenda[t])'
  BY <1>1, StopReleased
<1>5. agenda'[t] # <<>> /\ agenda'[t][1][1] \in WatchNames => ~NoActive'
  BY <1>1, WatchesActive
<1>6. \A i \in 1 .. Len(agenda'[t]) : agenda'[t][i][1] = "unset_connection" =>
          \/ ~(conn'[agenda'[t][i][2]] # None /\ state'[agenda'[t][i][2]] \in Busy)
          \/ \E j \in 1 .. i - 1 : agenda'[t][j] = <<"client_disconnect", agenda'[t][i][2]>>
  BY <1>1, PartedStays
<1> QED  BY <1>2, <1>3, <1>4, <1>5, <1>6 DEF Waits, Parted, IsActive

(* No command waits for active clients that are not there.                 *)
Idle == NoActive => \A w \in Blocking : watch[w] = None

LEMMA QuietWaits ==
    ASSUME NEW t \in Threads
    PROVE  /\ agenda[t] = <<>> => (Waits(agenda[t]) <=> Idle)
           /\ agenda'[t] = <<>> => (Waits(agenda[t])' <=> Idle')
<1>1. 1 .. Len(<<>>) = {}
  OBVIOUS
<1> QED  BY <1>1 DEF Waits, Plan, Selecting, Stopping, Released, Alerted, Idle

LEMMA WaitNext ==
    ASSUME ~Threaded, ~ExtendRecs, BadSearches \cap {"targets", "limit"} = {}, TypeInv, ClientInv,
           StaleInv, EndInv, WaitInv, [Next]_vars
    PROVE  WaitInv'
<1>1. ASSUME NEW t \in Threads, Step(t) PROVE WaitInv'
  <2>1. \A u \in Threads \ {t} : agenda[u] = <<>> /\ agenda'[u] = <<>>
    BY <1>1, Sole DEF ClientInv
  <2>2. Waits(agenda[t])'
    <3>1. Waits(agenda[t])
      BY <2>1 DEF WaitInv, Running
    <3> QED  BY <1>1, <3>1, WaitStep
  <2>3. ASSUME NEW u \in Threads, \A v \in Threads \ {u} : agenda'[v] = <<>>
        PROVE  Waits(agenda[u])'
    <3>1. CASE u = t
      BY <2>2, <3>1
    <3>2. CASE u # t
      <4>1. agenda'[u] = <<>> /\ agenda'[t] = <<>>
        BY <2>1, <2>3, <3>2
      <4>2. Idle'
        BY <2>2, <4>1, QuietWaits
      <4> QED  BY <4>1, <4>2, QuietWaits
    <3> QED  BY <3>1, <3>2
  <2> QED  BY <2>3 DEF WaitInv, Running
<1>2. ASSUME NEW t \in Threads, Begins(t) PROVE WaitInv'
  <2> DEFINE P == {x \in Items(t) : x[1] \in BeginNames}
  <2>1. PICK ops \in Seq(P) : /\ Starts(t, ops)
                              /\ \A i \in 1 .. Len(ops) : ops[i][1] \in OwnNames => i = Len(ops)
    BY <1>2 DEF Begins
  <2>2. /\ ops \in Seq(Items(t)) /\ \A i \in 1 .. Len(ops) : ops[i][1] \in BeginNames
        /\ Len(ops) \in Nat
    <3>1. \A x \in P : x \in Items(t) /\ x[1] \in BeginNames
      OBVIOUS
    <3> HIDE DEF P
    <3> QED  BY <3>1
  <2>3. /\ Quiet /\ agenda'[t] = ops
        /\ \A u \in Threads : agenda[u] = <<>> /\ (u # t => agenda'[u] = <<>>)
    BY <1>2, <2>1, <2>2, BeginSole DEF Begins
  <2>4. UNCHANGED <<active, watch, state, conn>>
    BY <1>2 DEF Begins, sessionVars, clientVars
  <2>5. Idle /\ Idle'
    <3>1. Waits(agenda[t])
      BY <2>3 DEF WaitInv, Running
    <3> QED  BY <2>3, <2>4, <3>1, QuietWaits DEF Idle, NoActive, IsActive
  <2>6. Plan(ops) /\ ~Stopping(ops) /\ ~Selecting(ops)
        /\ \A i \in 1 .. Len(ops) : ops[i][1] \notin WatchNames \cup {"unset_connection"}
    <3>1. \A x : x[1] \in BeginNames => Rank(x) = 0
      BY RankValues DEF BeginNames, PhaseNames, PhaseOps, PhaseSetOps
    <3>2. \A i \in 1 .. Len(ops) :
              ops[i][1] \notin WatchNames \cup StopNames
                    \cup {"session_fetch_more", "show_again", "unset_connection", "select_targets"}
      BY <2>2 DEF BeginNames, WatchNames, StopNames
    <3> QED  BY <2>1, <2>2, <3>1, <3>2 DEF Plan, Stopping, Selecting
  <2>7. Waits(agenda[t])'
    <3>1. ops # <<>> => 1 \in 1 .. Len(ops)
      BY <2>2
    <3> QED  BY <2>3, <2>5, <2>6, <3>1 DEF Waits, Idle, Released, Alerted
  <2>8. \A u \in Threads \ {t} : Waits(agenda[u])'
    BY <2>3, <2>5, QuietWaits
  <2> QED  BY <2>7, <2>8 DEF WaitInv
<1>3. ASSUME NEW h \in Chans, ChannelDestroy(h) PROVE WaitInv'
  <2>1. \A u \in Threads : agenda[u] = <<>> /\ agenda'[u] = <<>>
    BY <1>3 DEF ChannelDestroy, MayStart, Running, Threads
  <2>2. /\ \A w \in Watches : watch[w] = None => watch'[w] = None
        /\ UNCHANGED <<active, state, conn>>
    <3>1. None \notin {h} \/ None = h
      OBVIOUS
    <3> QED  BY <1>3 DEF ChannelDestroy, clientVars
  <2>3. h \in Threads
    BY DEF Threads
  <2>4. Idle
    BY <2>1, <2>3, QuietWaits DEF WaitInv, Running
  <2>5. Idle'
    BY <2>2, <2>4 DEF Idle, NoActive, IsActive, Blocking, Watches
  <2> QED  BY <2>1, <2>5, QuietWaits DEF WaitInv
<1>4. CASE UNCHANGED vars
  BY <1>4
  DEF vars, sessionVars, clientVars, WaitInv, Running, Waits, Plan, Released, Alerted, Selecting,
      Stopping, Parted, NoActive, IsActive
<1>5. Chans \subseteq Threads /\ Conns \subseteq Threads
  BY DEF Threads
<1> QED  BY <1>1, <1>2, <1>3, <1>4, <1>5, CommandBegins, ConnBegins DEF Next

(* When all handlers are done, no show or termlist command waits if no     *)
(* target is active: whatever ends the last activity, an answer, an error, *)
(* a timeout, a stop or another search, first releases those who wait      *)
(* (client.c client_set_state, session.c session_alert_watch).             *)
THEOREM NoWaitForNothingAlways ==
    ASSUME ~Threaded, ~ExtendRecs, BadSearches \cap {"targets", "limit"} = {}
    PROVE  Spec => []NoWaitForNothing
<1>1. Init => StaleInv /\ EndInv /\ WaitInv
  <2>1. Init => StaleInv
    BY DEF Init, StaleInv, Cleared
  <2>2. Init => EndInv
    BY DEF Init, EndInv, IsActive
  <2>3. ASSUME Init PROVE WaitInv
    <3>1. Idle /\ \A t \in Threads : agenda[t] = <<>>
      BY <2>3 DEF Init, Idle, Blocking, Watches
    <3> QED  BY <3>1, QuietWaits DEF WaitInv
  <2> QED  BY <2>1, <2>2, <2>3
<1>2. TypeInv /\ ClientInv /\ StaleInv /\ [Next]_vars => StaleInv'
  BY StaleNext
<1>3. TypeInv /\ ClientInv /\ EndInv /\ [Next]_vars => EndInv'
  BY EndNext
<1>4. TypeInv /\ ClientInv /\ StaleInv /\ EndInv /\ WaitInv /\ [Next]_vars => WaitInv'
  BY WaitNext
<1>5. ASSUME TypeInv, ClientInv, WaitInv PROVE NoWaitForNothing
  <2> SUFFICES ASSUME Quiet, NoActive, NEW w \in Blocking, watch[w] # None PROVE FALSE
    BY DEF NoWaitForNothing, Blocking
  <2>1. watch[w] \in Threads
    BY <1>5 DEF TypeInv, DataInv, Threads, Blocking, Watches
  <2>2. \A t \in Threads : agenda[t] = <<>>
    BY DEF Quiet, Running
  <2>3. Idle
    BY <1>5, <2>1, <2>2, QuietWaits DEF WaitInv, Running
  <2> QED  BY <2>3 DEF Idle
<1> QED  BY ClientSafety, <1>1, <1>2, <1>3, <1>4, <1>5, PTL DEF Spec
=============================================================================
