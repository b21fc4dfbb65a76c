------------------------- MODULE Metasearch_proofs -------------------------
(***************************************************************************)
(* Proofs about a session's handlers as agendas.  What an agenda is about  *)
(* to do for somebody is a token that is there once: the right to start    *)
(* clients (starting), and the request a channel waits for the answer of.  *)
(***************************************************************************)
EXTENDS MetasearchProps, FiniteSetTheorems, TLAPS

-----------------------------------------------------------------------------
(* Items of agendas                                                        *)

(* What any handler does, ...                                              *)
LoopClientOps == {"client_lock", "client_unlock", "records_ready"}
LoopConnOps == {"non_block_events", "client_got_records"}
Loop == ({"preferred_ready"} \X {None}) \cup (LoopClientOps \X Clients)
        \cup (LoopConnOps \X Conns) \cup ({"session_alert_watch"} \X Watches)

(* ... only commands, ...                                                  *)
CommandOps == {"session_search", "session_sort", "session_stop", "stop_clients",
               "session_apply_setting"}
CommandClientOps == {"client_start_search", "search"}
CommandSetOps == {"search_clients", "sort_clients", "client_stop"}
Commanding == (CommandOps \X {None}) \cup (CommandClientOps \X Clients)
              \cup (CommandSetOps \X SUBSET Clients)

(* ... among them a search before it takes its clients, ...                *)
PhaseOps == {"reset_active", "drop_cached"}
PhaseSetOps == {"detach", "drop"}
Phasing == (PhaseOps \X {None}) \cup (PhaseSetOps \X SUBSET Clients)

(* ... and only the handler of a connection, at its end.                   *)
Closing == ({"client_disconnect"} \X Clients) \cup ({"expired"} \X Conns)
UndoConnOps == {"connection_destroy", "free"}
Undoing == ({"unset_connection"} \X Clients) \cup (UndoConnOps \X Conns)

Calm(t) ==
    Loop \cup (IF t \in Chans THEN Commanding ELSE {}) \cup (IF t \in Conns THEN Closing ELSE {})
Plain(t) ==
    Calm(t) \cup (IF t \in Chans THEN Phasing ELSE {}) \cup (IF t \in Conns THEN Undoing ELSE {})

(* What the one does who may start clients.                                *)
Start == <<"started", None>>
Starters == {<<"select_targets", None>>, Start}

(* What is done to answer the request of channel h.                        *)
AnswerOps == {"reply", "show_records", "show_record", "show_again", "record_watch"}
Answers(h) == (AnswerOps \X {h})
              \cup ({"session_fetch_more"} \X ({h} \X (SUBSET Clients) \X BOOLEAN))
Own == ({"cmd_show", "show_watch"} \X {"show", "pref"})
       \cup ({"cmd_termlist", "termlist_watch"} \X {None})
For(t, h) == Answers(h) \cup (IF t = h THEN Own ELSE {})

Items(t) == Plain(t) \cup (IF t \in Chans THEN Starters ELSE {}) \cup UNION {For(t, h) : h \in Chans}

Has(s, M) == \E i \in 1 .. Len(s) : s[i] \in M
Once(s, M) == \A i, j \in 1 .. Len(s) : s[i] \in M /\ s[j] \in M => i = j

-----------------------------------------------------------------------------
(* Sequences with and without a token                                      *)

LEMMA ThenSeq ==
    ASSUME NEW S, NEW a \in Seq(S), a # <<>>, NEW ops \in Seq(S)
    PROVE  /\ ops \o Tail(a) \in Seq(S)
           /\ Len(ops \o Tail(a)) = Len(ops) + Len(a) - 1
           /\ \A i \in 1 .. Len(ops) : (ops \o Tail(a))[i] = ops[i]
           /\ \A i \in 2 .. Len(a) : (ops \o Tail(a))[Len(ops) + i - 1] = a[i]
           /\ \A i \in Len(ops) + 1 .. Len(ops) + Len(a) - 1 :
                 (ops \o Tail(a))[i] = a[i - Len(ops) + 1]
           /\ Head(a) = a[1] /\ Len(a) \in Nat \ {0} /\ Len(ops) \in Nat
  OBVIOUS

(* The token stays, ...                                                    *)
LEMMA TokenStays ==
    ASSUME NEW S, NEW M, NEW a \in Seq(S), a # <<>>, NEW ops \in Seq(S),
           Once(a, M), Once(ops, M), Has(ops, M) <=> Head(a) \in M
    PROVE  /\ Once(ops \o Tail(a), M)
           /\ Has(ops \o Tail(a), M) <=> Has(a, M)
<1> DEFINE b == ops \o Tail(a)
<1>1. /\ Len(b) = Len(ops) + Len(a) - 1
      /\ \A i \in 1 .. Len(ops) : b[i] = ops[i]
      /\ \A i \in Len(ops) + 1 .. Len(ops) + Len(a) - 1 : b[i] = a[i - Len(ops) + 1]
      /\ Head(a) = a[1] /\ Len(a) \in Nat \ {0} /\ Len(ops) \in Nat
  BY ThenSeq
<1>0. \A i \in 2 .. Len(a) : b[Len(ops) + i - 1] = a[i]
  BY ThenSeq
<1> HIDE DEF b
<1>6. ASSUME NEW i \in 1 .. Len(b), b[i] \in M, i > Len(ops)
      PROVE  i - Len(ops) + 1 \in 1 .. Len(a) /\ a[i - Len(ops) + 1] \in M
  <2>1. i \in Len(ops) + 1 .. Len(ops) + Len(a) - 1
    BY <1>1, <1>6
  <2>2. b[i] = a[i - Len(ops) + 1]
    BY <1>1, <2>1
  <2> QED  BY <1>1, <1>6, <2>1, <2>2
<1>5. ASSUME NEW i \in 1 .. Len(b), NEW j \in 1 .. Len(b), b[i] \in M, b[j] \in M,
             i <= Len(ops), j > Len(ops)
      PROVE  FALSE
  <2>1. Has(ops, M)
    BY <1>1, <1>5 DEF Has
  <2>2. j - Len(ops) + 1 \in 2 .. Len(a) /\ a[j - Len(ops) + 1] \in M
    BY <1>1, <1>5
  <2>3. a[1] \in M
    BY <2>1, <1>1
  <2> QED  BY <2>2, <2>3, <1>1 DEF Once
<1>2. ASSUME NEW i \in 1 .. Len(b), NEW j \in 1 .. Len(b), b[i] \in M, b[j] \in M
      PROVE  i = j
  <2>1. CASE i <= Len(ops) /\ j <= Len(ops)
    BY <1>1, <1>2, <2>1 DEF Once
  <2>2. CASE i > Len(ops) /\ j > Len(ops)
    <3>1. i - Len(ops) + 1 \in 1 .. Len(a) /\ a[i - Len(ops) + 1] \in M
      BY <1>2, <1>6, <2>2
    <3>2. j - Len(ops) + 1 \in 1 .. Len(a) /\ a[j - Len(ops) + 1] \in M
      BY <1>2, <1>6, <2>2
    <3> QED  BY <3>1, <3>2, <1>1 DEF Once
  <2> QED  BY <2>1, <2>2, <1>5, <1>1, <1>2
<1>3. ASSUME Has(b, M) PROVE Has(a, M)
  <2>1. PICK i \in 1 .. Len(b) : b[i] \in M
    BY <1>3 DEF Has
  <2>2. CASE i <= Len(ops)
    BY <1>1, <2>1, <2>2 DEF Has
  <2>3. CASE i > Len(ops)
    <3>1. i - Len(ops) + 1 \in 1 .. Len(a) /\ a[i - Len(ops) + 1] \in M
      BY <1>1, <2>1, <2>3
    <3> QED  BY <3>1 DEF Has
  <2> QED  BY <2>2, <2>3, <1>1
<1>4. ASSUME Has(a, M) PROVE Has(b, M)
  <2>1. PICK i \in 1 .. Len(a) : a[i] \in M
    BY <1>4 DEF Has
  <2>2. CASE i = 1
    <3>1. PICK j \in 1 .. Len(ops) : ops[j] \in M
      BY <1>1, <2>1, <2>2 DEF Has
    <3> QED  BY <3>1, <1>1 DEF Has
  <2>3. CASE i > 1
    <3>1. Len(ops) + i - 1 \in 1 .. Len(b) /\ b[Len(ops) + i - 1] \in M
      BY <1>0, <1>1, <2>1, <2>3
    <3> QED  BY <3>1 DEF Has
  <2> QED  BY <2>1, <2>2, <2>3
<1> QED  BY <1>2, <1>3, <1>4 DEF Once, b

(* ... goes, ...                                                           *)
LEMMA TokenGoes ==
    ASSUME NEW S, NEW M, NEW a \in Seq(S), a # <<>>, NEW ops \in Seq(S),
           Once(a, M), ~Has(ops, M), Head(a) \in M
    PROVE  ~Has(ops \o Tail(a), M)
<1> DEFINE b == ops \o Tail(a)
<1>1. /\ Len(b) = Len(ops) + Len(a) - 1
      /\ \A i \in 1 .. Len(ops) : b[i] = ops[i]
      /\ \A i \in Len(ops) + 1 .. Len(ops) + Len(a) - 1 : b[i] = a[i - Len(ops) + 1]
      /\ Head(a) = a[1] /\ Len(a) \in Nat \ {0} /\ Len(ops) \in Nat
  BY ThenSeq
<1> HIDE DEF b
<1>2. ASSUME NEW i \in 1 .. Len(b), b[i] \in M PROVE FALSE
  <2>1. i > Len(ops)
    BY <1>1, <1>2 DEF Has
  <2>2. i \in Len(ops) + 1 .. Len(ops) + Len(a) - 1 /\ i - Len(ops) + 1 \in 2 .. Len(a)
    BY <1>1, <2>1
  <2>3. a[i - Len(ops) + 1] \in M
    BY <1>1, <1>2, <2>2
  <2> QED  BY <2>2, <2>3, <1>1 DEF Once
<1> QED  BY <1>2 DEF Has, b

(* ... or comes.                                                           *)
LEMMA TokenComes ==
    ASSUME NEW S, NEW M, NEW a \in Seq(S), a # <<>>, NEW ops \in Seq(S),
           ~Has(a, M), Once(ops, M), Has(ops, M)
    PROVE  Once(ops \o Tail(a), M) /\ Has(ops \o Tail(a), M)
<1> DEFINE b == ops \o Tail(a)
<1>1. /\ Len(b) = Len(ops) + Len(a) - 1
      /\ \A i \in 1 .. Len(ops) : b[i] = ops[i]
      /\ \A i \in Len(ops) + 1 .. Len(ops) + Len(a) - 1 : b[i] = a[i - Len(ops) + 1]
      /\ Head(a) = a[1] /\ Len(a) \in Nat \ {0} /\ Len(ops) \in Nat
  BY ThenSeq
<1> HIDE DEF b
<1>2. ASSUME NEW i \in 1 .. Len(b), b[i] \in M PROVE i \in 1 .. Len(ops) /\ ops[i] \in M
  <2>1. ASSUME i > Len(ops) PROVE FALSE
    <3>1. i - Len(ops) + 1 \in 1 .. Len(a) /\ a[i - Len(ops) + 1] \in M
      BY <1>1, <1>2, <2>1
    <3> QED  BY <3>1 DEF Has
  <2> QED  BY <2>1, <1>1, <1>2
<1>3. Once(b, M)
  BY <1>2 DEF Once
<1>4. PICK j \in 1 .. Len(ops) : ops[j] \in M
  BY DEF Has
<1>5. j \in 1 .. Len(b) /\ b[j] \in M
  BY <1>1, <1>4
<1> QED  BY <1>3, <1>5 DEF Has, b

(* A token at the end of what is left to do.                               *)
LEMMA TokenLast ==
    ASSUME NEW S, NEW M, NEW ops \in Seq(S), ~Has(ops, M), NEW x \in S, x \in M
    PROVE  ops \o <<x>> \in Seq(S) /\ Once(ops \o <<x>>, M) /\ Has(ops \o <<x>>, M)
<1> DEFINE b == ops \o <<x>>
<1>1. /\ Len(b) = Len(ops) + 1 /\ b[Len(ops) + 1] = x /\ Len(ops) \in Nat
      /\ \A i \in 1 .. Len(ops) : b[i] = ops[i]
      /\ b \in Seq(S)
  OBVIOUS
<1> HIDE DEF b
<1>2. \A i \in 1 .. Len(b) : b[i] \in M => i = Len(ops) + 1
  BY <1>1 DEF Has
<1> QED  BY <1>1, <1>2 DEF Once, Has, b

LEMMA NoToken ==
    ASSUME NEW S, NEW M, NEW ops \in Seq(S), S \cap M = {}
    PROVE  ~Has(ops, M) /\ Once(ops, M)
  BY DEF Has, Once

-----------------------------------------------------------------------------
(* Types                                                                   *)

DataInv ==
    /\ active \subseteq Clients /\ cached \subseteq Clients /\ starting \in BOOLEAN
    /\ conn \in [Clients -> Conns \cup {None}] /\ sess \in [Clients -> BOOLEAN]
    /\ owner \in [Conns -> Clients \cup {None}] /\ alive \subseteq Conns
    /\ watch \in [Watches -> Chans \cup {None}] /\ due \subseteq Chans

AgendaInv ==
    /\ DOMAIN agenda = Threads
    /\ \A t \in Threads : agenda[t] \in Seq(Items(t))

TypeInv == DataInv /\ AgendaInv

(* The names tell the kinds of items apart.                                *)
LoopNames == {"preferred_ready", "session_alert_watch"} \cup LoopClientOps \cup LoopConnOps
CommandNames == CommandOps \cup CommandClientOps \cup CommandSetOps
PhaseNames == PhaseOps \cup PhaseSetOps
CloseNames == {"client_disconnect", "expired"}
UndoNames == {"unset_connection"} \cup UndoConnOps
StartNames == {"select_targets", "started"}
AnswerNames == AnswerOps \cup {"session_fetch_more"}
OwnNames == {"cmd_show", "show_watch", "cmd_termlist", "termlist_watch"}

LEMMA NamesApart ==
    /\ LoopNames \cap (CommandNames \cup PhaseNames \cup CloseNames \cup UndoNames
                        \cup StartNames \cup AnswerNames \cup OwnNames) = {}
    /\ CommandNames \cap (PhaseNames \cup CloseNames \cup UndoNames
                        \cup StartNames \cup AnswerNames \cup OwnNames) = {}
    /\ PhaseNames \cap (CloseNames \cup UndoNames \cup StartNames \cup AnswerNames \cup OwnNames) = {}
    /\ CloseNames \cap (UndoNames \cup StartNames \cup AnswerNames \cup OwnNames) = {}
    /\ UndoNames \cap (StartNames \cup AnswerNames \cup OwnNames) = {}
    /\ StartNames \cap (AnswerNames \cup OwnNames) = {}
    /\ AnswerNames \cap OwnNames = {}
  BY DEF LoopNames, CommandNames, PhaseNames, CloseNames, UndoNames, StartNames, AnswerNames,
         OwnNames, LoopClientOps, LoopConnOps, CommandOps, CommandClientOps, CommandSetOps,
         PhaseOps, PhaseSetOps, UndoConnOps, AnswerOps

LEMMA KindNames ==
    /\ \A x \in Loop : x[1] \in LoopNames
    /\ \A x \in Commanding : x[1] \in CommandNames
    /\ \A x \in Phasing : x[1] \in PhaseNames
    /\ \A x \in Closing : x[1] \in CloseNames
    /\ \A x \in Undoing : x[1] \in UndoNames
    /\ \A x \in Starters : x[1] \in StartNames
    /\ \A h : \A x \in Answers(h) : x[1] \in AnswerNames
    /\ \A x \in Own : x[1] \in OwnNames
<1>1. \A x \in Loop : x[1] \in LoopNames
  BY DEF Loop, LoopNames
<1>2. \A x \in Commanding : x[1] \in CommandNames
  BY DEF Commanding, CommandNames
<1>3. \A x \in Phasing : x[1] \in PhaseNames
  BY DEF Phasing, PhaseNames
<1>4. \A x \in Closing : x[1] \in CloseNames
  BY DEF Closing, CloseNames
<1>5. \A x \in Undoing : x[1] \in UndoNames
  BY DEF Undoing, UndoNames
<1>6. \A x \in Starters : x[1] \in StartNames
  BY DEF Starters, Start, StartNames
<1>7. \A h : \A x \in Answers(h) : x[1] \in AnswerNames
  BY DEF Answers, AnswerNames
<1>8. \A x \in Own : x[1] \in OwnNames
  BY DEF Own, OwnNames
<1> QED  BY <1>1, <1>2, <1>3, <1>4, <1>5, <1>6, <1>7, <1>8

(* What an item is and is about, by its name.                              *)
LEMMA ItemKinds ==
    ASSUME NEW t, NEW item \in Items(t)
    PROVE  /\ item = <<item[1], item[2]>>
           /\ item[1] \in LoopNames => item \in Loop
           /\ item[1] \in CommandNames => item \in Commanding /\ t \in Chans
           /\ item[1] \in PhaseNames => item \in Phasing /\ t \in Chans
           /\ item[1] \in CloseNames => item \in Closing /\ t \in Conns
           /\ item[1] \in UndoNames => item \in Undoing /\ t \in Conns
           /\ item[1] \in StartNames => item \in Starters /\ t \in Chans
           /\ item[1] \in AnswerNames => \E h \in Chans : item \in Answers(h)
           /\ item[1] \in OwnNames => item \in Own /\ t \in Chans
<1>1. \/ item \in Loop \/ (item \in Commanding /\ t \in Chans) \/ (item \in Phasing /\ t \in Chans)
      \/ (item \in Closing /\ t \in Conns) \/ (item \in Undoing /\ t \in Conns)
      \/ (item \in Starters /\ t \in Chans) \/ (\E h \in Chans : item \in Answers(h))
      \/ (item \in Own /\ t \in Chans)
  BY DEF Items, Plain, Calm, For
<1>2. item = <<item[1], item[2]>>
  BY <1>1 DEF Loop, Commanding, Phasing, Closing, Undoing, Starters, Start, Answers, Own
<1> QED  BY <1>1, <1>2, KindNames, NamesApart

LEMMA ItemArgs ==
    ASSUME NEW t, NEW item \in Items(t)
    PROVE  /\ item[1] \in LoopClientOps \cup CommandClientOps
                           \cup {"client_disconnect", "unset_connection"} => item[2] \in Clients
           /\ item[1] \in LoopConnOps \cup UndoConnOps \cup {"expired"} => item[2] \in Conns
           /\ item[1] \in CommandSetOps \cup PhaseSetOps => item[2] \in SUBSET Clients
           /\ item[1] = "session_alert_watch" => item[2] \in Watches
           /\ item[1] \in AnswerOps => item[2] \in Chans /\ item \in Answers(item[2])
           /\ item[1] = "session_fetch_more" =>
                 /\ item[2] \in Chans \X (SUBSET Clients) \X BOOLEAN
                 /\ item \in Answers(item[2][1])
           /\ item[1] \in {"cmd_show", "show_watch"} => item[2] \in {"show", "pref"}
<1>1. item[1] \in LoopNames => item \in Loop
  BY ItemKinds
<1>2. item[1] \in CommandNames => item \in Commanding
  BY ItemKinds
<1>3. item[1] \in PhaseNames => item \in Phasing
  BY ItemKinds
<1>4. item[1] \in CloseNames => item \in Closing
  BY ItemKinds
<1>5. item[1] \in UndoNames => item \in Undoing
  BY ItemKinds
<1>6. item[1] \in AnswerNames => \E h \in Chans : item \in Answers(h)
  BY ItemKinds
<1>7. item[1] \in OwnNames => item \in Own
  BY ItemKinds
<1>8. /\ item[1] \in LoopClientOps => item[2] \in Clients
      /\ item[1] \in LoopConnOps => item[2] \in Conns
      /\ item[1] = "session_alert_watch" => item[2] \in Watches
  BY <1>1 DEF Loop, LoopNames, LoopClientOps, LoopConnOps
<1>9. /\ item[1] \in CommandClientOps => item[2] \in Clients
      /\ item[1] \in CommandSetOps => item[2] \in SUBSET Clients
  BY <1>2 DEF Commanding, CommandNames, CommandOps, CommandClientOps, CommandSetOps
<1>10. item[1] \in PhaseSetOps => item[2] \in SUBSET Clients
  BY <1>3 DEF Phasing, PhaseNames, PhaseOps, PhaseSetOps
<1>11. /\ item[1] = "client_disconnect" => item[2] \in Clients
       /\ item[1] = "expired" => item[2] \in Conns
  BY <1>4 DEF Closing, CloseNames
<1>12. /\ item[1] = "unset_connection" => item[2] \in Clients
       /\ item[1] \in UndoConnOps => item[2] \in Conns
  BY <1>5 DEF Undoing, UndoNames, UndoConnOps
<1>13. /\ item[1] \in AnswerOps => item[2] \in Chans /\ item \in Answers(item[2])
       /\ item[1] = "session_fetch_more" =>
             item[2] \in Chans \X (SUBSET Clients) \X BOOLEAN /\ item \in Answers(item[2][1])
  BY <1>6 DEF Answers, AnswerNames, AnswerOps
<1>14. item[1] \in {"cmd_show", "show_watch"} => item[2] \in {"show", "pref"}
  BY <1>7 DEF Own, OwnNames
<1> QED  BY <1>8, <1>9, <1>10, <1>11, <1>12, <1>13, <1>14

LEMMA HeadKinds ==
    ASSUME TypeInv, NEW t \in Threads, Running(t)
    PROVE  /\ agenda[t] \in Seq(Items(t)) /\ agenda[t] # <<>>
           /\ Head(agenda[t]) \in Items(t)
           /\ Head(agenda[t]) = <<Head(agenda[t])[1], Arg(t)>>
<1>1. agenda[t] \in Seq(Items(t)) /\ agenda[t] # <<>>
  BY DEF TypeInv, AgendaInv, Running
<1>2. Head(agenda[t]) \in Items(t)
  BY <1>1
<1> QED  BY <1>1, <1>2, ItemKinds DEF Arg

(* No two kinds of items have one in common.                               *)
LEMMA Apart ==
    ASSUME NEW t, NEW h
    PROVE  /\ Plain(t) \cap Starters = {} /\ Plain(t) \cap For(t, h) = {}
           /\ Starters \cap For(t, h) = {}
           /\ \A g : g # h => For(t, h) \cap For(t, g) = {}
<1>1. \A x \in Plain(t) : x[1] \in LoopNames \cup CommandNames \cup PhaseNames \cup CloseNames
                                    \cup UndoNames
  BY KindNames DEF Plain, Calm
<1>2. \A x \in For(t, h) : x[1] \in AnswerNames \cup OwnNames
  BY KindNames DEF For
<1>3. \A g : \A x \in Answers(g) : (x[1] \in AnswerOps => x[2] = g)
                                /\ (x[1] = "session_fetch_more" => x[2][1] = g)
  BY DEF Answers, AnswerOps
<1>4. ASSUME NEW g, g # h PROVE Answers(h) \cap Answers(g) = {}
  BY <1>3, <1>4, KindNames DEF AnswerNames
<1>5. Answers(h) \cap Own = {} /\ \A g : Answers(g) \cap Own = {}
  BY KindNames, NamesApart
<1>6. \A g : g # h => For(t, h) \cap For(t, g) = {}
  BY <1>4, <1>5 DEF For
<1> QED  BY <1>1, <1>2, <1>6, KindNames, NamesApart

-----------------------------------------------------------------------------
(* What a step may be, as far as tokens go.  P is what else the step may   *)
(* leave to do, N the tokens of who may start clients.                     *)

PlainThen(t, P) == \E ops \in Seq(P) : Then(t, ops)
TokenThen(t, P, M) == \E ops \in Seq(P) : \E x \in M : Then(t, ops \o <<x>>)

Ordinary(t, P) ==
    /\ Running(t) /\ Head(agenda[t]) \in P /\ PlainThen(t, P)
    /\ UNCHANGED <<starting, watch, due>>

Beginning(t, P, N) ==
    /\ t \in Chans /\ Running(t) /\ Head(agenda[t]) \in P /\ TokenThen(t, P, N)
    /\ ~starting /\ starting' = TRUE
    /\ UNCHANGED <<watch, due>>

GoingOn(t, P) ==
    /\ t \in Chans /\ Running(t) /\ Head(agenda[t]) \in Starters /\ TokenThen(t, P, {Start})
    /\ UNCHANGED <<starting, watch, due>>

Ending(t, P) ==
    /\ Running(t) /\ Head(agenda[t]) \in Starters /\ PlainThen(t, P)
    /\ starting' = FALSE
    /\ UNCHANGED <<watch, due>>

Passing(t, P) ==
    \E h \in Chans :
        /\ Running(t) /\ Head(agenda[t]) \in For(t, h) /\ TokenThen(t, P, For(t, h))
        /\ UNCHANGED <<starting, watch, due>>

Waiting(t, P) ==
    \E h \in Chans, w \in Watches :
        /\ Running(t) /\ Head(agenda[t]) \in For(t, h) /\ PlainThen(t, P)
        /\ watch[w] = None /\ watch' = [watch EXCEPT ![w] = h]
        /\ UNCHANGED <<starting, due>>

Alerting(t, P) ==
    \E w \in Watches :
        /\ Running(t) /\ Head(agenda[t]) \in P
        /\ IF watch[w] = None THEN PlainThen(t, P) ELSE TokenThen(t, P, Answers(watch[w]))
        /\ watch' = [watch EXCEPT ![w] = None]
        /\ UNCHANGED <<starting, due>>

Responding(t, P) ==
    \E h \in Chans :
        /\ Running(t) /\ Head(agenda[t]) \in For(t, h) /\ PlainThen(t, P)
        /\ due' = due \ {h}
        /\ UNCHANGED <<starting, watch>>

Shape(t, P, N) ==
    \/ Ordinary(t, P) \/ Beginning(t, P, N) \/ GoingOn(t, P) \/ Ending(t, P)
    \/ Passing(t, P) \/ Waiting(t, P) \/ Alerting(t, P) \/ Responding(t, P)

(* The steps of a search before it takes its clients, and of a connection  *)
(* that is destroyed.                                                      *)
Clears(t) ==
    \/ SessionSearch(t) \/ ResetActive(t) \/ Detach(t) \/ DropCached(t) \/ Drop(t)
    \/ SelectTargets(t)
Undoes(t) == ConnectionDestroy(t) \/ UnsetConnection(t) \/ FreeConnection(t)

PlainStart(k) ==
    /\ MayStart(k)
    /\ \E ops \in Seq(Plain(k)) : Starts(k, ops)
    /\ UNCHANGED <<starting, watch, due>>

Requesting(h, P) ==
    /\ MayStart(h) /\ h \notin due /\ due' = due \cup {h}
    /\ \E ops \in Seq(P), x \in For(h, h) : Starts(h, ops \o <<x>>)
    /\ UNCHANGED <<starting, watch>>

LEMMA WiderShape ==
    ASSUME NEW t, NEW P, NEW Q, P \subseteq Q, NEW M, NEW N, M \subseteq N, Shape(t, P, M)
    PROVE  Shape(t, Q, N)
<1>1. \A ops \in Seq(P) : ops \in Seq(Q)
  OBVIOUS
<1>2. PlainThen(t, P) => PlainThen(t, Q)
  BY <1>1 DEF PlainThen
<1>3. \A R, S : R \subseteq S /\ TokenThen(t, P, R) => TokenThen(t, Q, S)
  BY <1>1 DEF TokenThen
<1>4. Waiting(t, P) => Waiting(t, Q)
  BY <1>2 DEF Waiting
<1>5. Alerting(t, P) => Alerting(t, Q)
  BY <1>2, <1>3 DEF Alerting
<1>6. Passing(t, P) => Passing(t, Q)
  BY <1>3 DEF Passing
<1>7. Responding(t, P) => Responding(t, Q)
  BY <1>2 DEF Responding
<1>8. Beginning(t, P, M) => Beginning(t, Q, N)
  BY <1>3 DEF Beginning
<1> QED
  BY <1>2, <1>3, <1>4, <1>5, <1>6, <1>7, <1>8 DEF Shape, Ordinary, GoingOn, Ending

LEMMA CalmInPlain ==
    ASSUME NEW t, Shape(t, Calm(t), {Start})
    PROVE  Shape(t, Plain(t), Starters)
  BY WiderShape DEF Plain, Starters

LEMMA CalmHas ==
    ASSUME NEW t
    PROVE  /\ Loop \subseteq Calm(t) /\ Calm(t) \subseteq Plain(t)
           /\ t \in Chans => Commanding \subseteq Calm(t) /\ Phasing \subseteq Plain(t)
           /\ t \in Conns => Closing \subseteq Calm(t) /\ Undoing \subseteq Plain(t)
           /\ AlertAll \in Seq(Calm(t))
<1>1. AlertAll \in Seq(Loop)
  BY DEF AlertAll, Alert, Loop, Watches
<1>2. Loop \subseteq Calm(t)
  BY DEF Calm
<1> QED  BY <1>1, <1>2 DEF Calm, Plain

LEMMA Short ==
    ASSUME NEW P
    PROVE  /\ <<>> \in Seq(P)
           /\ \A x \in P : <<x>> \in Seq(P)
           /\ \A x, y \in P : <<x, y>> \in Seq(P)
           /\ \A x, y, z \in P : <<x, y, z>> \in Seq(P)
           /\ \A v, w, x, y, z \in P : <<v, w, x, y, z>> \in Seq(P)
  OBVIOUS

LEMMA SetStatePlain ==
    ASSUME NEW t, NEW c, NEW st, NEW after \in Seq(Calm(t)), SetState(t, c, st, after)
    PROVE  PlainThen(t, Calm(t))
<1> DEFINE ops == (IF Releases(c, st) THEN AlertAll ELSE <<>>) \o after
<1>1. ops \in Seq(Calm(t))
  BY CalmHas
<1> QED  BY <1>1 DEF SetState, PlainThen

LEMMA ClientOrdinary ==
    ASSUME TypeInv, NEW t \in Threads, ClientStep(t)
    PROVE  /\ ~Undoes(t) => Ordinary(t, Calm(t))
           /\ Ordinary(t, Plain(t))
<1> DEFINE hd == Head(agenda[t])
           P == Calm(t)
<1>1. Running(t)
  BY DEF ClientStep, ClientLock, ClientUnlock, ReuseConnection, CreateConnection, ConnectFails,
         StartSearch, NoMoreEvents, IgnoredEvent, SendApdu, RecvError, RecvRecord, End, GotRecords,
         PreferredCheck, RecordsCheck, Expired, ConnectionDestroy, ClientDisconnect,
         UnsetConnection, FreeConnection, Does, Event
<1>2. agenda[t] # <<>> /\ hd \in Items(t) /\ hd = <<hd[1], Arg(t)>>
  BY <1>1, HeadKinds
<1>3. /\ Loop \subseteq P /\ P \subseteq Plain(t)
      /\ t \in Chans => Commanding \subseteq P
      /\ t \in Conns => Closing \subseteq P /\ Undoing \subseteq Plain(t)
  BY CalmHas
<1>4. /\ hd[1] \in LoopNames => hd \in P
      /\ hd[1] \in CommandNames => hd \in P /\ t \in Chans
      /\ hd[1] \in CloseNames => hd \in P /\ t \in Conns
      /\ hd[1] \in UndoNames => hd \in Plain(t) /\ t \in Conns
  BY <1>2, <1>3, ItemKinds
<1>5. /\ hd[1] \in LoopClientOps \cup CommandClientOps \cup {"client_disconnect", "unset_connection"}
            => Arg(t) \in Clients
      /\ hd[1] \in LoopConnOps \cup UndoConnOps \cup {"expired"} => Arg(t) \in Conns
  BY <1>2, ItemArgs DEF Arg
<1>6. <<>> \in Seq(P) /\ <<>> \in Seq(Plain(t))
  OBVIOUS
<1>7. \A c \in Clients : Lock(c) \in P /\ Unlock(c) \in P /\ <<"records_ready", c>> \in P
  BY <1>3 DEF Lock, Unlock, Loop, LoopClientOps
<1>8. \A k \in Conns : <<"non_block_events", k>> \in P /\ <<"client_got_records", k>> \in P
  BY <1>3 DEF Loop, LoopConnOps
<1>9. <<"preferred_ready", None>> \in P /\ \A w \in Watches : Alert(w) \in P
  BY <1>3 DEF Alert, Loop
<1>10. \A k \in Conns : Again(k) \in Seq(P)
  BY <1>8, Short DEF Again
<1>11. t \in Chans => \A c \in Clients : <<"search", c>> \in P
  BY <1>3 DEF Commanding, CommandClientOps
<1>12. ASSUME UNCHANGED <<sessionVars, due>> PROVE UNCHANGED <<starting, watch, due>>
  BY <1>12 DEF sessionVars
<1> HIDE DEF P
<1>13. ASSUME NEW c \in Clients, NEW k \in Conns, NEW after \in Seq(P),
             ConnectionContinue(t, c, k, after)
       PROVE  PlainThen(t, P)
  <2>1. LockedEvents(c, k) \in Seq(P)
    BY <1>7, <1>8, Short DEF LockedEvents
  <2>2. LockedEvents(c, k) \o after \in Seq(P)
    BY <2>1
  <2> QED  BY <1>13, <2>2 DEF ConnectionContinue, PlainThen
<1>14. \A c, st : \A after \in Seq(P) : SetState(t, c, st, after) => PlainThen(t, P)
  BY SetStatePlain DEF P
<1>15. Done(t) => PlainThen(t, P) /\ PlainThen(t, Plain(t))
  BY <1>6 DEF Done, PlainThen
<1>16. hd \in P /\ PlainThen(t, P) /\ UNCHANGED <<starting, watch, due>>
          => Ordinary(t, P) /\ Ordinary(t, Plain(t))
  <2>1. \A ops \in Seq(P) : ops \in Seq(Plain(t))
    BY <1>3
  <2> QED  BY <1>1, <1>3, <2>1 DEF Ordinary, PlainThen
<1>17. SUFFICES \/ Ordinary(t, P) /\ Ordinary(t, Plain(t))
                \/ Undoes(t) /\ Ordinary(t, Plain(t))
  BY DEF P
<1> USE DEF LoopNames, CommandNames, CloseNames, UndoNames, LoopClientOps, CommandClientOps,
            LoopConnOps, UndoConnOps
<1>21. CASE ClientLock(t)
  BY <1>4, <1>12, <1>15, <1>16, <1>21 DEF ClientLock, Does
<1>22. CASE ClientUnlock(t)
  BY <1>4, <1>12, <1>15, <1>16, <1>22 DEF ClientUnlock, Does
<1>23. CASE ReuseConnection(t)
  <2>1. hd \in P /\ t \in Chans /\ Arg(t) \in Clients
    BY <1>4, <1>5, <1>23 DEF ReuseConnection, Does
  <2>2. << <<"search", Arg(t)>> >> \in Seq(P)
    BY <1>11, <2>1
  <2>3. PlainThen(t, P)
    BY <1>15, <1>23, <2>2 DEF ReuseConnection, PlainThen
  <2> QED  BY <1>16, <1>23, <2>1, <2>3 DEF ReuseConnection
<1>24. CASE CreateConnection(t)
  <2>1. hd \in P /\ t \in Chans /\ Arg(t) \in Clients
    BY <1>4, <1>5, <1>24 DEF CreateConnection, Does
  <2>2. << <<"search", Arg(t)>> >> \in Seq(P)
    BY <1>11, <2>1
  <2>3. PlainThen(t, P)
    BY <1>24, <2>2 DEF CreateConnection, PlainThen
  <2> QED  BY <1>12, <1>16, <1>24, <2>1, <2>3 DEF CreateConnection
<1>25. CASE ConnectFails(t)
  BY <1>4, <1>12, <1>15, <1>16, <1>25 DEF ConnectFails, Does
<1>26. CASE StartSearch(t)
  <2>1. hd \in P /\ Arg(t) \in Clients
    BY <1>4, <1>5, <1>26 DEF StartSearch, Does
  <2>2. conn[Arg(t)] \in Conns
    BY <2>1, <1>26 DEF StartSearch, TypeInv, DataInv
  <2>3. PlainThen(t, P)
    BY <1>6, <1>13, <1>26, <2>1, <2>2 DEF StartSearch
  <2> QED  BY <1>12, <1>16, <1>26, <2>1, <2>3 DEF StartSearch
<1>27. Does(t, "non_block_events") => hd \in P /\ Arg(t) \in Conns
  BY <1>4, <1>5 DEF Does
<1>28. CASE NoMoreEvents(t)
  BY <1>12, <1>15, <1>16, <1>27, <1>28 DEF NoMoreEvents
<1>29. CASE IgnoredEvent(t)
  <2>1. PlainThen(t, P)
    BY <1>10, <1>27, <1>29 DEF IgnoredEvent, PlainThen
  <2> QED  BY <1>12, <1>16, <1>27, <1>29, <2>1 DEF IgnoredEvent
<1>30. CASE SendApdu(t)
  BY <1>10, <1>12, <1>14, <1>16, <1>27, <1>30 DEF SendApdu, Event
<1>31. CASE RecvError(t)
  BY <1>10, <1>12, <1>14, <1>16, <1>27, <1>31 DEF RecvError, Event
<1>32. CASE RecvRecord(t)
  <2>1. hd \in P /\ Arg(t) \in Conns
    BY <1>27, <1>32 DEF RecvRecord, Event
  <2>2. << <<"client_got_records", Arg(t)>> >> \in Seq(P)
    BY <1>8, <2>1, Short
  <2> DEFINE ops == Again(Arg(t)) \o (IF GotAlready(t) THEN <<>>
                                      ELSE << <<"client_got_records", Arg(t)>> >>)
  <2>3. ops \in Seq(P)
    BY <1>10, <2>1, <2>2
  <2>4. PlainThen(t, P)
    BY <1>32, <2>3 DEF RecvRecord, PlainThen
  <2> QED  BY <1>16, <1>32, <2>1, <2>4 DEF RecvRecord
<1>33. CASE End(t)
  BY <1>10, <1>12, <1>14, <1>16, <1>27, <1>33 DEF End, Event
<1>34. CASE GotRecords(t)
  <2>1. hd \in P /\ Arg(t) \in Conns
    BY <1>4, <1>5, <1>34 DEF GotRecords, Does
  <2> DEFINE c == owner[Arg(t)]
             ops == << Unlock(c), <<"preferred_ready", None>>, Lock(c), <<"records_ready", c>> >>
  <2>2. c # None => c \in Clients
    BY <2>1 DEF TypeInv, DataInv
  <2>3. c # None => ops \in Seq(P)
    BY <1>7, <1>9, <2>2
  <2>4. PlainThen(t, P)
    BY <1>15, <1>34, <2>3 DEF GotRecords, PlainThen
  <2> QED  BY <1>12, <1>16, <1>34, <2>1, <2>4 DEF GotRecords
<1>35. CASE PreferredCheck(t)
  <2>1. <<Alert("pref")>> \in Seq(P)
    BY <1>9 DEF Watches
  <2>2. PlainThen(t, P)
    BY <1>6, <1>35, <2>1 DEF PreferredCheck, PlainThen
  <2> QED  BY <1>4, <1>12, <1>16, <1>35, <2>2 DEF PreferredCheck, Does
<1>36. CASE RecordsCheck(t)
  <2>1. hd \in P /\ Arg(t) \in Clients
    BY <1>4, <1>5, <1>36 DEF RecordsCheck, Does
  <2>2. << Unlock(Arg(t)), Alert("show"), Alert("termlist"), Alert("record"), Lock(Arg(t)) >>
            \in Seq(P)
    <3>1. Alert("show") \in P /\ Alert("termlist") \in P /\ Alert("record") \in P
      BY <1>9 DEF Watches
    <3> QED  BY <1>7, <2>1, <3>1, Short
  <2>3. PlainThen(t, P)
    BY <1>6, <1>36, <2>2 DEF RecordsCheck, PlainThen
  <2> QED  BY <1>12, <1>16, <1>36, <2>1, <2>3 DEF RecordsCheck
<1>37. CASE Expired(t)
  <2>1. PlainThen(t, P)
    BY <1>6, <1>14, <1>15, <1>37 DEF Expired
  <2> QED  BY <1>4, <1>12, <1>16, <1>37, <2>1 DEF Expired, Does
<1>38. CASE ConnectionDestroy(t)
  <2>1. hd \in Plain(t) /\ t \in Conns /\ Arg(t) \in Conns
    BY <1>4, <1>5, <1>38 DEF ConnectionDestroy, Does
  <2> DEFINE c == owner[Arg(t)]
             first == IF c = None THEN <<>>
                      ELSE << <<"client_disconnect", c>>, <<"unset_connection", c>> >>
  <2>2. c # None => c \in Clients
    BY <2>1 DEF TypeInv, DataInv
  <2>3. first \in Seq(Plain(t)) /\ << <<"free", Arg(t)>> >> \in Seq(Plain(t))
    <3>1. c # None => <<"client_disconnect", c>> \in Plain(t) /\ <<"unset_connection", c>> \in Plain(t)
      BY <1>3, <2>1, <2>2 DEF Closing, Undoing
    <3>2. <<"free", Arg(t)>> \in Plain(t)
      BY <1>3, <2>1 DEF Undoing
    <3> QED  BY <1>6, <3>1, <3>2
  <2>4. first \o << <<"free", Arg(t)>> >> \in Seq(Plain(t))
    BY <2>3
  <2>5. PlainThen(t, Plain(t))
    BY <1>38, <2>4 DEF ConnectionDestroy, PlainThen
  <2> QED  BY <1>1, <1>3, <1>12, <1>38, <2>1, <2>5 DEF ConnectionDestroy, Ordinary, Undoes
<1>39. CASE ClientDisconnect(t)
  <2>1. PlainThen(t, P)
    BY <1>6, <1>14, <1>15, <1>39 DEF ClientDisconnect
  <2> QED  BY <1>4, <1>12, <1>16, <1>39, <2>1 DEF ClientDisconnect, Does
<1>40. CASE UnsetConnection(t)
  BY <1>1, <1>4, <1>12, <1>15, <1>40 DEF UnsetConnection, Does, Ordinary, Undoes
<1>41. CASE FreeConnection(t)
  BY <1>1, <1>4, <1>12, <1>15, <1>41 DEF FreeConnection, Does, Ordinary, Undoes
<1> QED
  BY <1>21, <1>22, <1>23, <1>24, <1>25, <1>26, <1>28, <1>29, <1>30, <1>31, <1>32, <1>33, <1>34,
     <1>35, <1>36, <1>37, <1>38, <1>39, <1>40, <1>41 DEF ClientStep

LEMMA WatchShape ==
    ASSUME NEW t, Running(t), NEW P, NEW N, NEW w \in Watches, NEW h \in Chans,
           Head(agenda[t]) \in For(t, h), NEW x \in For(t, h), SessionSetWatch(t, w, h, <<x>>)
    PROVE  Shape(t, P, N)
<1>1. <<>> \in Seq(P) /\ <<x>> = <<>> \o <<x>>
  OBVIOUS
<1>2. CASE watch[w] = None
  BY <1>1, <1>2 DEF SessionSetWatch, Shape, Waiting, Done, PlainThen
<1>3. CASE watch[w] # None
  BY <1>1, <1>3 DEF SessionSetWatch, Shape, Passing, TokenThen, connVars
<1> QED  BY <1>2, <1>3

LEMMA ReplyFor ==
    ASSUME NEW t, NEW h
    PROVE  \A op \in AnswerOps \cup {"reply"} : <<op, h>> \in For(t, h)
  BY DEF For, Answers, AnswerOps

LEMMA SessionShapes ==
    ASSUME TypeInv, NEW t \in Threads, SessionStep(t)
    PROVE  /\ ~Clears(t) => Shape(t, Calm(t), {Start})
           /\ Shape(t, Plain(t), Starters)
<1> DEFINE hd == Head(agenda[t])
           P == Calm(t)
           Q == Plain(t)
<1>1. Running(t)
  BY DEF SessionStep, SessionSearch, ResetActive, Detach, DropCached, Drop, SelectTargets,
         SearchClients, Started, SessionSort, SortClients, SessionStop, StopClients, ClientStop,
         SessionAlertWatch, ShowRecords, FetchMore, FetchedMore, ShowAgain, ShowRecord,
         RecordWatch, Does
<1>2. agenda[t] # <<>> /\ hd \in Items(t) /\ hd = <<hd[1], Arg(t)>>
  BY <1>1, HeadKinds
<1>3. /\ Loop \subseteq P /\ P \subseteq Q
      /\ t \in Chans => Commanding \subseteq P /\ Phasing \subseteq Q
  BY CalmHas
<1>4. /\ hd[1] \in LoopNames => hd \in P
      /\ hd[1] \in CommandNames => hd \in P /\ t \in Chans
      /\ hd[1] \in PhaseNames => hd \in Q /\ t \in Chans
      /\ hd[1] \in StartNames => hd \in Starters /\ t \in Chans
  BY <1>2, <1>3, ItemKinds
<1>5. /\ hd[1] \in CommandSetOps \cup PhaseSetOps => Arg(t) \in SUBSET Clients
      /\ hd[1] = "session_alert_watch" => Arg(t) \in Watches
      /\ hd[1] \in AnswerOps => Arg(t) \in Chans /\ hd \in For(t, Arg(t))
      /\ hd[1] = "session_fetch_more" =>
            Arg(t) \in Chans \X (SUBSET Clients) \X BOOLEAN /\ hd \in For(t, Arg(t)[1])
  BY <1>2, ItemArgs DEF Arg, For
<1>6. AlertAll \in Seq(P) /\ AlertAll \in Seq(Q) /\ <<>> \in Seq(P) /\ <<>> \in Seq(Q)
  BY <1>3, CalmHas
<1>7. t \in Chans =>
        /\ \A S \in SUBSET Clients : \A op \in CommandSetOps : <<op, S>> \in P
        /\ \A S \in SUBSET Clients : \A op \in PhaseSetOps : <<op, S>> \in Q
        /\ \A op \in CommandOps : <<op, None>> \in P
        /\ \A op \in PhaseOps : <<op, None>> \in Q
        /\ \A c \in Clients : \A op \in CommandClientOps : <<op, c>> \in P
  BY <1>3 DEF Commanding, Phasing
<1>8. \A c \in Clients, k \in Conns : LockedEvents(c, k) \in Seq(P)
  <2>1. \A c \in Clients, k \in Conns : Lock(c) \in P /\ Unlock(c) \in P /\ <<"non_block_events", k>> \in P
    BY <1>3 DEF Lock, Unlock, Loop, LoopClientOps, LoopConnOps
  <2> QED  BY <2>1, Short DEF LockedEvents
<1>9. /\ \A c, st : \A after \in Seq(P) : SetState(t, c, st, after) => PlainThen(t, P)
      /\ active \in SUBSET Clients /\ cached \in SUBSET Clients
      /\ \A c \in Clients : conn[c] # None => conn[c] \in Conns
  BY SetStatePlain DEF TypeInv, DataInv
<1> HIDE DEF P, Q
<1>10. \A R \in {P, Q} :
         /\ Done(t) => PlainThen(t, R)
         /\ \A x \in R : Then(t, <<x>>) => PlainThen(t, R)
         /\ \A x, y \in R : Then(t, <<x, y>>) => PlainThen(t, R)
         /\ \A N : \A x \in N : Then(t, <<x>>) => TokenThen(t, R, N)
         /\ \A x \in R : Then(t, <<x, Start>>) => TokenThen(t, R, {Start})
  <2> SUFFICES ASSUME NEW R \in {P, Q}
               PROVE  /\ Done(t) => PlainThen(t, R)
                      /\ \A x \in R : Then(t, <<x>>) => PlainThen(t, R)
                      /\ \A x, y \in R : Then(t, <<x, y>>) => PlainThen(t, R)
                      /\ \A N : \A x \in N : Then(t, <<x>>) => TokenThen(t, R, N)
                      /\ \A x \in R : Then(t, <<x, Start>>) => TokenThen(t, R, {Start})
    OBVIOUS
  <2>1. <<>> \in Seq(R) /\ \A x, y \in R : <<x>> \in Seq(R) /\ <<x, y>> \in Seq(R)
    OBVIOUS
  <2>2. ASSUME NEW x \in R, Then(t, <<x, Start>>) PROVE TokenThen(t, R, {Start})
    <3>1. <<x, Start>> = <<x>> \o <<Start>>
      BY DEF Start
    <3> QED  BY <2>1, <2>2, <3>1 DEF TokenThen
  <2>3. ASSUME NEW N, NEW x \in N, Then(t, <<x>>) PROVE TokenThen(t, R, N)
    <3>1. <<x>> = <<>> \o <<x>>
      OBVIOUS
    <3> QED  BY <2>1, <2>3, <3>1 DEF TokenThen
  <2> QED  BY <2>1, <2>2, <2>3 DEF Done, PlainThen
<1>11. SUFFICES \/ Shape(t, P, {Start})
                \/ Clears(t) /\ Shape(t, Q, Starters)
  BY CalmInPlain DEF P, Q
<1>12. <<"select_targets", None>> \in Starters /\ Start \in Starters /\ Start = <<"started", None>>
  BY DEF Starters, Start
<1> USE DEF LoopNames, CommandNames, PhaseNames, StartNames, CommandOps, CommandClientOps,
            CommandSetOps, PhaseOps, PhaseSetOps, AnswerOps
<1>21. CASE SessionSearch(t)
  <2>1. hd \in Q /\ t \in Chans
    BY <1>3, <1>4, <1>21 DEF SessionSearch, Does
  <2>2. CASE starting
    BY <1>1, <1>10, <1>21, <2>1, <2>2 DEF SessionSearch, Shape, Ordinary, Clears
  <2>3. CASE ~starting
    <3> DEFINE pre == << <<"reset_active", None>> >>
                       \o (IF modified THEN << <<"drop_cached", None>> >> ELSE <<>>)
    <3>1. pre \in Seq(Q)
      <4>1. << <<"reset_active", None>> >> \in Seq(Q) /\ << <<"drop_cached", None>> >> \in Seq(Q)
        BY <1>7, <2>1, Short
      <4> QED  BY <1>6, <4>1
    <3>2. TokenThen(t, Q, Starters)
      BY <1>12, <1>21, <2>3, <3>1 DEF SessionSearch, TokenThen
    <3> QED  BY <1>1, <1>21, <2>1, <2>3, <3>2 DEF SessionSearch, Shape, Beginning, Clears
  <2> QED  BY <2>2, <2>3
<1>22. CASE ResetActive(t)
  BY <1>1, <1>4, <1>7, <1>9, <1>10, <1>22 DEF ResetActive, Does, Shape, Ordinary, Clears
<1>23. CASE Detach(t)
  <2>1. hd \in Q /\ t \in Chans /\ Arg(t) \in SUBSET Clients
    BY <1>4, <1>5, <1>23 DEF Detach, Does
  <2>2. \A c : <<"detach", Arg(t) \ {c}>> \in Q
    BY <1>7, <2>1
  <2> QED  BY <1>1, <1>10, <1>23, <2>1, <2>2 DEF Detach, Shape, Ordinary, Clears, sessionVars
<1>24. CASE DropCached(t)
  BY <1>1, <1>4, <1>7, <1>9, <1>10, <1>24 DEF DropCached, Does, Shape, Ordinary, Clears
<1>25. CASE Drop(t)
  <2>1. hd \in Q /\ t \in Chans /\ Arg(t) \in SUBSET Clients
    BY <1>4, <1>5, <1>25 DEF Drop, Does
  <2>2. \A c : <<"drop", Arg(t) \ {c}>> \in Q
    BY <1>7, <2>1
  <2> QED  BY <1>1, <1>10, <1>25, <2>1, <2>2 DEF Drop, Shape, Ordinary, Clears, sessionVars
<1>26. CASE SelectTargets(t)
  <2>1. hd \in Starters /\ t \in Chans
    BY <1>4, <1>26 DEF SelectTargets, Does
  <2>2. UNCHANGED <<watch, due>>
    BY <1>26 DEF SelectTargets
  <2>3. CASE starting' = FALSE /\ Done(t)
    BY <1>1, <1>10, <1>26, <2>1, <2>2, <2>3 DEF Shape, Ending, Clears
  <2>4. CASE starting' = FALSE /\ Then(t, << <<"reset_active", None>> >>)
    BY <1>1, <1>7, <1>10, <1>26, <2>1, <2>2, <2>4 DEF Shape, Ending, Clears
  <2>5. ASSUME NEW S \in SUBSET Clients, UNCHANGED starting,
               Then(t, AlertAll \o << <<"search_clients", S>>, <<"started", None>> >>)
        PROVE  Shape(t, Q, Starters)
    <3> DEFINE pre == AlertAll \o << <<"search_clients", S>> >>
    <3>1. << <<"search_clients", S>> >> \in Seq(Q)
      BY <1>3, <1>7, <2>1, Short
    <3>2. pre \in Seq(Q)
      BY <1>6, <3>1
    <3>3. AlertAll \o << <<"search_clients", S>>, <<"started", None>> >>
            = pre \o << <<"started", None>> >>
      BY DEF AlertAll
    <3>4. TokenThen(t, Q, {Start})
      BY <1>12, <2>5, <3>2, <3>3 DEF TokenThen
    <3> QED  BY <1>1, <2>1, <2>2, <2>5, <3>4 DEF Shape, GoingOn
  <2> QED  BY <1>26, <2>3, <2>4, <2>5 DEF SelectTargets, Clears
<1>27. CASE SearchClients(t)
  <2>1. hd \in P /\ t \in Chans /\ Arg(t) \in SUBSET Clients
    BY <1>4, <1>5, <1>27 DEF SearchClients, Does
  <2>2. UNCHANGED <<starting, watch, due>>
    BY <1>27 DEF SearchClients, sessionVars
  <2>3. ASSUME NEW c \in Arg(t)
        PROVE  /\ <<"client_start_search", c>> \in P
               /\ <<"search_clients", Arg(t) \ {c}>> \in P
               /\ << <<"search_clients", Arg(t) \ {c}>> >> \in Seq(P)
    <3>1. <<"client_start_search", c>> \in P /\ <<"search_clients", Arg(t) \ {c}>> \in P
      BY <1>7, <2>1
    <3> QED  BY <3>1, Short
  <2>4. PlainThen(t, P)
    <3>1. CASE Done(t)
      BY <1>10, <3>1
    <3>2. ASSUME NEW c \in Arg(t), SetState(t, c, "Error", << <<"search_clients", Arg(t) \ {c}>> >>)
          PROVE  PlainThen(t, P)
      BY <1>9, <2>3, <3>2
    <3>3. ASSUME NEW c \in Arg(t), Then(t, << <<"search_clients", Arg(t) \ {c}>> >>)
          PROVE  PlainThen(t, P)
      BY <1>10, <2>3, <3>3
    <3>4. ASSUME NEW c \in Arg(t), Then(t, << <<"client_start_search", c>>,
                                              <<"search_clients", Arg(t) \ {c}>> >>)
          PROVE  PlainThen(t, P)
      BY <1>10, <2>3, <3>4
    <3> QED  BY <1>27, <3>1, <3>2, <3>3, <3>4 DEF SearchClients
  <2> QED  BY <1>1, <2>1, <2>2, <2>4 DEF Shape, Ordinary
<1>28. CASE Started(t)
  BY <1>1, <1>4, <1>10, <1>28 DEF Started, Does, Shape, Ending
<1>29. CASE SessionSort(t)
  <2>1. hd \in P /\ t \in Chans
    BY <1>4, <1>29 DEF SessionSort, Does
  <2>2. CASE Done(t) /\ UNCHANGED starting
    BY <1>1, <1>10, <1>29, <2>1, <2>2 DEF SessionSort, Shape, Ordinary
  <2>3. CASE ~starting /\ starting' = TRUE
             /\ Then(t, << <<"sort_clients", active>>, <<"started", None>> >>)
    <3>1. <<"sort_clients", active>> \in P
      BY <1>7, <1>9, <2>1
    <3>2. TokenThen(t, P, {Start})
      BY <1>10, <1>12, <2>3, <3>1
    <3> QED  BY <1>1, <1>29, <2>1, <2>3, <3>2 DEF SessionSort, Shape, Beginning
  <2> QED  BY <1>29, <2>2, <2>3 DEF SessionSort
<1>30. CASE SortClients(t)
  <2>1. hd \in P /\ t \in Chans /\ Arg(t) \in SUBSET Clients
    BY <1>4, <1>5, <1>30 DEF SortClients, Does
  <2>2. UNCHANGED <<starting, watch, due>>
    BY <1>30 DEF SortClients, sessionVars
  <2>3. ASSUME NEW c \in Arg(t)
        PROVE  <<"client_start_search", c>> \in P /\ <<"sort_clients", Arg(t) \ {c}>> \in P
    BY <1>7, <2>1
  <2>4. PlainThen(t, P)
    BY <1>10, <1>30, <2>3 DEF SortClients
  <2> QED  BY <1>1, <2>1, <2>2, <2>4 DEF Shape, Ordinary
<1>31. CASE SessionStop(t)
  <2>1. hd \in P /\ t \in Chans
    BY <1>4, <1>31 DEF SessionStop, Does
  <2>2. CASE starting
    BY <1>1, <1>10, <1>31, <2>1, <2>2 DEF SessionStop, Shape, Ordinary
  <2>3. CASE ~starting
    <3> DEFINE pre == AlertAll \o << <<"stop_clients", None>> >>
    <3>1. << <<"stop_clients", None>> >> \in Seq(P)
      BY <1>7, <2>1, Short
    <3>2. pre \in Seq(P)
      BY <1>6, <3>1
    <3>3. AlertAll \o << <<"stop_clients", None>>, <<"started", None>> >>
            = pre \o << <<"started", None>> >>
      BY DEF AlertAll
    <3>4. TokenThen(t, P, {Start})
      BY <1>12, <1>31, <2>3, <3>2, <3>3 DEF SessionStop, TokenThen
    <3> QED  BY <1>1, <1>31, <2>1, <2>3, <3>4 DEF SessionStop, Shape, Beginning
  <2> QED  BY <2>2, <2>3
<1>32. CASE StopClients(t)
  BY <1>1, <1>4, <1>7, <1>9, <1>10, <1>32 DEF StopClients, Does, Shape, Ordinary, sessionVars
<1>33. CASE ClientStop(t)
  <2>1. hd \in P /\ t \in Chans /\ Arg(t) \in SUBSET Clients
    BY <1>4, <1>5, <1>33 DEF ClientStop, Does
  <2>2. \A c : <<"client_stop", Arg(t) \ {c}>> \in P
    BY <1>7, <2>1
  <2>3. PlainThen(t, P)
    BY <1>10, <1>33, <2>2 DEF ClientStop
  <2>4. UNCHANGED <<starting, watch, due>>
    BY <1>33 DEF ClientStop, sessionVars
  <2> QED  BY <1>1, <2>1, <2>3, <2>4 DEF Shape, Ordinary
<1>34. CASE SessionAlertWatch(t)
  <2>1. hd \in P /\ Arg(t) \in Watches
    BY <1>4, <1>5, <1>34 DEF SessionAlertWatch, Does
  <2> DEFINE w == Arg(t)
             h == watch[w]
  <2>2. watch' = [watch EXCEPT ![w] = None] /\ UNCHANGED <<starting, due>>
    BY <1>34 DEF SessionAlertWatch, Unwatch
  <2>3. CASE h = None
    BY <1>1, <1>10, <1>34, <2>1, <2>2, <2>3 DEF SessionAlertWatch, Done, Shape, Alerting
  <2>4. CASE h # None
    <3>1. \A op \in AnswerOps : <<op, h>> \in Answers(h)
      BY DEF Answers
    <3>2. w \in {"show", "pref", "termlist", "record"}
      BY <2>1 DEF Watches
    <3>3. \E op \in AnswerOps : Then(t, << <<op, h>> >>)
      BY <1>34, <2>4, <3>2 DEF SessionAlertWatch
    <3>4. TokenThen(t, P, Answers(h))
      BY <1>10, <3>1, <3>3
    <3> QED  BY <1>1, <2>1, <2>2, <2>4, <3>4 DEF Shape, Alerting
  <2> QED  BY <2>3, <2>4
<1>35. CASE ShowRecords(t)
  <2> DEFINE h == Arg(t)
  <2>1. h \in Chans /\ hd \in For(t, h)
    BY <1>5, <1>35 DEF ShowRecords, Does
  <2>2. UNCHANGED <<starting, watch, due>>
    BY <1>35 DEF ShowRecords
  <2>3. TokenThen(t, P, For(t, h))
    <3>1. <<"session_fetch_more", <<h, active, FALSE>> >> \in For(t, h)
      BY <1>9 DEF For, Answers
    <3>2. <<"reply", h>> \in For(t, h)
      BY ReplyFor
    <3> QED  BY <1>10, <1>35, <3>1, <3>2 DEF ShowRecords, Reply
  <2> QED  BY <1>1, <2>1, <2>2, <2>3 DEF Shape, Passing
<1>36. CASE FetchMore(t)
  <2> DEFINE h == Arg(t)[1]
             rest(c, got) == <<"session_fetch_more", <<h, Arg(t)[2] \ {c}, got>> >>
  <2>1. h \in Chans /\ hd \in For(t, h) /\ Arg(t)[2] \in SUBSET Clients /\ Arg(t)[3] \in BOOLEAN
    BY <1>5, <1>36 DEF FetchMore, Does
  <2>2. UNCHANGED <<starting, watch, due>>
    BY <1>36 DEF FetchMore, sessionVars
  <2>4. ASSUME NEW c, NEW got \in BOOLEAN PROVE rest(c, got) \in For(t, h)
    BY <2>1 DEF For, Answers
  <2>5. PICK c \in Arg(t)[2] :
          \/ Then(t, << rest(c, Arg(t)[3]) >>)
          \/ /\ conn[c] # None
             /\ ConnectionContinue(t, c, conn[c], << rest(c, TRUE) >>)
    BY <1>36 DEF FetchMore
  <2>6. TokenThen(t, P, For(t, h))
    <3>1. ASSUME NEW got \in BOOLEAN, Then(t, << rest(c, got) >>) PROVE TokenThen(t, P, For(t, h))
      BY <1>10, <2>4, <3>1
    <3>2. ASSUME Then(t, LockedEvents(c, conn[c]) \o << rest(c, TRUE) >>), conn[c] # None
          PROVE  TokenThen(t, P, For(t, h))
      <4>1. LockedEvents(c, conn[c]) \in Seq(P)
        BY <1>8, <1>9, <2>1, <3>2
      <4> QED  BY <2>4, <3>2, <4>1 DEF TokenThen
    <3> QED  BY <2>1, <2>5, <3>1, <3>2 DEF ConnectionContinue
  <2> QED  BY <1>1, <2>1, <2>2, <2>6 DEF Shape, Passing
<1>37. CASE FetchedMore(t)
  <2> DEFINE h == Arg(t)[1]
  <2>1. h \in Chans /\ hd \in For(t, h)
    BY <1>5, <1>37 DEF FetchedMore, Does
  <2>2. UNCHANGED <<starting, watch, due>>
    BY <1>37 DEF FetchedMore
  <2>3. <<"show_again", h>> \in For(t, h) /\ <<"reply", h>> \in For(t, h)
    BY ReplyFor
  <2>4. TokenThen(t, P, For(t, h))
    BY <1>10, <1>37, <2>3 DEF FetchedMore, Reply
  <2> QED  BY <1>1, <2>1, <2>2, <2>4 DEF Shape, Passing
<1>38. CASE ShowAgain(t)
  <2>1. Arg(t) \in Chans /\ hd \in For(t, Arg(t)) /\ <<"reply", Arg(t)>> \in For(t, Arg(t))
    BY <1>5, <1>38, ReplyFor DEF ShowAgain, Does
  <2>2. SessionSetWatch(t, "show", Arg(t), << <<"reply", Arg(t)>> >>)
    BY <1>38 DEF ShowAgain, Reply
  <2> QED  BY <1>1, <2>1, <2>2, WatchShape DEF Watches
<1>39. CASE ShowRecord(t)
  <2>1. Arg(t) \in Chans /\ hd \in For(t, Arg(t))
    BY <1>5, <1>39 DEF ShowRecord, Does
  <2>2. UNCHANGED <<starting, watch, due>>
    BY <1>39 DEF ShowRecord, sessionVars
  <2>3. <<"record_watch", Arg(t)>> \in For(t, Arg(t)) /\ <<"reply", Arg(t)>> \in For(t, Arg(t))
    BY ReplyFor
  <2>4. TokenThen(t, P, For(t, Arg(t)))
    BY <1>10, <1>39, <2>3 DEF ShowRecord, Reply
  <2> QED  BY <1>1, <2>1, <2>2, <2>4 DEF Shape, Passing
<1>40. CASE RecordWatch(t)
  <2>1. Arg(t) \in Chans /\ hd \in For(t, Arg(t)) /\ <<"reply", Arg(t)>> \in For(t, Arg(t))
    BY <1>5, <1>40, ReplyFor DEF RecordWatch, Does
  <2>2. SessionSetWatch(t, "record", Arg(t), << <<"reply", Arg(t)>> >>)
    BY <1>40 DEF RecordWatch, Reply
  <2> QED  BY <1>1, <2>1, <2>2, WatchShape DEF Watches
<1> QED
  BY <1>21, <1>22, <1>23, <1>24, <1>25, <1>26, <1>27, <1>28, <1>29, <1>30, <1>31, <1>32, <1>33,
     <1>34, <1>35, <1>36, <1>37, <1>38, <1>39, <1>40 DEF SessionStep

LEMMA CommandShapes ==
    ASSUME TypeInv, NEW t \in Threads, CommandStep(t)
    PROVE  Shape(t, Calm(t), {Start})
<1> DEFINE hd == Head(agenda[t])
           P == Calm(t)
<1>1. Running(t)
  BY DEF CommandStep, ApplySetting, ShowDecides, ShowWaits, TermlistDecides, TermlistWaits,
         Respond, Does
<1>2. agenda[t] # <<>> /\ hd \in Items(t) /\ hd = <<hd[1], Arg(t)>>
  BY <1>1, HeadKinds
<1>3. /\ hd[1] \in CommandNames => hd \in P
      /\ hd[1] \in OwnNames => hd \in For(t, t) /\ t \in Chans
      /\ hd[1] \in AnswerOps => Arg(t) \in Chans /\ hd \in For(t, Arg(t))
      /\ hd[1] \in {"cmd_show", "show_watch"} => Arg(t) \in {"show", "pref"}
  BY <1>2, ItemKinds, ItemArgs, CalmHas DEF Arg, For
<1> HIDE DEF P
<1>4. /\ Done(t) => PlainThen(t, P)
      /\ \A x \in For(t, t) : Then(t, <<x>>) => TokenThen(t, P, For(t, t))
  <2>1. <<>> \in Seq(P) /\ \A x : <<x>> = <<>> \o <<x>>
    OBVIOUS
  <2> QED  BY <2>1 DEF Done, PlainThen, TokenThen
<1>5. /\ <<"reply", t>> \in For(t, t) /\ <<"show_records", t>> \in For(t, t)
      /\ t \in Chans => /\ \A w \in {"show", "pref"} : <<"show_watch", w>> \in For(t, t)
                        /\ <<"termlist_watch", None>> \in For(t, t)
  BY ReplyFor DEF For, Own, AnswerOps
<1>6. CASE ApplySetting(t)
  BY <1>1, <1>3, <1>4, <1>6
  DEF ApplySetting, Does, CommandNames, CommandOps, Shape, Ordinary, P
<1>7. CASE ShowDecides(t)
  <2>1. t \in Chans /\ hd \in For(t, t)
    BY <1>3, <1>7 DEF ShowDecides, Does, OwnNames
  <2>2. UNCHANGED <<starting, watch, due>>
    BY <1>7 DEF ShowDecides, sessionVars
  <2>3. TokenThen(t, P, For(t, t))
    BY <1>4, <1>5, <1>7, <2>1 DEF ShowDecides
  <2> QED  BY <1>1, <2>1, <2>2, <2>3 DEF Shape, Passing, P
<1>8. CASE ShowWaits(t)
  <2>1. t \in Chans /\ hd \in For(t, t) /\ Arg(t) \in Watches
    BY <1>3, <1>8 DEF ShowWaits, Does, Watches, OwnNames
  <2>2. PICK refused \in { Reply(t), << <<"show_records", t>> >> } :
            SessionSetWatch(t, Arg(t), t, refused)
    BY <1>8 DEF ShowWaits
  <2>3. \E x \in For(t, t) : refused = <<x>>
    BY <1>5 DEF Reply
  <2> QED  BY <1>1, <2>1, <2>2, <2>3, WatchShape
<1>9. CASE TermlistDecides(t)
  <2>1. t \in Chans /\ hd \in For(t, t)
    BY <1>3, <1>9 DEF TermlistDecides, Does, OwnNames
  <2>2. UNCHANGED <<starting, watch, due>>
    BY <1>9 DEF TermlistDecides, sessionVars
  <2>3. TokenThen(t, P, For(t, t))
    BY <1>4, <1>5, <1>9, <2>1 DEF TermlistDecides, Reply
  <2> QED  BY <1>1, <2>1, <2>2, <2>3 DEF Shape, Passing, P
<1>10. CASE TermlistWaits(t)
  <2>1. t \in Chans /\ hd \in For(t, t)
    BY <1>3, <1>10 DEF TermlistWaits, Does, OwnNames
  <2>2. SessionSetWatch(t, "termlist", t, << <<"reply", t>> >>)
    BY <1>10 DEF TermlistWaits, Reply
  <2> QED  BY <1>1, <1>5, <2>1, <2>2, WatchShape DEF Watches
<1>11. CASE Respond(t)
  <2>1. Arg(t) \in Chans /\ hd \in For(t, Arg(t))
    BY <1>3, <1>11 DEF Respond, Does, AnswerOps
  <2> QED  BY <1>1, <1>4, <1>11, <2>1 DEF Respond, Shape, Responding, sessionVars, P
<1> QED
  BY <1>6, <1>7, <1>8, <1>9, <1>10, <1>11 DEF CommandStep

LEMMA CommandStarts ==
    ASSUME NEW h \in Chans, Command(h)
    PROVE  Requesting(h, Calm(h)) /\ Requesting(h, Plain(h))
<1> DEFINE P == Calm(h)
<1>1. \A op \in CommandOps : <<op, None>> \in P
  BY CalmHas DEF Commanding
<1>2. /\ <<"reply", h>> \in For(h, h) /\ <<"show_record", h>> \in For(h, h)
      /\ <<"cmd_termlist", None>> \in For(h, h)
      /\ \A w \in {"show", "pref"} : <<"cmd_show", w>> \in For(h, h)
  BY ReplyFor DEF For, Own, AnswerOps
<1> HIDE DEF P
<1>3. /\ \A x \in For(h, h) : \A cmd : Request(h, cmd, <<x>>) => Requesting(h, P)
      /\ \A p \in P : \A a, b, cmd :
            <<a, b>> \in For(h, h) /\ Request(h, cmd, <<p, <<a, b>> >>) => Requesting(h, P)
      /\ \A p \in P : \A cmd : Request(h, cmd, <<p>> \o Reply(h)) => Requesting(h, P)
  <2>1. <<>> \in Seq(P) /\ \A p \in P : <<p>> \in Seq(P)
    OBVIOUS
  <2>2. ASSUME NEW ops \in Seq(P), NEW x \in For(h, h), NEW cmd, Request(h, cmd, ops \o <<x>>)
        PROVE  Requesting(h, P)
    BY <2>2 DEF Request, Requesting, sessionVars, P
  <2>3. ASSUME NEW x \in For(h, h), NEW cmd, Request(h, cmd, <<x>>) PROVE Requesting(h, P)
    <3>1. <<x>> = <<>> \o <<x>>
      OBVIOUS
    <3> QED  BY <2>1, <2>2, <2>3, <3>1
  <2>4. ASSUME NEW p \in P, NEW a, NEW b, NEW cmd, <<a, b>> \in For(h, h),
               Request(h, cmd, <<p, <<a, b>> >>)
        PROVE  Requesting(h, P)
    <3>1. <<p, <<a, b>> >> = <<p>> \o << <<a, b>> >>
      OBVIOUS
    <3> QED  BY <2>1, <2>2, <2>4, <3>1
  <2>5. ASSUME NEW p \in P, NEW cmd, Request(h, cmd, <<p>> \o Reply(h)) PROVE Requesting(h, P)
    <3>1. Reply(h) = << <<"reply", h>> >>
      BY DEF Reply
    <3> QED  BY <1>2, <2>1, <2>2, <2>5, <3>1
  <2> QED  BY <2>3, <2>4, <2>5
<1>4. Requesting(h, P)
  BY <1>1, <1>2, <1>3
  DEF Command, CmdSearch, CmdStop, CmdSettings, CmdRecord, CmdTermlist, CmdShow, CommandOps
<1>5. \A ops \in Seq(P) : ops \in Seq(Plain(h))
  BY CalmHas DEF P
<1> QED  BY <1>4, <1>5 DEF Requesting, P

LEMMA ConnStarts ==
    ASSUME TypeInv, NEW k \in Conns, SocketEvent(k) \/ Timeout(k)
    PROVE  PlainStart(k)
<1> DEFINE P == Plain(k)
<1>1. owner[k] # None => owner[k] \in Clients
  BY DEF TypeInv, DataInv
<1>2. MayStart(k) /\ UNCHANGED <<starting, watch, due>>
  BY DEF SocketEvent, Timeout, sessionVars
<1>3. /\ <<"connection_destroy", k>> \in P /\ <<"expired", k>> \in P /\ <<"non_block_events", k>> \in P
      /\ owner[k] # None => Lock(owner[k]) \in P /\ Unlock(owner[k]) \in P
  BY <1>1, CalmHas DEF Closing, Undoing, UndoConnOps, Lock, Unlock, Loop, LoopClientOps, LoopConnOps
<1> HIDE DEF P
<1>4. << <<"connection_destroy", k>> >> \in Seq(P)
  BY <1>3, Short
<1>5. CASE SocketEvent(k)
  <2>1. owner[k] # None => LockedEvents(owner[k], k) \in Seq(P)
    BY <1>3, Short DEF LockedEvents
  <2> QED  BY <1>2, <1>4, <1>5, <2>1 DEF SocketEvent, PlainStart, P
<1>6. CASE Timeout(k)
  <2> DEFINE first == IF owner[k] = None THEN <<>>
                      ELSE << Lock(owner[k]), <<"expired", k>>, Unlock(owner[k]) >>
  <2>1. first \in Seq(P)
    BY <1>3, Short
  <2>2. first \o << <<"connection_destroy", k>> >> \in Seq(P)
    BY <1>4, <2>1
  <2>3. Starts(k, first \o << <<"connection_destroy", k>> >>)
    BY <1>6 DEF Timeout
  <2> QED  BY <1>2, <2>2, <2>3 DEF PlainStart, P
<1> QED  BY <1>5, <1>6

-----------------------------------------------------------------------------
(* What steps do to tokens.  For is below one of the sets of tokens that a *)
(* thread may have in its agenda.                                          *)

TokenSets(t) == {Starters} \cup {For(t, h) : h \in Chans}

LEMMA TokenSetsApart ==
    ASSUME NEW t, NEW M \in TokenSets(t), NEW N \in TokenSets(t)
    PROVE  /\ Plain(t) \cap M = {} /\ Plain(t) \subseteq Items(t)
           /\ M = N \/ M \cap N = {}
<1>1. \A h \in Chans : Plain(t) \cap For(t, h) = {} /\ Plain(t) \cap Starters = {}
                         /\ Starters \cap For(t, h) = {}
  BY Apart
<1>2. \A h, g \in Chans : h # g => For(t, h) \cap For(t, g) = {}
  BY Apart
<1>4. Plain(t) \subseteq Items(t)
  BY DEF Items
<1> HIDE DEF Items
<1>5. Plain(t) \cap Starters = {}
  BY Apart
<1>6. Plain(t) \cap M = {}
  BY <1>1, <1>5 DEF TokenSets
<1>7. M = N \/ M \cap N = {}
  BY <1>1, <1>2 DEF TokenSets
<1> QED  BY <1>4, <1>6, <1>7

LEMMA TokenItems ==
    ASSUME NEW t
    PROVE  /\ Starters \in TokenSets(t) /\ \A h \in Chans : For(t, h) \in TokenSets(t)
           /\ \A h \in Chans : For(t, h) \in SUBSET (For(t, h) \cap Items(t))
           /\ \A h \in Chans : Answers(h) \in SUBSET (For(t, h) \cap Items(t))
           /\ t \in Chans => /\ Starters \in SUBSET (Starters \cap Items(t))
                             /\ {Start} \in SUBSET (Starters \cap Items(t))
<1>1. \A h : Answers(h) \subseteq For(t, h)
  BY DEF For
<1>2. \A h \in Chans : For(t, h) \subseteq Items(t)
  BY DEF Items
<1>3. t \in Chans => Starters \subseteq Items(t)
  BY DEF Items
<1>4. {Start} \subseteq Starters
  BY DEF Starters
<1> HIDE DEF Starters
<1> QED  BY <1>1, <1>2, <1>3, <1>4 DEF TokenSets

LEMMA AgendaMoves ==
    ASSUME AgendaInv, NEW t \in Threads, Running(t), NEW ops \in Seq(Items(t)), Then(t, ops)
    PROVE  /\ AgendaInv'
           /\ agenda'[t] = ops \o Tail(agenda[t])
           /\ \A u \in Threads \ {t} : agenda'[u] = agenda[u]
           /\ agenda[t] \in Seq(Items(t)) /\ agenda[t] # <<>>
<1>1. agenda' = [agenda EXCEPT ![t] = ops \o Tail(agenda[t])]
  BY DEF Then
<1>2. agenda[t] \in Seq(Items(t)) /\ agenda[t] # <<>>
  BY DEF AgendaInv, Running
<1>3. ops \o Tail(agenda[t]) \in Seq(Items(t))
  BY <1>2
<1> QED  BY <1>1, <1>2, <1>3 DEF AgendaInv

LEMMA PlainMoves ==
    ASSUME AgendaInv, NEW t \in Threads, Running(t), PlainThen(t, Plain(t)), NEW M \in TokenSets(t)
    PROVE  /\ AgendaInv' /\ \A u \in Threads \ {t} : agenda'[u] = agenda[u]
           /\ Once(agenda[t], M) =>
                 /\ Once(agenda'[t], M)
                 /\ Head(agenda[t]) \notin M => (Has(agenda'[t], M) <=> Has(agenda[t], M))
                 /\ Head(agenda[t]) \in M => ~Has(agenda'[t], M)
<1>1. PICK ops \in Seq(Plain(t)) : Then(t, ops)
  BY DEF PlainThen
<1>2. ops \in Seq(Items(t)) /\ Plain(t) \cap M = {}
  BY TokenSetsApart
<1>3. ~Has(ops, M) /\ Once(ops, M)
  BY <1>2, NoToken
<1>4. /\ AgendaInv' /\ agenda'[t] = ops \o Tail(agenda[t])
      /\ \A u \in Threads \ {t} : agenda'[u] = agenda[u]
      /\ agenda[t] \in Seq(Items(t)) /\ agenda[t] # <<>>
  BY <1>1, <1>2, AgendaMoves
<1>5. ASSUME Once(agenda[t], M), Head(agenda[t]) \notin M
      PROVE  Once(agenda'[t], M) /\ (Has(agenda'[t], M) <=> Has(agenda[t], M))
  BY <1>2, <1>3, <1>4, <1>5, TokenStays
<1>6. ASSUME Once(agenda[t], M), Head(agenda[t]) \in M
      PROVE  ~Has(agenda'[t], M) /\ Once(agenda'[t], M)
  <2>1. ~Has(agenda'[t], M)
    BY <1>2, <1>3, <1>4, <1>6, TokenGoes
  <2> QED  BY <2>1 DEF Has, Once
<1> QED  BY <1>4, <1>5, <1>6

LEMMA TokenMoves ==
    ASSUME AgendaInv, NEW t \in Threads, Running(t), NEW N \in TokenSets(t),
           NEW P \in SUBSET (N \cap Items(t)), TokenThen(t, Plain(t), P), NEW M \in TokenSets(t)
    PROVE  /\ AgendaInv' /\ \A u \in Threads \ {t} : agenda'[u] = agenda[u]
           /\ Once(agenda[t], M) =>
                 /\ M # N /\ Head(agenda[t]) \notin M =>
                       Once(agenda'[t], M) /\ (Has(agenda'[t], M) <=> Has(agenda[t], M))
                 /\ M = N /\ Head(agenda[t]) \in M =>
                       Once(agenda'[t], M) /\ (Has(agenda'[t], M) <=> Has(agenda[t], M))
                 /\ M = N /\ ~Has(agenda[t], M) => Once(agenda'[t], M) /\ Has(agenda'[t], M)
<1>1. PICK pre \in Seq(Plain(t)), x \in P : Then(t, pre \o <<x>>)
  BY DEF TokenThen
<1> DEFINE ops == pre \o <<x>>
<1>2. pre \in Seq(Items(t)) /\ x \in Items(t) /\ Plain(t) \cap M = {} /\ Plain(t) \cap N = {}
  BY TokenSetsApart
<1>3. ~Has(pre, M) /\ ~Has(pre, N) /\ Once(pre, M)
  BY <1>2, NoToken
<1>4. ops \in Seq(Items(t))
  BY <1>2
<1>5. /\ AgendaInv' /\ agenda'[t] = ops \o Tail(agenda[t])
      /\ \A u \in Threads \ {t} : agenda'[u] = agenda[u]
      /\ agenda[t] \in Seq(Items(t)) /\ agenda[t] # <<>>
  BY <1>1, <1>4, AgendaMoves
<1>6. M = N => Once(ops, M) /\ Has(ops, M)
  BY <1>2, <1>3, TokenLast
<1>7. M # N => Once(ops, M) /\ ~Has(ops, M)
  <2> SUFFICES ASSUME M # N PROVE ~Has(ops, M)
    BY DEF Has, Once
  <2>1. x \notin M
    BY TokenSetsApart
  <2>2. \A i \in 1 .. Len(ops) : ops[i] = x \/ (i \in 1 .. Len(pre) /\ ops[i] = pre[i])
    BY <1>2
  <2> QED  BY <1>3, <2>1, <2>2 DEF Has
<1> HIDE DEF ops
<1>8. ASSUME Once(agenda[t], M), M # N, Head(agenda[t]) \notin M
      PROVE  Once(agenda'[t], M) /\ (Has(agenda'[t], M) <=> Has(agenda[t], M))
  BY <1>4, <1>5, <1>7, <1>8, TokenStays
<1>9. ASSUME Once(agenda[t], M), M = N, Head(agenda[t]) \in M
      PROVE  Once(agenda'[t], M) /\ (Has(agenda'[t], M) <=> Has(agenda[t], M))
  BY <1>4, <1>5, <1>6, <1>9, TokenStays
<1>10. ASSUME Once(agenda[t], M), M = N, ~Has(agenda[t], M)
       PROVE  Once(agenda'[t], M) /\ Has(agenda'[t], M)
  BY <1>4, <1>5, <1>6, <1>10, TokenComes
<1> QED  BY <1>5, <1>8, <1>9, <1>10

(* A handler that starts.                                                  *)
LEMMA StartMoves ==
    ASSUME AgendaInv, NEW t \in Threads, MayStart(t), NEW N \in TokenSets(t),
           \/ \E ops \in Seq(Plain(t)) : Starts(t, ops)
           \/ N \subseteq Items(t) /\ \E ops \in Seq(Plain(t)), x \in N : Starts(t, ops \o <<x>>),
           NEW M \in TokenSets(t)
    PROVE  /\ AgendaInv' /\ \A u \in Threads \ {t} : agenda'[u] = agenda[u]
           /\ ~Has(agenda[t], M) /\ Once(agenda'[t], M)
           /\ (\E ops \in Seq(Plain(t)) : Starts(t, ops)) => ~Has(agenda'[t], M)
           /\ (\E ops \in Seq(Plain(t)), x \in N : Starts(t, ops \o <<x>>)) =>
                 (Has(agenda'[t], M) <=> M = N)
<1>0. \A K \in TokenSets(t) : Plain(t) \cap K = {} /\ Plain(t) \subseteq Items(t)
  BY TokenSetsApart
<1>1. agenda[t] = <<>> /\ ~Has(agenda[t], M)
  BY DEF MayStart, Running, Has
<1>2. ASSUME NEW ops \in Seq(Items(t)), Starts(t, ops)
      PROVE  /\ AgendaInv' /\ \A u \in Threads \ {t} : agenda'[u] = agenda[u]
             /\ agenda'[t] = ops
  BY <1>2 DEF Starts, AgendaInv
<1>3. ASSUME NEW ops \in Seq(Plain(t)), Starts(t, ops)
      PROVE  /\ AgendaInv' /\ \A u \in Threads \ {t} : agenda'[u] = agenda[u]
             /\ ~Has(agenda'[t], M) /\ Once(agenda'[t], M)
  <2>1. ops \in Seq(Items(t)) /\ Plain(t) \cap M = {}
    BY <1>0
  <2> QED  BY <1>2, <1>3, <2>1, NoToken
<1>4. ASSUME N \subseteq Items(t), NEW pre \in Seq(Plain(t)), NEW x \in N, Starts(t, pre \o <<x>>)
      PROVE  /\ AgendaInv' /\ \A u \in Threads \ {t} : agenda'[u] = agenda[u]
             /\ Once(agenda'[t], M) /\ (Has(agenda'[t], M) <=> M = N)
  <2> DEFINE ops == pre \o <<x>>
  <2>1. pre \in Seq(Items(t)) /\ x \in Items(t) /\ Plain(t) \cap M = {}
    BY <1>0, <1>4
  <2>2. ops \in Seq(Items(t))
    BY <2>1
  <2>3. ~Has(pre, M)
    BY <2>1, NoToken
  <2>4. M = N => Once(ops, M) /\ Has(ops, M)
    BY <2>1, <2>3, TokenLast
  <2>5. M # N => Once(ops, M) /\ ~Has(ops, M)
    <3> SUFFICES ASSUME M # N PROVE ~Has(ops, M)
      BY DEF Has, Once
    <3>1. x \notin M
      BY TokenSetsApart
    <3>2. \A i \in 1 .. Len(ops) : ops[i] = x \/ (i \in 1 .. Len(pre) /\ ops[i] = pre[i])
      BY <2>1
    <3> QED  BY <2>3, <3>1, <3>2 DEF Has
  <2> QED  BY <1>2, <1>4, <2>2, <2>4, <2>5
<1>5. CASE \E ops \in Seq(Plain(t)) : Starts(t, ops)
  <2>1. ~\E ops \in Seq(Plain(t)), x \in N : Starts(t, ops \o <<x>>)
    <3> SUFFICES ASSUME NEW pre \in Seq(Plain(t)), NEW x \in N, Starts(t, pre \o <<x>>) PROVE FALSE
      OBVIOUS
    <3>1. PICK ops \in Seq(Plain(t)) : Starts(t, ops)
      BY <1>5
    <3>2. ops = pre \o <<x>>
      BY <3>1 DEF Starts, AgendaInv
    <3>3. x \in Plain(t)
      <4>1. (pre \o <<x>>)[Len(pre) + 1] = x /\ Len(pre) + 1 \in 1 .. Len(pre \o <<x>>)
        OBVIOUS
      <4> QED  BY <3>2, <4>1
    <3> QED  BY <1>0, <3>3
  <2> QED  BY <1>1, <1>3, <1>5, <2>1
<1>6. CASE ~\E ops \in Seq(Plain(t)) : Starts(t, ops)
  BY <1>1, <1>4, <1>6
<1> QED  BY <1>5, <1>6

LEMMA StepShapes ==
    ASSUME TypeInv, NEW t \in Threads, Step(t)
    PROVE  /\ Shape(t, Plain(t), Starters)
           /\ ~Clears(t) /\ ~Undoes(t) => Shape(t, Calm(t), {Start})
<1>1. CASE ClientStep(t)
  BY <1>1, ClientOrdinary DEF Shape
<1>2. CASE SessionStep(t)
  BY <1>2, SessionShapes
<1>3. CASE CommandStep(t)
  BY <1>3, CommandShapes, CalmInPlain
<1> QED  BY <1>1, <1>2, <1>3 DEF Step

-----------------------------------------------------------------------------
(* Types are kept                                                          *)

OtherData == <<active, cached, conn, sess, owner, alive>>

LEMMA ClientData ==
    ASSUME TypeInv, NEW t \in Threads, ClientStep(t)
    PROVE  DataInv'
<1>1. Ordinary(t, Plain(t))
  BY ClientOrdinary
<1>2. /\ active' \subseteq Clients /\ cached' \subseteq Clients /\ starting' \in BOOLEAN
      /\ sess' \in [Clients -> BOOLEAN]
      /\ watch' \in [Watches -> Chans \cup {None}] /\ due' \subseteq Chans
  BY <1>1 DEF Ordinary, TypeInv, DataInv, ClientStep, ClientLock, ClientUnlock, ReuseConnection,
     CreateConnection, ConnectFails, StartSearch, NoMoreEvents, IgnoredEvent, SendApdu, RecvError,
     RecvRecord, End, GotRecords, PreferredCheck, RecordsCheck, Expired, ConnectionDestroy,
     ClientDisconnect, UnsetConnection, FreeConnection, sessionVars, clientVars
<1>3. agenda[t] # <<>> /\ Head(agenda[t]) \in Items(t)
  BY <1>1, HeadKinds DEF Ordinary
<1>4. Does(t, "client_start_search") => Arg(t) \in Clients
  BY <1>3, ItemArgs DEF Does, Arg, CommandClientOps
<1>5. /\ conn' \in [Clients -> Conns \cup {None}]
      /\ owner' \in [Conns -> Clients \cup {None}] /\ alive' \subseteq Conns
  <2>1. CASE CreateConnection(t)
    <3>1. Arg(t) \in Clients
      BY <1>4, <2>1 DEF CreateConnection
    <3> QED  BY <2>1, <3>1 DEF CreateConnection, TypeInv, DataInv
  <2>2. CASE UnsetConnection(t)
    BY <2>2 DEF UnsetConnection, TypeInv, DataInv, connVars
  <2>3. CASE FreeConnection(t)
    BY <2>3 DEF FreeConnection, TypeInv, DataInv, clientVars
  <2>4. CASE UNCHANGED <<conn, owner, alive>>
    BY <2>4 DEF TypeInv, DataInv
  <2> QED
    BY <2>1, <2>2, <2>3, <2>4
    DEF ClientStep, ClientLock, ClientUnlock, ReuseConnection, ConnectFails,
        StartSearch, NoMoreEvents, IgnoredEvent, SendApdu, RecvError, RecvRecord, End, GotRecords,
        PreferredCheck, RecordsCheck, Expired, ConnectionDestroy, ClientDisconnect,
        clientVars, connVars
<1> QED  BY <1>2, <1>5 DEF DataInv

LEMMA SessionData ==
    ASSUME TypeInv, NEW t \in Threads, SessionStep(t)
    PROVE  DataInv'
<1>1. Shape(t, Plain(t), Starters)
  BY SessionShapes
<1>2. starting' \in BOOLEAN /\ watch' \in [Watches -> Chans \cup {None}] /\ due' \subseteq Chans
  BY <1>1 DEF Shape, Ordinary, Beginning, GoingOn, Ending, Passing, Waiting, Alerting,
              Responding, TypeInv, DataInv
<1>3. /\ active' \subseteq Clients /\ cached' \subseteq Clients
      /\ conn' \in [Clients -> Conns \cup {None}] /\ sess' \in [Clients -> BOOLEAN]
      /\ owner' \in [Conns -> Clients \cup {None}] /\ alive' \subseteq Conns
  <2>1. CASE ResetActive(t)
    BY <2>1 DEF ResetActive, TypeInv, DataInv, clientVars, connVars
  <2>2. CASE Detach(t)
    BY <2>2 DEF Detach, TypeInv, DataInv, sessionVars, connVars
  <2>3. CASE DropCached(t)
    BY <2>3 DEF DropCached, TypeInv, DataInv, clientVars, connVars
  <2>4. CASE Drop(t)
    BY <2>4 DEF Drop, TypeInv, DataInv, sessionVars, connVars
  <2>5. CASE SelectTargets(t)
    <3>1. \E S \in SUBSET Clients : Selects(S)
      BY <2>5 DEF SelectTargets
    <3> QED  BY <2>5, <3>1 DEF SelectTargets, Selects, TypeInv, DataInv, connVars
  <2>6. CASE ClientStop(t)
    BY <2>6 DEF ClientStop, Release2, TypeInv, DataInv, sessionVars
  <2>7. CASE UNCHANGED OtherData
    BY <2>7 DEF OtherData, TypeInv, DataInv
  <2> QED
    BY <2>1, <2>2, <2>3, <2>4, <2>5, <2>6, <2>7
    DEF SessionStep, SessionSearch, SearchClients, Started, SessionSort, SortClients, SessionStop,
        StopClients, SessionAlertWatch, ShowRecords, FetchMore, FetchedMore, ShowAgain, ShowRecord,
        RecordWatch, SessionSetWatch, OtherData, sessionVars, clientVars, connVars
<1> QED  BY <1>2, <1>3 DEF DataInv

LEMMA CommandData ==
    ASSUME TypeInv, NEW t \in Threads, CommandStep(t)
    PROVE  DataInv'
<1>1. Shape(t, Plain(t), Starters)
  BY CommandShapes, CalmInPlain
<1>2. starting' \in BOOLEAN /\ watch' \in [Watches -> Chans \cup {None}] /\ due' \subseteq Chans
  BY <1>1 DEF Shape, Ordinary, Beginning, GoingOn, Ending, Passing, Waiting, Alerting,
              Responding, TypeInv, DataInv
<1>3. UNCHANGED OtherData
  BY DEF CommandStep, ApplySetting, ShowDecides, ShowWaits, TermlistDecides, TermlistWaits,
         Respond, SessionSetWatch, OtherData, sessionVars, clientVars, connVars
<1> QED  BY <1>2, <1>3 DEF TypeInv, DataInv, OtherData

(* A step in one of these forms keeps agendas what they are.               *)
LEMMA ShapeAgenda ==
    ASSUME TypeInv, NEW t \in Threads, Shape(t, Plain(t), Starters)
    PROVE  AgendaInv' /\ \A u \in Threads \ {t} : agenda'[u] = agenda[u]
<1>1. Starters \in TokenSets(t) /\ \A h \in Chans : For(t, h) \in TokenSets(t)
  BY TokenItems
<1>2. ASSUME Running(t), PlainThen(t, Plain(t))
      PROVE  AgendaInv' /\ \A u \in Threads \ {t} : agenda'[u] = agenda[u]
  BY <1>1, <1>2, PlainMoves DEF TypeInv
<1>3. ASSUME Running(t), NEW N \in TokenSets(t), NEW P \in SUBSET (N \cap Items(t)), TokenThen(t, Plain(t), P)
      PROVE  AgendaInv' /\ \A u \in Threads \ {t} : agenda'[u] = agenda[u]
  BY <1>1, <1>3, TokenMoves DEF TypeInv
<1>4. CASE Alerting(t, Plain(t))
  <2>1. PICK w \in Watches :
          Running(t) /\ IF watch[w] = None THEN PlainThen(t, Plain(t)) ELSE TokenThen(t, Plain(t), Answers(watch[w]))
    BY <1>4 DEF Alerting
  <2>2. watch[w] # None => watch[w] \in Chans
    BY DEF TypeInv, DataInv
  <2>3. watch[w] \in Chans => Answers(watch[w]) \in SUBSET (For(t, watch[w]) \cap Items(t))
    BY TokenItems
  <2> QED  BY <1>1, <1>2, <1>3, <2>1, <2>2, <2>3
<1>5. CASE Passing(t, Plain(t))
  BY <1>1, <1>3, <1>5, TokenItems DEF Passing
<1> QED
  BY <1>1, <1>2, <1>3, <1>4, <1>5, TokenItems
  DEF Shape, Ordinary, Beginning, GoingOn, Ending, Waiting, Responding

LEMMA TypeStep ==
    ASSUME TypeInv, [Next]_vars
    PROVE  TypeInv'
<1>1. ASSUME NEW t \in Threads, Step(t) PROVE TypeInv'
  <2>1. Shape(t, Plain(t), Starters)
    BY <1>1, StepShapes
  <2>2. AgendaInv'
    BY <2>1, ShapeAgenda
  <2> QED  BY <1>1, <2>2, ClientData, SessionData, CommandData DEF Step, TypeInv
<1>2. ASSUME NEW h \in Chans, Command(h) PROVE TypeInv'
  <2>1. Requesting(h, Plain(h))
    BY <1>2, CommandStarts
  <2>2. For(h, h) \in TokenSets(h) /\ For(h, h) \subseteq Items(h) /\ h \in Threads
    BY TokenItems DEF Threads
  <2>3. AgendaInv'
    BY <2>1, <2>2, StartMoves DEF Requesting, TypeInv
  <2>4. UNCHANGED <<OtherData, starting, watch>> /\ due' = due \cup {h}
    BY <1>2 DEF Command, CmdSearch, CmdStop, CmdSettings, CmdRecord, CmdTermlist, CmdShow, Request,
       OtherData, sessionVars, clientVars, connVars
  <2> QED  BY <2>3, <2>4 DEF TypeInv, DataInv, OtherData
<1>3. ASSUME NEW h \in Chans, ChannelDestroy(h) PROVE TypeInv'
  BY <1>3 DEF ChannelDestroy, TypeInv, DataInv, AgendaInv, clientVars, connVars
<1>4. ASSUME NEW k \in Conns, SocketEvent(k) \/ Timeout(k) PROVE TypeInv'
  <2>1. PlainStart(k)
    BY <1>4, ConnStarts
  <2>2. Starters \in TokenSets(k) /\ k \in Threads
    BY DEF TokenSets, Threads
  <2>3. AgendaInv'
    BY <2>1, <2>2, StartMoves DEF PlainStart, TypeInv
  <2>4. UNCHANGED <<OtherData, starting, watch, due>>
    BY <1>4 DEF SocketEvent, Timeout, OtherData, sessionVars, clientVars, connVars
  <2> QED  BY <2>3, <2>4 DEF TypeInv, DataInv, OtherData
<1>5. CASE UNCHANGED vars
  BY <1>5 DEF vars, sessionVars, clientVars, connVars, TypeInv, DataInv, AgendaInv
<1> QED  BY <1>1, <1>2, <1>3, <1>4, <1>5 DEF Next

LEMMA TypeInit ==
    ASSUME Init
    PROVE  TypeInv
<1>1. DataInv
  BY DEF Init, DataInv
<1>2. AgendaInv
  BY DEF Init, AgendaInv
<1> QED  BY <1>1, <1>2 DEF TypeInv

-----------------------------------------------------------------------------
(* Who may start clients                                                   *)

StarterInv ==
    /\ \A t \in Threads : Once(agenda[t], Starters)
    /\ \A t, u \in Threads : Has(agenda[t], Starters) /\ Has(agenda[u], Starters) => t = u
    /\ starting <=> \E t \in Threads : Has(agenda[t], Starters)

LEMMA StarterStep ==
    ASSUME TypeInv, StarterInv, NEW t \in Threads, Shape(t, Plain(t), Starters)
    PROVE  StarterInv'
<1>1. Starters \in TokenSets(t) /\ \A h \in Chans : For(t, h) \in TokenSets(t)
  BY TokenItems
<1>2. /\ \A u \in Threads \ {t} : agenda'[u] = agenda[u]
  BY ShapeAgenda
<1>3. ASSUME NEW S, Head(agenda[t]) \in S, S \cap Starters = {}
      PROVE  Head(agenda[t]) \notin Starters
  BY <1>3
<1>4. /\ Plain(t) \cap Starters = {} /\ \A h : For(t, h) \cap Starters = {} /\ For(t, h) # Starters
  <2>1. <<"started", None>> \in Starters
    BY DEF Starters, Start
  <2>2. ASSUME NEW h PROVE For(t, h) \cap Starters = {}
    BY Apart
  <2> QED  BY <2>1, <2>2, Apart
<1>5. Once(agenda[t], Starters) /\ starting \in BOOLEAN
  BY DEF StarterInv, TypeInv, DataInv
(* The step is not about starting.                                         *)
<1>6. ASSUME Once(agenda'[t], Starters), Has(agenda'[t], Starters) <=> Has(agenda[t], Starters),
             UNCHANGED starting
      PROVE  StarterInv'
  BY <1>2, <1>6 DEF StarterInv
<1>7. ASSUME Running(t), Head(agenda[t]) \notin Starters, PlainThen(t, Plain(t)), UNCHANGED starting
      PROVE  StarterInv'
  BY <1>1, <1>5, <1>6, <1>7, PlainMoves DEF TypeInv
<1>8. ASSUME Running(t), Head(agenda[t]) \notin Starters, NEW h \in Chans,
             NEW P \in SUBSET (For(t, h) \cap Items(t)), TokenThen(t, Plain(t), P), UNCHANGED starting
      PROVE  StarterInv'
  BY <1>1, <1>4, <1>5, <1>6, <1>8, TokenMoves DEF TypeInv
<1>9. CASE Ordinary(t, Plain(t))
  BY <1>4, <1>7, <1>9 DEF Ordinary
<1>10. CASE Beginning(t, Plain(t), Starters)
  <2>1. \A u \in Threads : ~Has(agenda[u], Starters)
    BY <1>10 DEF Beginning, StarterInv
  <2>2. Once(agenda'[t], Starters) /\ Has(agenda'[t], Starters)
    BY <1>1, <1>5, <1>10, <2>1, TokenMoves, TokenItems DEF Beginning, TypeInv
  <2> QED  BY <1>2, <1>10, <2>1, <2>2 DEF StarterInv, Beginning
<1>11. CASE GoingOn(t, Plain(t))
  BY <1>1, <1>5, <1>6, <1>11, TokenMoves, TokenItems DEF GoingOn, TypeInv
<1>12. CASE Ending(t, Plain(t))
  <2>1. ~Has(agenda'[t], Starters)
    BY <1>1, <1>5, <1>12, PlainMoves DEF Ending, TypeInv
  <2>2. Has(agenda[t], Starters)
    <3>1. agenda[t] # <<>> /\ agenda[t] \in Seq(Items(t))
      BY <1>12, HeadKinds DEF Ending
    <3>2. 1 \in 1 .. Len(agenda[t]) /\ Head(agenda[t]) = agenda[t][1]
      BY <3>1
    <3> QED  BY <1>12, <3>2 DEF Ending, Has
  <2>3. \A u \in Threads : ~Has(agenda'[u], Starters)
    BY <1>2, <2>1, <2>2 DEF StarterInv
  <2>4. \A u \in Threads \ {t} : Once(agenda'[u], Starters)
    BY <1>2 DEF StarterInv
  <2>5. Once(agenda'[t], Starters)
    BY <2>1 DEF Once, Has
  <2> QED  BY <1>12, <2>3, <2>4, <2>5 DEF StarterInv, Ending
<1>13. CASE Passing(t, Plain(t))
  BY <1>4, <1>8, <1>13, TokenItems DEF Passing
<1>14. CASE Waiting(t, Plain(t))
  BY <1>4, <1>7, <1>14 DEF Waiting
<1>15. CASE Alerting(t, Plain(t))
  <2>1. PICK w \in Watches :
          /\ Running(t) /\ Head(agenda[t]) \in Plain(t)
          /\ IF watch[w] = None THEN PlainThen(t, Plain(t)) ELSE TokenThen(t, Plain(t), Answers(watch[w]))
    BY <1>15 DEF Alerting
  <2>2. watch[w] # None => watch[w] \in Chans
    BY DEF TypeInv, DataInv
  <2>3. watch[w] \in Chans => Answers(watch[w]) \in SUBSET (For(t, watch[w]) \cap Items(t))
    BY TokenItems
  <2>4. UNCHANGED starting
    BY <1>15 DEF Alerting
  <2> QED  BY <1>4, <1>7, <1>8, <2>1, <2>2, <2>3, <2>4
<1>16. CASE Responding(t, Plain(t))
  BY <1>4, <1>7, <1>16 DEF Responding
<1> QED  BY <1>9, <1>10, <1>11, <1>12, <1>13, <1>14, <1>15, <1>16 DEF Shape

LEMMA StarterNext ==
    ASSUME TypeInv, StarterInv, [Next]_vars
    PROVE  StarterInv'
<1>1. ASSUME NEW t \in Threads, Step(t) PROVE StarterInv'
  BY <1>1, StepShapes, StarterStep
<1>2. ASSUME NEW t \in Threads, MayStart(t), UNCHANGED starting, NEW N \in TokenSets(t),
             N # Starters,
             \/ \E ops \in Seq(Plain(t)) : Starts(t, ops)
             \/ N \subseteq Items(t) /\ \E ops \in Seq(Plain(t)), x \in N : Starts(t, ops \o <<x>>)
      PROVE  StarterInv'
  <2>1. Starters \in TokenSets(t)
    BY DEF TokenSets
  <2>2. /\ \A u \in Threads \ {t} : agenda'[u] = agenda[u]
        /\ ~Has(agenda[t], Starters) /\ Once(agenda'[t], Starters) /\ ~Has(agenda'[t], Starters)
    BY <1>2, <2>1, StartMoves DEF TypeInv
  <2> QED  BY <1>2, <2>2 DEF StarterInv
<1>3. \A t, h : For(t, h) # Starters
  <2>1. <<"started", None>> \in Starters
    BY DEF Starters, Start
  <2> QED  BY <2>1, Apart
<1>4. ASSUME NEW h \in Chans, Command(h) PROVE StarterInv'
  <2>1. Requesting(h, Plain(h)) /\ For(h, h) \in TokenSets(h) /\ h \in Threads
    BY <1>4, CommandStarts, TokenItems DEF Threads
  <2>2. For(h, h) \subseteq Items(h)
    BY TokenItems
  <2> QED  BY <1>2, <1>3, <2>1, <2>2 DEF Requesting
<1>5. ASSUME NEW k \in Conns, SocketEvent(k) \/ Timeout(k) PROVE StarterInv'
  <2>1. PlainStart(k) /\ k \in Threads /\ Starters \in TokenSets(k)
    BY <1>5, ConnStarts DEF Threads, TokenSets
  <2>2. PICK ops \in Seq(Plain(k)) : Starts(k, ops)
    BY <2>1 DEF PlainStart
  <2>3. /\ \A u \in Threads \ {k} : agenda'[u] = agenda[u]
        /\ ~Has(agenda[k], Starters) /\ Once(agenda'[k], Starters) /\ ~Has(agenda'[k], Starters)
    BY <2>1, <2>2, StartMoves DEF TypeInv, PlainStart
  <2> QED  BY <2>1, <2>3 DEF StarterInv, PlainStart
<1>6. CASE UNCHANGED <<agenda, starting>>
  BY <1>6 DEF StarterInv
<1> QED
  BY <1>1, <1>4, <1>5, <1>6 DEF Next, ChannelDestroy, vars, sessionVars

(* Whatever happens in whatever order, with threads or without, no two     *)
(* commands start or stop clients at a time, and each that does lets the   *)
(* next one: session_search and session_stop never find clients_starting   *)
(* set for good (session.c clients_starting).                              *)
THEOREM StartingResetAlways == Spec => []StartingReset
<1>1. Init => TypeInv /\ StarterInv
  <2> SUFFICES ASSUME Init PROVE TypeInv /\ StarterInv
    OBVIOUS
  <2>1. \A t \in Threads : agenda[t] = <<>>
    BY DEF Init
  <2>2. ~Has(<<>>, Starters) /\ Once(<<>>, Starters)
    BY DEF Has, Once
  <2>3. starting = FALSE
    BY DEF Init
  <2>4. StarterInv
    BY <2>1, <2>2, <2>3 DEF StarterInv
  <2> QED  BY <2>4, TypeInit
<1>2. TypeInv /\ StarterInv /\ [Next]_vars => (TypeInv /\ StarterInv)'
  BY TypeStep, StarterNext
<1>3. TypeInv /\ StarterInv => StartingReset
  BY DEF StarterInv, StartingReset, Quiet, Running, Has
<1> QED  BY <1>1, <1>2, <1>3, PTL DEF Spec

-----------------------------------------------------------------------------
(* Requests                                                                *)

(* A request of channel h is on its way to an answer in one place.         *)
Tracked(h) ==
    /\ \A t \in Threads : Once(agenda[t], For(t, h))
    /\ \A t, u \in Threads : Has(agenda[t], For(t, h)) /\ Has(agenda[u], For(u, h)) => t = u
    /\ \A w, v \in Watches : watch[w] = h /\ watch[v] = h => w = v
    /\ \A t \in Threads, w \in Watches : ~(Has(agenda[t], For(t, h)) /\ watch[w] = h)
    /\ h \in due <=> \/ \E t \in Threads : Has(agenda[t], For(t, h))
                     \/ \E w \in Watches : watch[w] = h

RequestInv == \A h \in Chans : Tracked(h)

LEMMA HeadIn ==
    ASSUME TypeInv, NEW t \in Threads, Running(t), NEW M
    PROVE  Head(agenda[t]) \in M => Has(agenda[t], M)
<1>1. agenda[t] # <<>> /\ agenda[t] \in Seq(Items(t))
  BY HeadKinds
<1>2. 1 \in 1 .. Len(agenda[t]) /\ Head(agenda[t]) = agenda[t][1]
  BY <1>1
<1> QED  BY <1>2 DEF Has

LEMMA RequestStep ==
    ASSUME TypeInv, RequestInv, NEW t \in Threads, Shape(t, Plain(t), Starters), NEW h \in Chans
    PROVE  Tracked(h)'
<1> DEFINE M == For(t, h)
<1>1. Starters \in TokenSets(t) /\ \A g \in Chans : For(t, g) \in TokenSets(t)
  BY TokenItems
<1>2. \A u \in Threads \ {t} : agenda'[u] = agenda[u]
  BY ShapeAgenda
<1>3. Tracked(h) /\ Once(agenda[t], M)
  BY DEF RequestInv, Tracked
<1>4. /\ Plain(t) \cap M = {} /\ Starters \cap M = {} /\ Starters # M
      /\ \A g \in Chans : g # h => For(t, g) \cap M = {} /\ For(t, g) # M
  <2>1. <<"reply", h>> \in M
    BY ReplyFor DEF AnswerOps
  <2>2. Plain(t) \cap M = {} /\ Starters \cap M = {} /\ \A g : g # h => M \cap For(t, g) = {}
    BY Apart
  <2> QED  BY <2>1, <2>2
<1> HIDE DEF M
<1>5. None \notin Chans
  BY SearchStateAssumption
<1>6. M \in TokenSets(t)
  BY <1>1 DEF M
(* Its place is the same.                                                  *)
<1>7. ASSUME Once(agenda'[t], M), Has(agenda'[t], M) <=> Has(agenda[t], M),
             \A w \in Watches : watch'[w] = h <=> watch[w] = h, h \in due' <=> h \in due
      PROVE  Tracked(h)'
  BY <1>2, <1>3, <1>7 DEF Tracked, M
<1>8. ASSUME Running(t), Head(agenda[t]) \notin M, PlainThen(t, Plain(t))
      PROVE  Once(agenda'[t], M) /\ (Has(agenda'[t], M) <=> Has(agenda[t], M))
  BY <1>3, <1>6, <1>8, PlainMoves DEF TypeInv
<1>9. ASSUME Running(t), Head(agenda[t]) \notin M, NEW N \in TokenSets(t), N # M,
             NEW P \in SUBSET (N \cap Items(t)), TokenThen(t, Plain(t), P)
      PROVE  Once(agenda'[t], M) /\ (Has(agenda'[t], M) <=> Has(agenda[t], M))
  BY <1>3, <1>6, <1>9, TokenMoves DEF TypeInv
<1>10. ASSUME Running(t), Head(agenda[t]) \in M, TokenThen(t, Plain(t), M)
       PROVE  Once(agenda'[t], M) /\ (Has(agenda'[t], M) <=> Has(agenda[t], M))
  <2>1. M \in SUBSET (M \cap Items(t))
    BY TokenItems DEF M
  <2> QED  BY <1>3, <1>6, <1>10, <2>1, TokenMoves DEF TypeInv
<1>11. ASSUME Running(t), Head(agenda[t]) \in M, PlainThen(t, Plain(t))
       PROVE  /\ Once(agenda'[t], M) /\ ~Has(agenda'[t], M) /\ Has(agenda[t], M)
              /\ \A u \in Threads : ~Has(agenda'[u], For(u, h))
  <2>1. Once(agenda'[t], M) /\ ~Has(agenda'[t], M) /\ Has(agenda[t], M)
    BY <1>3, <1>6, <1>11, PlainMoves, HeadIn DEF TypeInv
  <2> QED  BY <1>2, <1>3, <2>1 DEF Tracked, M
<1>12. CASE Ordinary(t, Plain(t))
  BY <1>4, <1>7, <1>8, <1>12 DEF Ordinary
<1>13. CASE Beginning(t, Plain(t), Starters)
  BY <1>1, <1>4, <1>7, <1>9, <1>13, TokenItems DEF Beginning
<1>14. CASE GoingOn(t, Plain(t))
  BY <1>1, <1>4, <1>7, <1>9, <1>14, TokenItems DEF GoingOn
<1>15. CASE Ending(t, Plain(t))
  BY <1>4, <1>7, <1>8, <1>15 DEF Ending
<1>16. CASE Passing(t, Plain(t))
  <2>1. PICK g \in Chans :
          /\ Running(t) /\ Head(agenda[t]) \in For(t, g) /\ TokenThen(t, Plain(t), For(t, g))
          /\ UNCHANGED <<starting, watch, due>>
    BY <1>16 DEF Passing
  <2>2. CASE g = h
    BY <1>7, <1>10, <2>1, <2>2 DEF M
  <2>3. CASE g # h
    BY <1>1, <1>4, <1>7, <1>9, <2>1, <2>3, TokenItems
  <2> QED  BY <2>2, <2>3
<1>17. CASE Waiting(t, Plain(t))
  <2>1. PICK g \in Chans, w \in Watches :
          /\ Running(t) /\ Head(agenda[t]) \in For(t, g) /\ PlainThen(t, Plain(t))
          /\ watch[w] = None /\ watch' = [watch EXCEPT ![w] = g]
          /\ UNCHANGED <<starting, due>>
    BY <1>17 DEF Waiting
  <2>2. \A v \in Watches : watch'[v] = IF v = w THEN g ELSE watch[v]
    BY <2>1 DEF TypeInv, DataInv
  <2>3. CASE g = h
    <3>1. Head(agenda[t]) \in M
      BY <2>1, <2>3 DEF M
    <3>2. /\ Once(agenda'[t], M) /\ Has(agenda[t], M)
          /\ \A u \in Threads : ~Has(agenda'[u], For(u, h))
      BY <1>11, <2>1, <3>1
    <3>3. \A v \in Watches : watch[v] # h
      BY <1>3, <3>2 DEF Tracked, M
    <3>4. h \in due /\ due' = due
      BY <1>3, <2>1, <3>2 DEF Tracked, M
    <3>5. \A v \in Watches : watch'[v] = h <=> v = w
      BY <2>2, <2>3, <3>3
    <3>6. \A u \in Threads : Once(agenda'[u], For(u, h))
      BY <1>2, <1>3, <3>2 DEF Tracked, M
    <3> QED  BY <3>2, <3>4, <3>5, <3>6 DEF Tracked
  <2>4. CASE g # h
    <3>1. \A v \in Watches : watch'[v] = h <=> watch[v] = h
      BY <1>5, <2>1, <2>2, <2>4
    <3> QED  BY <1>4, <1>7, <1>8, <2>1, <2>4, <3>1
  <2> QED  BY <2>3, <2>4
<1>18. CASE Alerting(t, Plain(t))
  <2>1. PICK w \in Watches :
          /\ Running(t) /\ Head(agenda[t]) \in Plain(t)
          /\ IF watch[w] = None THEN PlainThen(t, Plain(t)) ELSE TokenThen(t, Plain(t), Answers(watch[w]))
          /\ watch' = [watch EXCEPT ![w] = None]
          /\ UNCHANGED <<starting, due>>
    BY <1>18 DEF Alerting
  <2>2. \A v \in Watches : watch'[v] = IF v = w THEN None ELSE watch[v]
    BY <2>1 DEF TypeInv, DataInv
  <2>3. watch[w] # None => watch[w] \in Chans
    BY DEF TypeInv, DataInv
  <2>4. Head(agenda[t]) \notin M
    BY <1>4, <2>1
  <2>5. CASE watch[w] = None
    <3>1. \A v \in Watches : watch'[v] = h <=> watch[v] = h
      BY <2>2, <2>5
    <3> QED  BY <1>7, <1>8, <2>1, <2>4, <2>5, <3>1
  <2>6. CASE watch[w] \in Chans /\ watch[w] # h
    <3>1. \A v \in Watches : watch'[v] = h <=> watch[v] = h
      BY <1>5, <2>2, <2>6
    <3>2. Answers(watch[w]) \in SUBSET (For(t, watch[w]) \cap Items(t))
      BY <2>6, TokenItems
    <3>3. TokenThen(t, Plain(t), Answers(watch[w]))
      BY <1>5, <2>1, <2>6
    <3>4. Once(agenda'[t], M) /\ (Has(agenda'[t], M) <=> Has(agenda[t], M))
      BY <1>1, <1>4, <1>9, <2>1, <2>4, <2>6, <3>2, <3>3
    <3> QED  BY <1>7, <2>1, <3>1, <3>4
  <2>7. CASE watch[w] = h
    <3>1. \A u \in Threads : ~Has(agenda[u], For(u, h))
      BY <1>3, <2>7 DEF Tracked
    <3>2. Answers(h) \in SUBSET (M \cap Items(t)) /\ TokenThen(t, Plain(t), Answers(h))
      BY <1>5, <2>1, <2>7, TokenItems DEF M
    <3>3. Once(agenda'[t], M) /\ Has(agenda'[t], M)
      BY <1>3, <1>6, <2>1, <3>1, <3>2, TokenMoves DEF TypeInv, M
    <3>4. \A v \in Watches : watch[v] = h => v = w
      BY <1>3, <2>7 DEF Tracked
    <3>5. \A v \in Watches : watch'[v] # h
      BY <1>5, <2>2, <3>4
    <3>6. h \in due /\ due' = due
      BY <1>3, <2>1, <2>7 DEF Tracked
    <3>7. \A u \in Threads : /\ Once(agenda'[u], For(u, h))
                             /\ Has(agenda'[u], For(u, h)) <=> u = t
      BY <1>2, <1>3, <3>1, <3>3 DEF Tracked, M
    <3> QED  BY <3>5, <3>6, <3>7 DEF Tracked
  <2> QED  BY <2>3, <2>5, <2>6, <2>7
<1>19. CASE Responding(t, Plain(t))
  <2>1. PICK g \in Chans :
          /\ Running(t) /\ Head(agenda[t]) \in For(t, g) /\ PlainThen(t, Plain(t))
          /\ due' = due \ {g} /\ UNCHANGED <<starting, watch>>
    BY <1>19 DEF Responding
  <2>2. CASE g = h
    <3>1. Head(agenda[t]) \in M
      BY <2>1, <2>2 DEF M
    <3>2. /\ Once(agenda'[t], M) /\ Has(agenda[t], M)
          /\ \A u \in Threads : ~Has(agenda'[u], For(u, h))
      BY <1>11, <2>1, <3>1
    <3>3. \A v \in Watches : watch'[v] # h
      BY <1>3, <2>1, <3>2 DEF Tracked, M
    <3>4. \A u \in Threads : Once(agenda'[u], For(u, h))
      BY <1>2, <1>3, <3>2 DEF Tracked, M
    <3> QED  BY <2>1, <2>2, <3>2, <3>3, <3>4 DEF Tracked
  <2>3. CASE g # h
    <3>1. Head(agenda[t]) \notin M
      BY <1>4, <2>1, <2>3
    <3> QED  BY <1>7, <1>8, <2>1, <2>3, <3>1
  <2> QED  BY <2>2, <2>3
<1> QED  BY <1>12, <1>13, <1>14, <1>15, <1>16, <1>17, <1>18, <1>19 DEF Shape

LEMMA RequestNext ==
    ASSUME ~Threaded, TypeInv, RequestInv, [Next]_vars
    PROVE  RequestInv'
<1>1. ASSUME NEW t \in Threads, Step(t) PROVE RequestInv'
  BY <1>1, StepShapes, RequestStep DEF RequestInv
<1>2. \A t \in Threads, h \in Chans : For(t, h) \in TokenSets(t)
  BY DEF TokenSets
<1>3. None \notin Chans
  BY SearchStateAssumption
<1>4. ASSUME NEW g \in Chans, Command(g) PROVE RequestInv'
  <2> SUFFICES ASSUME NEW h \in Chans PROVE Tracked(h)'
    BY DEF RequestInv
  <2>1. /\ Requesting(g, Plain(g)) /\ g \in Threads
        /\ For(g, g) \in TokenSets(g) /\ For(g, h) \in TokenSets(g) /\ For(g, g) \subseteq Items(g)
    BY <1>2, <1>4, CommandStarts, TokenItems DEF Threads
  <2>2. PICK ops \in Seq(Plain(g)), x \in For(g, g) : Starts(g, ops \o <<x>>)
    BY <2>1 DEF Requesting
  <2>3. /\ \A u \in Threads \ {g} : agenda'[u] = agenda[u]
        /\ ~Has(agenda[g], For(g, h)) /\ Once(agenda'[g], For(g, h))
        /\ Has(agenda'[g], For(g, h)) <=> For(g, h) = For(g, g)
    BY <2>1, <2>2, StartMoves DEF TypeInv, Requesting
  <2>4. For(g, h) = For(g, g) <=> h = g
    <3>1. <<"reply", h>> \in For(g, h)
      BY ReplyFor DEF AnswerOps
    <3> QED  BY <3>1, Apart
  <2>5. g \notin due /\ due' = due \cup {g} /\ watch' = watch
    BY <2>1 DEF Requesting
  <2>6. Tracked(h)
    BY DEF RequestInv
  <2>7. CASE h # g
    BY <2>3, <2>4, <2>5, <2>6, <2>7 DEF Tracked
  <2>8. CASE h = g
    <3>1. /\ \A u \in Threads : ~Has(agenda[u], For(u, h))
          /\ \A w \in Watches : watch[w] # h
      BY <2>5, <2>6, <2>8 DEF Tracked
    <3>2. \A u \in Threads : /\ Once(agenda'[u], For(u, h))
                             /\ Has(agenda'[u], For(u, h)) <=> u = g
      BY <2>3, <2>4, <2>6, <2>8, <3>1 DEF Tracked
    <3> QED  BY <2>1, <2>5, <2>8, <3>1, <3>2 DEF Tracked
  <2> QED  BY <2>7, <2>8
<1>5. ASSUME NEW g \in Chans, ChannelDestroy(g) PROVE RequestInv'
  <2> SUFFICES ASSUME NEW h \in Chans PROVE Tracked(h)'
    BY DEF RequestInv
  <2>1. \A t \in Threads : agenda[t] = <<>>
    BY <1>5 DEF ChannelDestroy, MayStart, Running
  <2>2. \A t \in Threads : ~Has(agenda[t], For(t, h)) /\ Once(agenda[t], For(t, h))
    BY <2>1 DEF Has, Once
  <2>3. agenda' = agenda /\ due' = due \ {g}
        /\ \A w \in Watches : watch'[w] = IF watch[w] = g THEN None ELSE watch[w]
    BY <1>5 DEF ChannelDestroy
  <2>4. Tracked(h)
    BY DEF RequestInv
  <2>5. CASE h = g
    <3>1. \A w \in Watches : watch'[w] # h
      BY <1>3, <2>3, <2>5
    <3> QED  BY <2>2, <2>3, <2>5, <3>1 DEF Tracked
  <2>6. CASE h # g
    <3>1. \A w \in Watches : watch'[w] = h <=> watch[w] = h
      BY <1>3, <2>3, <2>6
    <3> QED  BY <2>2, <2>3, <2>4, <2>6, <3>1 DEF Tracked
  <2> QED  BY <2>5, <2>6
<1>6. ASSUME NEW k \in Conns, SocketEvent(k) \/ Timeout(k) PROVE RequestInv'
  <2> SUFFICES ASSUME NEW h \in Chans PROVE Tracked(h)'
    BY DEF RequestInv
  <2>1. PlainStart(k) /\ k \in Threads /\ For(k, h) \in TokenSets(k)
    BY <1>2, <1>6, ConnStarts DEF Threads
  <2>2. PICK ops \in Seq(Plain(k)) : Starts(k, ops)
    BY <2>1 DEF PlainStart
  <2>3. /\ \A u \in Threads \ {k} : agenda'[u] = agenda[u]
        /\ ~Has(agenda[k], For(k, h)) /\ Once(agenda'[k], For(k, h))
        /\ ~Has(agenda'[k], For(k, h))
    BY <2>1, <2>2, StartMoves DEF TypeInv, PlainStart
  <2> QED  BY <2>1, <2>3 DEF RequestInv, Tracked, PlainStart
<1>7. CASE UNCHANGED vars
  BY <1>7 DEF vars, sessionVars, RequestInv, Tracked
<1> QED  BY <1>1, <1>4, <1>5, <1>6, <1>7 DEF Next

LEMMA RequestInit ==
    ASSUME Init
    PROVE  RequestInv
<1>1. \A t \in Threads, h \in Chans : ~Has(agenda[t], For(t, h)) /\ Once(agenda[t], For(t, h))
  <2>1. \A t \in Threads : agenda[t] = <<>>
    BY DEF Init
  <2>2. \A M : ~Has(<<>>, M) /\ Once(<<>>, M)
    BY DEF Has, Once
  <2> QED  BY <2>1, <2>2
<1>2. (\A w \in Watches : watch[w] = None) /\ due = {}
  BY DEF Init
<1> QED  BY <1>1, <1>2, SearchStateAssumption DEF RequestInv, Tracked

LEMMA TrackedOnce ==
    ASSUME TypeInv, RequestInv
    PROVE  RequestsTracked /\ AnsweredOnce
<1>1. RequestsTracked
  <2> SUFFICES ASSUME Quiet, NEW h \in Chans
               PROVE  Cardinality({w \in Watches : watch[w] = h}) = (IF h \in due THEN 1 ELSE 0)
    BY DEF RequestsTracked
  <2>1. \A t \in Threads : ~Has(agenda[t], For(t, h))
    BY DEF Quiet, Running, Has
  <2>2. Tracked(h)
    BY DEF RequestInv
  <2>3. CASE h \in due
    <3>1. PICK w \in Watches : watch[w] = h
      BY <2>1, <2>2, <2>3 DEF Tracked
    <3>2. {v \in Watches : watch[v] = h} = {w}
      BY <2>2, <3>1 DEF Tracked
    <3> QED  BY <2>3, <3>2, FS_Singleton
  <2>4. CASE h \notin due
    <3>1. {v \in Watches : watch[v] = h} = {}
      BY <2>2, <2>4 DEF Tracked
    <3> QED  BY <2>4, <3>1, FS_EmptySet
  <2> QED  BY <2>3, <2>4
<1>2. AnsweredOnce
  <2> SUFFICES ASSUME NEW t \in Threads, Does(t, "reply") PROVE Arg(t) \in due
    BY DEF AnsweredOnce
  <2>1. Running(t)
    BY DEF Does
  <2>2. Head(agenda[t]) \in Items(t)
    BY <2>1, HeadKinds
  <2>3. Arg(t) \in Chans /\ Head(agenda[t]) \in For(t, Arg(t))
    BY <2>2, ItemArgs DEF Does, Arg, AnswerOps, For
  <2> QED  BY <2>1, <2>3, HeadIn DEF RequestInv, Tracked
<1> QED  BY <1>1, <1>2

LEMMA RequestSafety ==
    ASSUME ~Threaded
    PROVE  Spec => [](TypeInv /\ RequestInv)
<1>1. Init => TypeInv /\ RequestInv
  BY TypeInit, RequestInit
<1>2. TypeInv /\ RequestInv /\ [Next]_vars => (TypeInv /\ RequestInv)'
  BY TypeStep, RequestNext
<1> QED  BY <1>1, <1>2, PTL DEF Spec

(* Without threads no request is lost: whatever commands, answers,         *)
(* failures and closings come in whatever order, one that has no answer    *)
(* yet is left in exactly one watch by the handlers that ran               *)
(* (session_set_watch, session_alert_watch, http_channel_destroy).         *)
THEOREM RequestsTrackedAlways ==
    ASSUME ~Threaded
    PROVE  Spec => []RequestsTracked
<1>1. TypeInv /\ RequestInv => RequestsTracked
  BY TrackedOnce
<1> QED  BY <1>1, RequestSafety, PTL

(* And none is answered twice: a command replies only to a request that    *)
(* has no answer (http_send_response).                                     *)
THEOREM AnsweredOnceAlways ==
    ASSUME ~Threaded
    PROVE  Spec => []AnsweredOnce
<1>1. TypeInv /\ RequestInv => AnsweredOnce
  BY TrackedOnce
<1> QED  BY <1>1, RequestSafety, PTL
=============================================================================
