------------------------ MODULE MessageTrackingSafety ------------------------
(***************************************************************************)
(* Theorems about MessageTracking: the tables keep their types, who was    *)
(* told that he is unsubscribed is on the exclusion list, and opens are    *)
(* counted once for each reader.  All rest on the order in which a handler *)
(* makes its calls.                                                        *)
(***************************************************************************)
EXTENDS MessageTracking, TLAPS, SequenceTheorems, FiniteSetTheorems

ReadsRecipient ==
  {"readForUnsubscribe", "readForReply", "readForHeal", "readForBounce"}

\* The calls about the message m of the handler
OfMessage ==
  ReadsRecipient \cup
    {"unique", "logOpen", "select", "update", "selectRecipient", "updateRecipient",
     "exclude", "answer", "readmit", "logBounce"}

Names == OfMessage \cup Loops \cup {"heal"}

\* The calls that may come after this one in a handler
Sequels(name) ==
  CASE name = "unique" -> {"select"}
    [] name = "select" -> {"update"}
    [] name = "update" -> {"logOpen", "infer", "readForHeal", "logBounce"}
    [] name = "logBounce" -> {"readForBounce"}
    [] name \in ReadsRecipient -> {"selectRecipient"}
    [] name = "selectRecipient" -> {"updateRecipient"}
    [] name = "updateRecipient" -> {"exclude", "readmit", "select"}
    [] name = "exclude" -> {"answer", "bounces"}
    [] name = "readmit" -> {"revert"}
    [] name = "revert" -> {"bounces"}
    [] OTHER -> {}

\* The calls a handler does not end with
Inner == ReadsRecipient \cup {"unique", "select", "selectRecipient"}

InOrder(calls) ==
  /\ calls \in Seq(Names)
  /\ \A i \in 1..Len(calls) :
       IF i < Len(calls) THEN calls[i + 1] \in Sequels(calls[i])
                         ELSE calls[i] \notin Inner

Handlers ==
  [calls : Seq(Names), m : Messages \cup {None}, row : MessageRow \cup {NoRow},
   person : RecipientRow \cup {NoRow}, seen : MessageRow \cup RecipientRow \cup {NoRow},
   reader : Readers \cup {None}, by : Methods \cup {None},
   todo : [Messages -> MessageRow \cup {NoRow}]]

At(h, names) == h.calls # <<>> /\ h.calls[1] \in names
Ahead(h, name) == \E i \in 1..Len(h.calls) : h.calls[i] = name

\* A handler has what its calls need.
Ready(h) ==
  /\ h \in Handlers
  /\ InOrder(h.calls)
  /\ At(h, OfMessage) => h.m \in Messages
  /\ Ahead(h, "select") \/ Ahead(h, "update") => h.row \in MessageRow
  /\ At(h, {"update"}) => h.seen \in MessageRow
  /\ Ahead(h, "logOpen") => h.reader \in Readers
  /\ At(h, {"selectRecipient", "updateRecipient"}) => h.person \in RecipientRow
  /\ At(h, {"updateRecipient"}) => h.seen \in RecipientRow

HandlersReady ==
  /\ task \in [Processes -> Handlers]
  /\ \A p \in Processes : Ready(task[p])

\* Who is about to be told has been excluded, unless somebody took him off.
ExcludedBeforeAnswer ==
  \A p \in Processes :
    At(task[p], {"answer"}) => AddressOf(task[p].m) \in excluded \cup readmitted

TrackingInv == TypeOK /\ HandlersReady /\ ExcludedBeforeAnswer /\ UnsubscribeTakesHold

-----------------------------------------------------------------------------
\* Handlers

Rest(calls, n) == SubSeq(calls, n + 1, Len(calls))

LEMMA RestInOrder ==
  ASSUME NEW calls, InOrder(calls), NEW n \in 1..Len(calls)
  PROVE  /\ InOrder(Rest(calls, n))
         /\ Len(Rest(calls, n)) = Len(calls) - n
         /\ \A i \in 1..Len(Rest(calls, n)) : Rest(calls, n)[i] = calls[i + n]
         /\ Rest(calls, n) = <<>> <=> n = Len(calls)
<1> DEFINE left == Rest(calls, n)
<1>1. calls \in Seq(Names) /\ Len(calls) \in Nat
  BY LenProperties DEF InOrder
<1>2. /\ left \in Seq(Names)
      /\ Len(left) = Len(calls) - n
      /\ \A i \in 1..Len(left) : left[i] = calls[i + n]
  BY <1>1 DEF Rest
<1>3. left = <<>> <=> n = Len(calls)
  BY <1>1, <1>2, EmptySeq
<1> HIDE DEF left
<1>4. ASSUME NEW i \in 1..Len(left)
      PROVE  /\ i < Len(left) => left[i + 1] \in Sequels(left[i])
             /\ ~(i < Len(left)) => left[i] \notin Inner
  <2>1. PICK j \in 1..Len(calls) : j = i + n /\ left[i] = calls[j]
    <3>1. i \in Nat /\ n \in Nat /\ 1 <= i /\ i <= Len(calls) - n
      BY <1>1, <1>2
    <3>2. i + n \in 1..Len(calls)
      BY <1>1, <3>1
    <3>3. left[i] = calls[i + n]
      BY <1>2
    <3> QED  BY <3>2, <3>3
  <2>2. ~(i < Len(left)) => ~(j < Len(calls))
    BY <1>1, <1>2, <2>1
  <2>3. i < Len(left) => j < Len(calls) /\ left[i + 1] = calls[j + 1]
    <3> SUFFICES ASSUME i < Len(left)  PROVE j < Len(calls) /\ left[i + 1] = calls[j + 1]
      OBVIOUS
    <3>1. i + 1 \in 1..Len(left) /\ j < Len(calls) /\ (i + 1) + n = j + 1
      BY <1>1, <1>2, <2>1
    <3>2. left[i + 1] = calls[(i + 1) + n]
      BY <1>2, <3>1
    <3> QED  BY <3>1, <3>2
  <2>4. /\ j < Len(calls) => calls[j + 1] \in Sequels(calls[j])
        /\ ~(j < Len(calls)) => calls[j] \notin Inner
    BY DEF InOrder
  <2> QED  BY <2>1, <2>2, <2>3, <2>4
<1> QED  BY <1>2, <1>3, <1>4 DEF InOrder, left

LEMMA IdleReady == Ready(Idle) /\ Idle.calls = <<>>
<1>1. Idle.calls = <<>> /\ Len(Idle.calls) = 0
  BY EmptySeq DEF Idle
<1>2. Idle \in Handlers
  BY EmptySeq DEF Idle, Handlers, NoTodo, NoRow
<1> QED  BY <1>1, <1>2, EmptySeq DEF Ready, InOrder, At, Ahead

\* Where a loop turns, only loops are ahead.
LEMMA LoopsLast ==
  ASSUME NEW calls, InOrder(calls), calls # <<>>, calls[1] \in Loops
  PROVE  \A i \in 1..Len(calls) : calls[i] \in Loops
<1>1. calls \in Seq(Names) /\ Len(calls) \in Nat \ {0}
  BY EmptySeq, LenProperties DEF InOrder
<1>2. Len(calls) > 1 => calls[2] = "bounces"
  BY <1>1 DEF InOrder, Sequels, Loops, ReadsRecipient
<1>3. Len(calls) < 3
  <2> SUFFICES ASSUME Len(calls) >= 3  PROVE FALSE
    BY <1>1
  <2>1. calls[3] \in Sequels("bounces")
    BY <1>1, <1>2 DEF InOrder
  <2> QED  BY <2>1 DEF Sequels, ReadsRecipient
<1> QED  BY <1>1, <1>2, <1>3 DEF Loops

LEMMA TurnReady ==
  ASSUME NEW calls, InOrder(calls), calls # <<>>, calls[1] \in Loops,
         NEW todo \in [Messages -> MessageRow \cup {NoRow}]
  PROVE  Ready([Idle EXCEPT !.calls = calls, !.todo = todo])
<1> DEFINE h == [Idle EXCEPT !.calls = calls, !.todo = todo]
<1>1. h \in Handlers /\ h.calls = calls
  BY DEF Idle, Handlers, NoRow, InOrder
<1>2. \A i \in 1..Len(calls) : calls[i] \in Loops
  BY LoopsLast
<1>3. ~At(h, OfMessage) /\ ~At(h, {"update"}) /\ ~At(h, {"selectRecipient", "updateRecipient"})
      /\ ~At(h, {"updateRecipient"})
  BY <1>1 DEF At, OfMessage, Loops, ReadsRecipient
<1>4. ~Ahead(h, "select") /\ ~Ahead(h, "update") /\ ~Ahead(h, "logOpen")
  BY <1>1, <1>2 DEF Ahead, Loops
<1> HIDE DEF h
<1> QED  BY <1>1, <1>3, <1>4 DEF Ready, h

\* A handler that goes on about its message, with what its next call needs
LEMMA NextReady ==
  ASSUME NEW h, Ready(h), At(h, OfMessage),
         NEW n \in 1..Len(h.calls), n < Len(h.calls), h.calls[n + 1] \notin Loops,
         NEW row \in MessageRow \cup {NoRow}, NEW person \in RecipientRow \cup {NoRow},
         NEW seen \in MessageRow \cup RecipientRow \cup {NoRow},
         h.row \in MessageRow => row \in MessageRow,
         h.calls[n + 1] = "update" => seen \in MessageRow,
         h.calls[n + 1] = "updateRecipient" => seen \in RecipientRow,
         h.calls[n + 1] \in {"selectRecipient", "updateRecipient"} => person \in RecipientRow
  PROVE  Ready([h EXCEPT !.calls = Rest(h.calls, n), !.row = row, !.person = person,
                         !.seen = seen])
<1> DEFINE left == Rest(h.calls, n)
           g == [h EXCEPT !.calls = left, !.row = row, !.person = person, !.seen = seen]
<1>1. h \in Handlers /\ InOrder(h.calls) /\ h.m \in Messages
  BY DEF Ready
<1>2. /\ InOrder(left) /\ Len(left) = Len(h.calls) - n
      /\ \A i \in 1..Len(left) : left[i] = h.calls[i + n]
      /\ left = <<>> <=> n = Len(h.calls)
  BY <1>1, RestInOrder
<1>2a. left # <<>>
  BY <1>1, <1>2, LenProperties DEF InOrder
<1> HIDE DEF left
<1>3. g \in Handlers /\ g.calls = left /\ g.m = h.m /\ g.reader = h.reader
      /\ g.row = row /\ g.person = person /\ g.seen = seen
  BY <1>1, <1>2 DEF Handlers, InOrder
<1> HIDE DEF g
<1>4. Len(h.calls) \in Nat
  BY <1>1, LenProperties DEF InOrder
<1>5. left[1] = h.calls[n + 1]
  <2>1. 1 \in 1..Len(left)
    BY <1>2, <1>4
  <2> QED  BY <1>2, <2>1
<1>6. ASSUME NEW name, Ahead(g, name)  PROVE Ahead(h, name)
  <2>1. PICK i \in 1..Len(left) : left[i] = name
    BY <1>3, <1>6 DEF Ahead
  <2>2. i + n \in 1..Len(h.calls) /\ h.calls[i + n] = name
    BY <2>1, <1>2, <1>4
  <2> QED  BY <2>2 DEF Ahead
<1>7. Ahead(g, "select") \/ Ahead(g, "update") => g.row \in MessageRow
  BY <1>6, <1>3 DEF Ready
<1>8. Ahead(g, "logOpen") => g.reader \in Readers
  BY <1>6, <1>3 DEF Ready
<1>9. /\ At(g, {"update"}) => g.seen \in MessageRow
      /\ At(g, {"selectRecipient", "updateRecipient"}) => g.person \in RecipientRow
      /\ At(g, {"updateRecipient"}) => g.seen \in RecipientRow
  BY <1>3, <1>5 DEF At
<1>10. Ready(g)
  BY <1>1, <1>2, <1>2a, <1>3, <1>7, <1>8, <1>9 DEF Ready
<1> QED  BY <1>10 DEF g, left

LEMMA SequelsAre ==
  /\ Sequels("unique") = {"select"} /\ Sequels("select") = {"update"}
  /\ Sequels("update") = {"logOpen", "infer", "readForHeal", "logBounce"}
  /\ Sequels("selectRecipient") = {"updateRecipient"}
  /\ Sequels("updateRecipient") = {"exclude", "readmit", "select"}
  /\ Sequels("exclude") = {"answer", "bounces"}
  /\ Sequels("readmit") = {"revert"} /\ Sequels("logBounce") = {"readForBounce"}
  /\ Sequels("answer") = {} /\ Sequels("logOpen") = {}
  /\ Sequels("revert") = {"bounces"} /\ Sequels("bounces") = {} /\ Sequels("infer") = {}
  /\ Sequels("heal") = {}
  /\ \A name \in ReadsRecipient : Sequels(name) = {"selectRecipient"}
BY DEF Sequels, ReadsRecipient

\* The call a handler is at, and the one after it
LEMMA FirstCall ==
  ASSUME NEW p \in Processes, Ready(task[p]), NEW name, Calls(p, name)
  PROVE  LET c == task[p].calls
         IN /\ c \in Seq(Names) /\ InOrder(c) /\ c # <<>>
            /\ Len(c) \in Nat \ {0} /\ c[1] = name
            /\ Len(c) > 1 => c[2] \in Sequels(name)
            /\ name \in Inner => Len(c) > 1
            /\ name \in OfMessage => At(task[p], OfMessage) /\ task[p].m \in Messages
<1> DEFINE c == task[p].calls
<1>1. c \in Seq(Names) /\ InOrder(c) /\ c # <<>> /\ Head(c) = name
  BY DEF Ready, InOrder, Calls
<1> HIDE DEF c
<1>2. Len(c) \in Nat \ {0} /\ c[1] = name
  BY <1>1, EmptySeq, LenProperties, HeadTailProperties
<1>3. 1 \in 1..Len(c) /\ 1 + 1 = 2
  BY <1>2
<1>4. /\ 1 < Len(c) => c[1 + 1] \in Sequels(c[1])
      /\ ~(1 < Len(c)) => c[1] \notin Inner
  BY <1>1, <1>3 DEF InOrder
<1>5. name \in OfMessage => At(task[p], OfMessage) /\ task[p].m \in Messages
  BY <1>1, <1>2 DEF At, Ready, c
<1> QED  BY <1>1, <1>2, <1>3, <1>4, <1>5 DEF c

\* What is left after a save was passed over
LEMMA SkippedSave ==
  ASSUME NEW p \in Processes, Ready(task[p]),
         NEW name \in ReadsRecipient \cup {"unique"}, Calls(p, name)
  PROVE  LET c == task[p].calls
         IN /\ Len(c) \in Nat /\ Len(c) >= 3
            /\ Len(c) > 3 => c[4] \in {"logOpen", "infer", "readForHeal", "logBounce",
                                       "exclude", "readmit", "select"}
<1> DEFINE c == task[p].calls
<1>1. InOrder(c) /\ Len(c) \in Nat \ {0} /\ c[1] = name
      /\ (Len(c) > 1 => c[2] \in Sequels(name)) /\ (name \in Inner => Len(c) > 1)
  BY FirstCall
<1> HIDE DEF c
<1>2. Len(c) > 1 /\ c[2] \in {"select", "selectRecipient"}
  <2>1. name \in Inner
    BY DEF Inner
  <2>2. Sequels(name) \subseteq {"select", "selectRecipient"}
    BY SequelsAre
  <2> QED  BY <1>1, <2>1, <2>2
<1>3. 2 \in 1..Len(c) /\ 2 + 1 = 3
  BY <1>1, <1>2
<1>4. /\ 2 < Len(c) => c[2 + 1] \in Sequels(c[2])
      /\ ~(2 < Len(c)) => c[2] \notin Inner
  BY <1>1, <1>3 DEF InOrder
<1>5. Len(c) > 2 /\ c[3] \in {"update", "updateRecipient"}
  <2>1. {"select", "selectRecipient"} \subseteq Inner
    BY DEF Inner
  <2>2. Sequels(c[2]) \subseteq {"update", "updateRecipient"}
    BY <1>2, SequelsAre
  <2> QED  BY <1>1, <1>2, <1>3, <1>4, <2>1, <2>2
<1>6. 3 \in 1..Len(c) /\ 3 + 1 = 4
  BY <1>1, <1>5
<1>7. 3 < Len(c) => c[3 + 1] \in Sequels(c[3])
  BY <1>1, <1>6 DEF InOrder
<1>8. Len(c) > 3 => c[4] \in {"logOpen", "infer", "readForHeal", "logBounce",
                                       "exclude", "readmit", "select"}
  BY <1>1, <1>5, <1>6, <1>7, SequelsAre
<1> QED  BY <1>1, <1>5, <1>8 DEF c

\* After n calls a handler has what its next call needs, unless that is a save.
LEMMA AfterReady ==
  ASSUME NEW p \in Processes, Ready(task[p]), At(task[p], OfMessage),
         NEW n \in 1..Len(task[p].calls),
         n < Len(task[p].calls) =>
           task[p].calls[n + 1] \notin {"update", "selectRecipient", "updateRecipient"}
  PROVE  /\ Ready(After(p, n))
         /\ At(After(p, n), {"answer"}) =>
              /\ n < Len(task[p].calls) /\ task[p].calls[n + 1] = "answer"
              /\ After(p, n).m = task[p].m
<1> DEFINE h == task[p]
           left == Rest(h.calls, n)
<1>1. h \in Handlers /\ InOrder(h.calls) /\ Len(h.calls) \in Nat
  BY LenProperties DEF Ready, InOrder
<1>2. /\ InOrder(left) /\ Len(left) = Len(h.calls) - n
      /\ \A i \in 1..Len(left) : left[i] = h.calls[i + n]
      /\ left = <<>> <=> n = Len(h.calls)
  BY <1>1, RestInOrder
<1>3. CASE left = <<>>
  <2>1. After(p, n) = Idle
    BY <1>3 DEF After, Rest
  <2> QED  BY <2>1, IdleReady DEF At
<1>4. CASE left # <<>>
  <2>1. n < Len(h.calls)
    BY <1>1, <1>2, <1>4
  <2>2. 1 \in 1..Len(left) /\ 1 + n = n + 1
    BY <1>1, <1>2, <2>1
  <2>3. left[1] = h.calls[n + 1] /\ Head(left) = left[1]
    BY <1>2, <2>2, <1>4, HeadTailProperties DEF InOrder
  <2>4. CASE left[1] \in Loops
    <3>1. After(p, n) = [Idle EXCEPT !.calls = left, !.todo = h.todo]
      BY <1>4, <2>3, <2>4 DEF After, Rest
    <3>2. h.todo \in [Messages -> MessageRow \cup {NoRow}]
      BY <1>1 DEF Handlers
    <3>3. Ready(After(p, n))
      <4>1. Ready([Idle EXCEPT !.calls = left, !.todo = h.todo])
        <5>1. h.todo \in [Messages -> MessageRow \cup {NoRow}] /\ left # <<>>
              /\ left[1] \in Loops /\ InOrder(left)
          BY <3>2, <1>2, <1>4, <2>4
        <5> HIDE DEF left, h
        <5> QED  BY <5>1, TurnReady
      <4> QED  BY <3>1, <4>1
    <3>4. After(p, n).calls = left
      BY <3>1 DEF Idle
    <3>5. ~At(After(p, n), {"answer"})
      BY <3>4, <2>4 DEF At, Loops
    <3> QED  BY <3>3, <3>5
  <2>5. CASE left[1] \notin Loops
    <3>1. After(p, n) = [h EXCEPT !.calls = left, !.seen = NoRow]
      BY <1>4, <2>3, <2>5 DEF After, Rest
    <3>2. PICK g : g = [h EXCEPT !.calls = left, !.row = h.row, !.person = h.person,
                                 !.seen = NoRow]
      OBVIOUS
    <3>3. After(p, n) = g
      BY <3>1, <3>2, <1>1 DEF Handlers
    <3>4. Ready(g)
      <4>1. h.row \in MessageRow \cup {NoRow} /\ h.person \in RecipientRow \cup {NoRow}
        BY <1>1 DEF Handlers
      <4>2. NoRow \in MessageRow \cup RecipientRow \cup {NoRow}
        OBVIOUS
      <4>3. h.calls[n + 1] \notin Loops
        BY <2>3, <2>5
      <4>4. Ready(h) /\ At(h, OfMessage) /\ n \in 1..Len(h.calls)
            /\ h.calls[n + 1] \notin {"update", "selectRecipient", "updateRecipient"}
        BY <2>1
      <4> HIDE DEF h
      <4> QED  BY <4>1, <4>2, <4>3, <4>4, <2>1, <3>2, NextReady DEF left
    <3>5. g.calls = left /\ g.m = h.m
      BY <3>2, <1>1 DEF Handlers
    <3>6. At(g, {"answer"}) => h.calls[n + 1] = "answer"
      BY <3>5, <2>3 DEF At
    <3> QED  BY <3>3, <3>4, <3>5, <3>6, <2>1
  <2> QED  BY <2>4, <2>5
<1> QED  BY <1>3, <1>4

\* The next call needs what the last has found: a row to save.
LEMMA FoundReady ==
  ASSUME NEW p \in Processes, Ready(task[p]), NEW name \in OfMessage, Calls(p, name),
         name \in Inner,
         NEW row \in MessageRow \cup {NoRow}, NEW person \in RecipientRow \cup {NoRow},
         NEW seen \in MessageRow \cup RecipientRow \cup {NoRow},
         task[p].row \in MessageRow => row \in MessageRow,
         name = "select" => seen \in MessageRow,
         name = "selectRecipient" => seen \in RecipientRow /\ person \in RecipientRow,
         name \in ReadsRecipient => person \in RecipientRow
  PROVE  /\ After(p, 1) = [task[p] EXCEPT !.calls = Rest(task[p].calls, 1), !.seen = NoRow]
         /\ Ready([task[p] EXCEPT !.calls = Rest(task[p].calls, 1), !.row = row,
                                  !.person = person, !.seen = seen])
         /\ Rest(task[p].calls, 1) # <<>> /\ Rest(task[p].calls, 1)[1] # "answer"
<1> DEFINE h == task[p]
           left == Rest(h.calls, 1)
<1>1. h \in Handlers /\ InOrder(h.calls) /\ Len(h.calls) \in Nat \ {0}
      /\ At(h, OfMessage) /\ 1 < Len(h.calls) /\ h.calls[2] \in Sequels(name)
  <2>1. h \in Handlers /\ InOrder(h.calls)
    BY DEF Ready
  <2>2. /\ Len(h.calls) \in Nat \ {0} /\ At(h, OfMessage)
        /\ Len(h.calls) > 1 => h.calls[2] \in Sequels(name)
        /\ name \in Inner => Len(h.calls) > 1
    BY FirstCall
  <2> QED  BY <2>1, <2>2
<1>2. /\ 1 \in 1..Len(h.calls) /\ 1 + 1 = 2
  BY <1>1
<1>3. /\ InOrder(left) /\ Len(left) = Len(h.calls) - 1
      /\ \A i \in 1..Len(left) : left[i] = h.calls[i + 1]
      /\ left = <<>> <=> 1 = Len(h.calls)
  BY <1>1, <1>2, RestInOrder
<1>4. left # <<>> /\ 1 \in 1..Len(left)
  BY <1>1, <1>3
<1>5. left[1] = h.calls[2] /\ Head(left) = left[1]
  BY <1>2, <1>3, <1>4, HeadTailProperties DEF InOrder
<1>6. /\ h.calls[2] \in {"select", "update", "selectRecipient", "updateRecipient"}
      /\ h.calls[2] = "update" => name = "select"
      /\ h.calls[2] = "updateRecipient" => name = "selectRecipient"
      /\ h.calls[2] = "selectRecipient" => name \in ReadsRecipient
  BY <1>1, SequelsAre DEF Inner, ReadsRecipient
<1>7. h.calls[2] \notin Loops /\ h.calls[2] # "answer"
  BY <1>6 DEF Loops
<1>8. After(p, 1) = [h EXCEPT !.calls = left, !.seen = NoRow]
  BY <1>4, <1>5, <1>7 DEF After, Rest
<1>9. Ready([h EXCEPT !.calls = left, !.row = row, !.person = person, !.seen = seen])
  <2>1. Ready(h) /\ h.calls[1 + 1] = h.calls[2]
    BY <1>2
  <2>2. h.row \in MessageRow => row \in MessageRow
    OBVIOUS
  <2>3. /\ h.calls[2] = "update" => seen \in MessageRow
        /\ h.calls[2] = "updateRecipient" => seen \in RecipientRow
        /\ h.calls[2] \in {"selectRecipient", "updateRecipient"} => person \in RecipientRow
    BY <1>6 DEF ReadsRecipient
  <2> HIDE DEF h
  <2> QED  BY <2>1, <2>2, <2>3, <1>1, <1>2, <1>7, NextReady DEF left
<1> QED  BY <1>4, <1>5, <1>7, <1>8, <1>9

-----------------------------------------------------------------------------
\* The calls that handlers start with

LEMMA PlansInOrder ==
  /\ InOrder(<<"unique", "select", "update", "logOpen">>)
  /\ InOrder(<<"select", "update">>)
  /\ InOrder(<<"readForUnsubscribe", "selectRecipient", "updateRecipient",
               "exclude", "answer">>)
  /\ InOrder(<<"readForReply", "selectRecipient", "updateRecipient">>)
  /\ InOrder(<<"infer">>) /\ InOrder(<<"select", "update", "infer">>)
  /\ InOrder(<<"heal">>) /\ InOrder(<<"revert">>) /\ InOrder(<<"revert", "bounces">>)
  /\ InOrder(Repair)
  /\ InOrder(<<"select", "update", "logBounce", "readForBounce",
               "selectRecipient", "updateRecipient", "exclude", "bounces">>)
<1> USE SequelsAre DEF InOrder, Names, OfMessage, ReadsRecipient, Loops, Inner
<1>1. InOrder(<<"unique", "select", "update", "logOpen">>)
  OBVIOUS
<1>2. InOrder(<<"select", "update">>)
  OBVIOUS
<1>3. InOrder(<<"readForUnsubscribe", "selectRecipient", "updateRecipient",
                "exclude", "answer">>)
  OBVIOUS
<1>4. InOrder(<<"readForReply", "selectRecipient", "updateRecipient">>)
  OBVIOUS
<1>5. InOrder(<<"infer">>) /\ InOrder(<<"select", "update", "infer">>)
  OBVIOUS
<1>6. InOrder(<<"heal">>) /\ InOrder(<<"revert">>) /\ InOrder(<<"revert", "bounces">>)
  OBVIOUS
<1>7. InOrder(Repair)
  BY DEF Repair
<1>8. InOrder(<<"select", "update", "logBounce", "readForBounce",
                "selectRecipient", "updateRecipient", "exclude", "bounces">>)
  OBVIOUS
<1> QED  BY <1>1, <1>2, <1>3, <1>4, <1>5, <1>6, <1>7, <1>8

LEMMA JoinInOrder ==
  ASSUME NEW a, NEW b, InOrder(a), InOrder(b), a # <<>>, b # <<>>,
         b[1] \in Sequels(a[Len(a)])
  PROVE  InOrder(a \o b) /\ a \o b # <<>> /\ (a \o b)[1] = a[1]
<1>1. a \in Seq(Names) /\ b \in Seq(Names) /\ Len(a) \in Nat \ {0} /\ Len(b) \in Nat \ {0}
  BY EmptySeq, LenProperties DEF InOrder
<1> DEFINE c == a \o b
<1>2. /\ c \in Seq(Names) /\ Len(c) = Len(a) + Len(b)
      /\ \A i \in 1..Len(a) : c[i] = a[i]
      /\ \A i \in 1..Len(b) : c[i + Len(a)] = b[i]
  BY <1>1
<1> HIDE DEF c
<1>3. ASSUME NEW i \in 1..Len(c)
      PROVE  IF i < Len(c) THEN c[i + 1] \in Sequels(c[i]) ELSE c[i] \notin Inner
  <2>1. CASE i < Len(a)
    <3>1. i \in 1..Len(a) /\ i + 1 \in 1..Len(a) /\ i < Len(c)
      BY <1>1, <1>2, <2>1
    <3>2. a[i + 1] \in Sequels(a[i])
      BY <2>1, <3>1 DEF InOrder
    <3> QED  BY <1>2, <3>1, <3>2
  <2>2. CASE i = Len(a)
    <3>1. i \in 1..Len(a) /\ 1 \in 1..Len(b) /\ i < Len(c) /\ 1 + Len(a) = i + 1
      BY <1>1, <1>2, <2>2
    <3>2. c[i] = a[i] /\ c[1 + Len(a)] = b[1]
      BY <1>2, <3>1
    <3> QED  BY <2>2, <3>1, <3>2
  <2>3. CASE i > Len(a)
    <3>1. PICK j \in 1..Len(b) : i = j + Len(a)
      <4>1. i - Len(a) \in 1..Len(b) /\ i = (i - Len(a)) + Len(a)
        BY <1>1, <1>2, <2>3
      <4> QED  BY <4>1
    <3>2. c[i] = b[j]
      BY <1>2, <3>1
    <3>3. CASE j < Len(b)
      <4>1. j + 1 \in 1..Len(b) /\ (j + 1) + Len(a) = i + 1 /\ i < Len(c)
        BY <1>1, <1>2, <3>1, <3>3
      <4>2. c[(j + 1) + Len(a)] = b[j + 1]
        BY <1>2, <4>1
      <4>3. b[j + 1] \in Sequels(b[j])
        BY <3>3 DEF InOrder
      <4> QED  BY <3>2, <4>1, <4>2, <4>3
    <3>4. CASE ~(j < Len(b))
      <4>1. ~(i < Len(c))
        BY <1>1, <1>2, <3>1, <3>4
      <4>2. b[j] \notin Inner
        BY <3>4 DEF InOrder
      <4> QED  BY <3>2, <4>1, <4>2
    <3> QED  BY <3>3, <3>4
  <2> QED  BY <1>1, <2>1, <2>2, <2>3
<1>4. 1 \in 1..Len(a) /\ c # <<>>
  BY <1>1, <1>2, EmptySeq
<1> QED  BY <1>2, <1>3, <1>4 DEF InOrder, c

-----------------------------------------------------------------------------
\* The calls of the handlers

\* The handler in p goes on as one that has what its next call needs.
Moves(p) ==
  \E h : /\ task' = [task EXCEPT ![p] = h]
         /\ Ready(h)
         /\ At(h, {"answer"}) => AddressOf(h.m) \in excluded' \cup readmitted'

\* Nobody leaves the exclusion list unnoticed.
Noticed == excluded \cup readmitted \subseteq excluded' \cup readmitted'

LEMMA MovesKeep ==
  ASSUME HandlersReady, ExcludedBeforeAnswer, Noticed, NEW p \in Processes, Moves(p)
  PROVE  HandlersReady' /\ ExcludedBeforeAnswer'
<1>1. PICK h : /\ task' = [task EXCEPT ![p] = h]
               /\ Ready(h)
               /\ At(h, {"answer"}) => AddressOf(h.m) \in excluded' \cup readmitted'
  BY DEF Moves
<1>2. h \in Handlers
  BY <1>1 DEF Ready
<1>3. task' \in [Processes -> Handlers]
  BY <1>1, <1>2 DEF HandlersReady
<1>4. \A q \in Processes : task'[q] = IF q = p THEN h ELSE task[q]
  BY <1>1 DEF HandlersReady
<1>5. \A q \in Processes : Ready(task'[q])
  BY <1>1, <1>4 DEF HandlersReady
<1>6. \A q \in Processes :
        At(task'[q], {"answer"}) => AddressOf(task'[q].m) \in excluded' \cup readmitted'
  BY <1>1, <1>4 DEF ExcludedBeforeAnswer, Noticed
<1> QED  BY <1>3, <1>5, <1>6 DEF HandlersReady, ExcludedBeforeAnswer

\* A handler that ends, or goes on with a call that needs nothing new
LEMMA AfterMoves ==
  ASSUME NEW p \in Processes, Ready(task[p]), At(task[p], OfMessage),
         NEW n \in 1..Len(task[p].calls),
         n < Len(task[p].calls) =>
           task[p].calls[n + 1] \notin {"update", "selectRecipient", "updateRecipient"},
         n < Len(task[p].calls) /\ task[p].calls[n + 1] = "answer" =>
           AddressOf(task[p].m) \in excluded' \cup readmitted',
         Becomes(p, After(p, n))
  PROVE  Moves(p)
<1>1. /\ Ready(After(p, n))
      /\ At(After(p, n), {"answer"}) => AddressOf(After(p, n).m) \in excluded' \cup readmitted'
  BY AfterReady
<1>2. task' = [task EXCEPT ![p] = After(p, n)]
  BY DEF Becomes
<1> QED  BY <1>1, <1>2 DEF Moves

LEMMA IdleMoves ==
  ASSUME NEW p \in Processes, Becomes(p, Idle)
  PROVE  Moves(p)
BY IdleReady DEF Moves, Becomes, At

LEMMA MergedTypes ==
  /\ \A row \in MessageRow, seen \in MessageRow, current \in MessageRow :
       Merged(row, seen, current) \in MessageRow
  /\ \A row \in RecipientRow, seen \in RecipientRow, current \in RecipientRow :
       Merged(row, seen, current) \in RecipientRow
<1>1. ASSUME NEW row \in MessageRow, NEW seen \in MessageRow, NEW current \in MessageRow
      PROVE  Merged(row, seen, current) \in MessageRow
  <2>1. DOMAIN row = {"status", "opens", "clicks"}
    BY DEF MessageRow
  <2>2. Merged(row, seen, current) =
          [status |-> IF row.status # seen.status THEN row.status ELSE current.status,
           opens |-> IF row.opens # seen.opens THEN row.opens ELSE current.opens,
           clicks |-> IF row.clicks # seen.clicks THEN row.clicks ELSE current.clicks]
    BY <2>1 DEF Merged
  <2> QED  BY <2>2 DEF MessageRow
<1>2. ASSUME NEW row \in RecipientRow, NEW seen \in RecipientRow, NEW current \in RecipientRow
      PROVE  Merged(row, seen, current) \in RecipientRow
  <2>1. DOMAIN row = {"status", "replied", "disposition"}
    BY DEF RecipientRow
  <2>2. Merged(row, seen, current) =
          [status |-> IF row.status # seen.status THEN row.status ELSE current.status,
           replied |-> IF row.replied # seen.replied THEN row.replied ELSE current.replied,
           disposition |-> IF row.disposition # seen.disposition
                           THEN row.disposition ELSE current.disposition]
    BY <2>1 DEF Merged
  <2> QED  BY <2>2 DEF RecipientRow
<1> QED  BY <1>1, <1>2

LEMMA OpenedRow ==
  \A row \in MessageRow : [row EXCEPT !.opens = @ + 1] \in MessageRow
BY DEF MessageRow

\* A handler that goes on with what it has found
LEMMA FoundMoves ==
  ASSUME NEW p \in Processes, Ready(task[p]), NEW name \in OfMessage, Calls(p, name),
         name \in Inner,
         NEW row \in MessageRow \cup {NoRow}, NEW person \in RecipientRow \cup {NoRow},
         NEW seen \in MessageRow \cup RecipientRow \cup {NoRow},
         task[p].row \in MessageRow => row \in MessageRow,
         name = "select" => seen \in MessageRow,
         name = "selectRecipient" => seen \in RecipientRow /\ person \in RecipientRow,
         name \in ReadsRecipient => person \in RecipientRow,
         Becomes(p, [task[p] EXCEPT !.calls = Rest(task[p].calls, 1), !.row = row,
                                    !.person = person, !.seen = seen])
  PROVE  Moves(p)
<1> DEFINE left == Rest(task[p].calls, 1)
           h == [task[p] EXCEPT !.calls = left, !.row = row, !.person = person,
                                !.seen = seen]
<1>1. Ready(h) /\ left # <<>> /\ left[1] # "answer"
  BY FoundReady
<1>2. task[p] \in Handlers /\ task' = [task EXCEPT ![p] = h]
  BY DEF Ready, Becomes
<1> HIDE DEF left
<1>3. h.calls = left
  BY <1>2 DEF Handlers
<1> HIDE DEF h
<1>4. ~At(h, {"answer"})
  BY <1>1, <1>3 DEF At
<1> QED  BY <1>1, <1>2, <1>4 DEF Moves

LEMMA OpenCalls ==
  ASSUME TrackingInv, NEW p \in Processes, IsUniqueOpen(p) \/ LogOpen(p)
  PROVE  TypeOK' /\ Moves(p) /\ Noticed /\ UnsubscribeTakesHold'
<1>1. Ready(task[p])
  BY DEF TrackingInv, HandlersReady
<1> DEFINE c == task[p].calls
<1>2. CASE IsUniqueOpen(p)
  <2>0. Calls(p, "unique")
    BY <1>2 DEF IsUniqueOpen
  <2>1. /\ UNCHANGED <<tables, log, wishes, readmitted>>
        /\ \/ Becomes(p, After(p, 3))
           \/ Becomes(p, [After(p, 1) EXCEPT !.row.opens = @ + 1])
    BY <1>2 DEF IsUniqueOpen
  <2>2. TypeOK' /\ Noticed /\ UnsubscribeTakesHold'
    BY <2>1 DEF TrackingInv, TypeOK, tables, log, Noticed, UnsubscribeTakesHold
  <2>3. At(task[p], OfMessage) /\ Len(c) \in Nat /\ c[1] = "unique"
    BY <1>1, <2>0, FirstCall DEF OfMessage
  <2>4. Moves(p)
    <3>1. CASE Becomes(p, After(p, 3))
      <4>1. /\ Len(c) >= 3
            /\ Len(c) > 3 => c[4] \in {"logOpen", "infer", "readForHeal", "logBounce",
                                       "exclude", "readmit", "select"}
        BY <1>1, <2>0, SkippedSave
      <4>2. 3 \in 1..Len(c) /\ 3 + 1 = 4
        BY <2>3, <4>1
      <4> QED  BY <1>1, <2>3, <3>1, <4>1, <4>2, AfterMoves
    <3>2. CASE Becomes(p, [After(p, 1) EXCEPT !.row.opens = @ + 1])
      <4>1. "unique" \in OfMessage \cap Inner /\ "unique" \notin ReadsRecipient
        BY DEF OfMessage, Inner, ReadsRecipient
      <4>2. task[p] \in Handlers /\ Ahead(task[p], "select")
        <5>1. Len(c) > 1 /\ c[2] \in Sequels("unique")
          BY <1>1, <2>0, <4>1, FirstCall
        <5>2. 2 \in 1..Len(c) /\ c[2] = "select"
          BY <2>3, <5>1, SequelsAre
        <5> QED  BY <1>1, <5>2 DEF Ahead, Ready
      <4>3. task[p].row \in MessageRow /\ task[p].person \in RecipientRow \cup {NoRow}
        BY <1>1, <4>2 DEF Ready, Handlers
      <4>4. PICK row \in MessageRow : row = [task[p].row EXCEPT !.opens = @ + 1]
        BY <4>3, OpenedRow
      <4>5. PICK person \in RecipientRow \cup {NoRow} : person = task[p].person
        BY <4>3
      <4>6. After(p, 1) = [task[p] EXCEPT !.calls = Rest(c, 1), !.seen = NoRow]
        BY <1>1, <2>0, <4>1, <4>3, FoundReady
      <4>7. [After(p, 1) EXCEPT !.row.opens = @ + 1] =
              [task[p] EXCEPT !.calls = Rest(c, 1), !.row = row, !.person = person,
                              !.seen = NoRow]
        BY <4>2, <4>4, <4>5, <4>6 DEF Handlers
      <4> QED  BY <1>1, <2>0, <3>2, <4>1, <4>7, FoundMoves
    <3> QED  BY <2>1, <3>1, <3>2
  <2> QED  BY <2>2, <2>4
<1>3. CASE LogOpen(p)
  <2>0. Calls(p, "logOpen")
    BY <1>3 DEF LogOpen
  <2>1. /\ UNCHANGED <<tables, bouncedBy, wishes, readmitted>>
        /\ recent' = [recent EXCEPT ![task[p].m] = @ \cup {task[p].reader}]
        /\ Becomes(p, After(p, 1))
    BY <1>3 DEF LogOpen, history
  <2>2. At(task[p], OfMessage) /\ Len(c) \in Nat \ {0} /\ c[1] = "logOpen"
        /\ task[p].m \in Messages /\ (Len(c) > 1 => c[2] \in Sequels("logOpen"))
    BY <1>1, <2>0, FirstCall DEF OfMessage
  <2>3. 1 \in 1..Len(c) /\ ~(1 < Len(c))
    BY <2>2, SequelsAre
  <2>4. task[p].reader \in Readers
    BY <1>1, <2>2, <2>3 DEF Ready, Ahead
  <2>5. TypeOK' /\ Noticed /\ UnsubscribeTakesHold'
    BY <2>1, <2>2, <2>4 DEF TrackingInv, TypeOK, tables, Noticed, UnsubscribeTakesHold
  <2>6. Moves(p)
    BY <1>1, <2>1, <2>2, <2>3, AfterMoves
  <2> QED  BY <2>5, <2>6
<1> QED  BY <1>2, <1>3

\* The two halves of a save
LEMMA SaveCalls ==
  ASSUME TrackingInv, NEW p \in Processes,
         SelectMessage(p) \/ UpdateMessage(p) \/ SelectRecipient(p) \/ UpdateRecipient(p)
  PROVE  TypeOK' /\ Moves(p) /\ Noticed /\ UnsubscribeTakesHold'
<1>1. Ready(task[p]) /\ task[p] \in Handlers
  BY DEF TrackingInv, HandlersReady, Ready
<1> DEFINE c == task[p].calls
<1>2. /\ {"select", "selectRecipient", "update", "updateRecipient"} \subseteq OfMessage
      /\ {"select", "selectRecipient"} \subseteq Inner \ ReadsRecipient
  BY DEF OfMessage, Inner, ReadsRecipient
<1>3. PICK row \in MessageRow \cup {NoRow}, person \in RecipientRow \cup {NoRow} :
        row = task[p].row /\ person = task[p].person
  BY <1>1 DEF Handlers
<1>4. CASE SelectMessage(p)
  <2>1. /\ Calls(p, "select") /\ UNCHANGED <<tables, log, history>>
        /\ Becomes(p, [After(p, 1) EXCEPT !.seen = message[task[p].m]])
    BY <1>4 DEF SelectMessage
  <2>2. TypeOK' /\ Noticed /\ UnsubscribeTakesHold'
    BY <2>1 DEF TrackingInv, TypeOK, tables, log, history, Noticed, UnsubscribeTakesHold
  <2>3. task[p].m \in Messages
    BY <1>1, <1>2, <2>1, FirstCall
  <2>4. PICK seen \in MessageRow : seen = message[task[p].m]
    BY <2>3 DEF TrackingInv, TypeOK
  <2>5. After(p, 1) = [task[p] EXCEPT !.calls = Rest(c, 1), !.seen = NoRow]
    BY <1>1, <1>2, <1>3, <2>1, <2>4, FoundReady
  <2>6. [After(p, 1) EXCEPT !.seen = message[task[p].m]] =
          [task[p] EXCEPT !.calls = Rest(c, 1), !.row = row, !.person = person,
                          !.seen = seen]
    BY <1>1, <1>3, <2>4, <2>5 DEF Handlers
  <2>7. Moves(p)
    <3>1. Becomes(p, [task[p] EXCEPT !.calls = Rest(c, 1), !.row = row,
                                     !.person = person, !.seen = seen])
      BY <2>1, <2>6
    <3>2. Calls(p, "select") /\ "select" \in OfMessage /\ "select" \in Inner
          /\ "select" \notin ReadsRecipient
      BY <1>2, <2>1
    <3> QED  BY <1>1, <1>3, <3>1, <3>2, FoundMoves
  <2> QED  BY <2>2, <2>7
<1>5. CASE SelectRecipient(p)
  <2>1. /\ Calls(p, "selectRecipient") /\ UNCHANGED <<tables, log, history>>
        /\ Becomes(p, [After(p, 1) EXCEPT !.seen = recipient[RecipientOf[task[p].m]]])
    BY <1>5 DEF SelectRecipient
  <2>2. TypeOK' /\ Noticed /\ UnsubscribeTakesHold'
    BY <2>1 DEF TrackingInv, TypeOK, tables, log, history, Noticed, UnsubscribeTakesHold
  <2>3. task[p].m \in Messages /\ At(task[p], {"selectRecipient"})
    BY <1>1, <1>2, <2>1, FirstCall DEF At
  <2>4. PICK seen \in RecipientRow : seen = recipient[RecipientOf[task[p].m]]
    BY <2>3, TrackingAssumption DEF TrackingInv, TypeOK
  <2>4a. person \in RecipientRow
    BY <1>1, <1>3, <2>3 DEF Ready, At
  <2>5. After(p, 1) = [task[p] EXCEPT !.calls = Rest(c, 1), !.seen = NoRow]
    BY <1>1, <1>2, <1>3, <2>1, <2>4, <2>4a, FoundReady
  <2>6. [After(p, 1) EXCEPT !.seen = recipient[RecipientOf[task[p].m]]] =
          [task[p] EXCEPT !.calls = Rest(c, 1), !.row = row, !.person = person,
                          !.seen = seen]
    BY <1>1, <1>3, <2>4, <2>5 DEF Handlers
  <2>7. Moves(p)
    <3>1. Becomes(p, [task[p] EXCEPT !.calls = Rest(c, 1), !.row = row,
                                     !.person = person, !.seen = seen])
      BY <2>1, <2>6
    <3>2. Calls(p, "selectRecipient") /\ "selectRecipient" \in OfMessage /\ "selectRecipient" \in Inner
          /\ "selectRecipient" \notin ReadsRecipient
      BY <1>2, <2>1
    <3> QED  BY <1>1, <1>3, <2>4a, <3>1, <3>2, FoundMoves
  <2> QED  BY <2>2, <2>7
<1>6. CASE UpdateMessage(p)
  <2>1. /\ Calls(p, "update") /\ UNCHANGED <<recipient, excluded, log, history>>
        /\ message' = [message EXCEPT ![task[p].m] = Merged(task[p].row, task[p].seen, @)]
        /\ Becomes(p, After(p, 1))
    BY <1>6 DEF UpdateMessage
  <2>2. /\ At(task[p], OfMessage) /\ task[p].m \in Messages /\ Len(c) \in Nat \ {0}
        /\ c[1] = "update" /\ c # <<>> /\ (Len(c) > 1 => c[2] \in Sequels("update"))
    BY <1>1, <1>2, <2>1, FirstCall
  <2>3. 1 \in 1..Len(c) /\ 1 + 1 = 2
    BY <2>2
  <2>4. task[p].row \in MessageRow /\ task[p].seen \in MessageRow
    BY <1>1, <2>2, <2>3 DEF Ready, At, Ahead
  <2>5. Merged(task[p].row, task[p].seen, message[task[p].m]) \in MessageRow
    BY <2>2, <2>4, MergedTypes DEF TrackingInv, TypeOK
  <2>6. TypeOK' /\ Noticed /\ UnsubscribeTakesHold'
    BY <2>1, <2>5 DEF TrackingInv, TypeOK, log, history, Noticed, UnsubscribeTakesHold
  <2>7. Moves(p)
    BY <1>1, <2>1, <2>2, <2>3, SequelsAre, AfterMoves
  <2> QED  BY <2>6, <2>7
<1>7. CASE UpdateRecipient(p)
  <2>1. /\ Calls(p, "updateRecipient") /\ UNCHANGED <<message, excluded, log, history>>
        /\ recipient' = [recipient EXCEPT ![RecipientOf[task[p].m]] =
                           Merged(task[p].person, task[p].seen, @)]
        /\ Becomes(p, After(p, 1))
    BY <1>7 DEF UpdateRecipient
  <2>2. /\ At(task[p], OfMessage) /\ task[p].m \in Messages /\ Len(c) \in Nat \ {0}
        /\ c[1] = "updateRecipient" /\ c # <<>>
        /\ Len(c) > 1 => c[2] \in Sequels("updateRecipient")
    BY <1>1, <1>2, <2>1, FirstCall
  <2>3. 1 \in 1..Len(c) /\ 1 + 1 = 2
    BY <2>2
  <2>4. task[p].person \in RecipientRow /\ task[p].seen \in RecipientRow
    BY <1>1, <2>2 DEF Ready, At
  <2>5. /\ RecipientOf[task[p].m] \in Recipients
        /\ Merged(task[p].person, task[p].seen, recipient[RecipientOf[task[p].m]])
             \in RecipientRow
    BY <2>2, <2>4, MergedTypes, TrackingAssumption DEF TrackingInv, TypeOK
  <2>6. TypeOK' /\ Noticed /\ UnsubscribeTakesHold'
    BY <2>1, <2>5 DEF TrackingInv, TypeOK, log, history, Noticed, UnsubscribeTakesHold
  <2>7. Moves(p)
    BY <1>1, <2>1, <2>2, <2>3, SequelsAre, AfterMoves
  <2> QED  BY <2>6, <2>7
<1> QED  BY <1>4, <1>5, <1>6, <1>7

LEMMA ReadMoves ==
  ASSUME TrackingInv, NEW p \in Processes, NEW name \in ReadsRecipient, Calls(p, name),
         NEW changed \in RecipientRow,
         Becomes(p, [After(p, 1) EXCEPT !.person = changed])
  PROVE  Moves(p)
<1>1. Ready(task[p]) /\ task[p] \in Handlers
  BY DEF TrackingInv, HandlersReady, Ready
<1>2. name \in OfMessage /\ name \in Inner /\ name # "select" /\ name # "selectRecipient"
  BY DEF OfMessage, Inner, ReadsRecipient
<1>3. PICK row \in MessageRow \cup {NoRow} : row = task[p].row
  BY <1>1 DEF Handlers
<1> DEFINE c == task[p].calls
<1>4. After(p, 1) = [task[p] EXCEPT !.calls = Rest(c, 1), !.seen = NoRow]
  BY <1>1, <1>2, <1>3, FoundReady
<1>5. [After(p, 1) EXCEPT !.person = changed] =
        [task[p] EXCEPT !.calls = Rest(c, 1), !.row = row, !.person = changed,
                        !.seen = NoRow]
  BY <1>1, <1>3, <1>4 DEF Handlers
<1>6. Becomes(p, [task[p] EXCEPT !.calls = Rest(c, 1), !.row = row, !.person = changed,
                                 !.seen = NoRow])
  BY <1>5
<1> QED  BY <1>1, <1>2, <1>3, <1>6, FoundMoves

\* The save of a recipient is passed over.
LEMMA PassMoves ==
  ASSUME TrackingInv, NEW p \in Processes, NEW name \in ReadsRecipient, Calls(p, name),
         Becomes(p, After(p, 3))
  PROVE  Moves(p)
<1>1. Ready(task[p]) /\ name \in OfMessage
  BY DEF TrackingInv, HandlersReady, OfMessage
<1> DEFINE c == task[p].calls
<1>2. At(task[p], OfMessage)
  BY <1>1, FirstCall
<1>3. /\ Len(c) \in Nat /\ Len(c) >= 3
      /\ Len(c) > 3 => c[4] \in {"logOpen", "infer", "readForHeal", "logBounce",
                                 "exclude", "readmit", "select"}
  BY <1>1, SkippedSave
<1>4. 3 \in 1..Len(c) /\ 3 + 1 = 4
  BY <1>3
<1> QED  BY <1>1, <1>2, <1>3, <1>4, AfterMoves

LEMMA RecipientReads ==
  ASSUME TrackingInv, NEW p \in Processes,
         \/ ReadForUnsubscribe(p) \/ ReadForReply(p) \/ ReadForHeal(p)
         \/ ReadForBounce(p)
  PROVE  TypeOK' /\ Moves(p) /\ Noticed /\ UnsubscribeTakesHold'
<1> DEFINE person == recipient[RecipientOf[task[p].m]]
<1>0. PICK name \in ReadsRecipient :
        \E changed :
          /\ Calls(p, name) /\ UNCHANGED <<tables, log, history>>
          /\ \/ Becomes(p, After(p, 3))
             \/ Becomes(p, Idle)
             \/ Becomes(p, [After(p, 1) EXCEPT !.person = changed])
          /\ \/ changed = [person EXCEPT !.disposition = "unsubscribed", !.status = "failed"]
             \/ changed = [person EXCEPT !.replied = TRUE, !.disposition = "paused"]
             \/ changed = [person EXCEPT !.status = "active"]
             \/ changed = [person EXCEPT !.status = "failed"]
  BY DEF ReadForUnsubscribe, ReadForReply, ReadForHeal, ReadForBounce, ReadRecipient,
         ReadsRecipient
<1>1. PICK changed :
        /\ Calls(p, name) /\ UNCHANGED <<tables, log, history>>
        /\ \/ Becomes(p, After(p, 3))
           \/ Becomes(p, Idle)
           \/ Becomes(p, [After(p, 1) EXCEPT !.person = changed])
        /\ \/ changed = [person EXCEPT !.disposition = "unsubscribed", !.status = "failed"]
           \/ changed = [person EXCEPT !.replied = TRUE, !.disposition = "paused"]
           \/ changed = [person EXCEPT !.status = "active"]
           \/ changed = [person EXCEPT !.status = "failed"]
  BY <1>0
<1>2. TypeOK' /\ Noticed /\ UnsubscribeTakesHold'
  BY <1>1 DEF TrackingInv, TypeOK, tables, log, history, Noticed, UnsubscribeTakesHold
<1>3. name \in OfMessage
  BY DEF OfMessage
<1>4. task[p].m \in Messages
  BY <1>1, <1>3, FirstCall DEF TrackingInv, HandlersReady
<1>5. person \in RecipientRow
  BY <1>4, TrackingAssumption DEF TrackingInv, TypeOK
<1> HIDE DEF person
<1>6. changed \in RecipientRow
  BY <1>1, <1>5 DEF RecipientRow
<1>7. Moves(p)
  BY <1>1, <1>6, ReadMoves, PassMoves, IdleMoves
<1> QED  BY <1>2, <1>7

\* Calls that change one table or log, and go on
LEMMA ListCalls ==
  ASSUME TrackingInv, NEW p \in Processes,
         Exclude(p) \/ Readmit(p) \/ Answer(p) \/ LogBounce(p)
  PROVE  TypeOK' /\ Moves(p) /\ Noticed /\ UnsubscribeTakesHold'
<1> DEFINE c == task[p].calls
           address == AddressOf(task[p].m)
<1>1. PICK name \in {"exclude", "readmit", "answer", "logBounce"} :
        /\ Calls(p, name)
        /\ Becomes(p, After(p, 1))
        /\ UNCHANGED <<message, recipient, recent>>
        /\ CASE name = "exclude" ->
                  /\ excluded' = excluded \cup {address}
                  /\ readmitted' = readmitted \ {address}
                  /\ UNCHANGED <<bouncedBy, wishes>>
             [] name = "readmit" ->
                  /\ excluded' = excluded \ {address}
                  /\ readmitted' = readmitted \cup {address}
                  /\ UNCHANGED <<bouncedBy, wishes>>
             [] name = "answer" ->
                  /\ wishes' = wishes \cup {address}
                  /\ UNCHANGED <<bouncedBy, excluded, readmitted>>
             [] OTHER ->
                  /\ bouncedBy' = [bouncedBy EXCEPT ![task[p].m] = task[p].by]
                  /\ UNCHANGED <<excluded, readmitted, wishes>>
  BY DEF Exclude, Readmit, Answer, LogBounce, tables, log, history
<1>2. Ready(task[p]) /\ task[p] \in Handlers /\ name \in OfMessage
  BY DEF TrackingInv, HandlersReady, Ready, OfMessage
<1>3. /\ At(task[p], OfMessage) /\ task[p].m \in Messages /\ Len(c) \in Nat \ {0}
      /\ c[1] = name /\ c # <<>> /\ (Len(c) > 1 => c[2] \in Sequels(name))
  BY <1>1, <1>2, FirstCall
<1>4. 1 \in 1..Len(c) /\ 1 + 1 = 2
  BY <1>3
<1>5. address \in Emails
  BY <1>3, TrackingAssumption DEF AddressOf
<1>6. Len(c) > 1 =>
        /\ c[2] \notin {"update", "selectRecipient", "updateRecipient"}
        /\ c[2] = "answer" => name = "exclude"
  BY <1>3, SequelsAre
<1>7. task[p].by \in Methods \cup {None}
  BY <1>2 DEF Handlers
<1>8. name = "answer" => address \in excluded \cup readmitted
  BY <1>3 DEF TrackingInv, ExcludedBeforeAnswer, At
<1> HIDE DEF address
<1>9. TypeOK' /\ Noticed /\ UnsubscribeTakesHold'
      /\ (name = "exclude" => address \in excluded')
  <2>1. CASE name = "exclude"
    BY <1>1, <1>5, <2>1 DEF TrackingInv, TypeOK, Noticed, UnsubscribeTakesHold
  <2>2. CASE name = "readmit"
    BY <1>1, <1>5, <2>2 DEF TrackingInv, TypeOK, Noticed, UnsubscribeTakesHold
  <2>3. CASE name = "answer"
    BY <1>1, <1>5, <1>8, <2>3 DEF TrackingInv, TypeOK, Noticed, UnsubscribeTakesHold
  <2>4. CASE name = "logBounce"
    BY <1>1, <1>3, <1>7, <2>4 DEF TrackingInv, TypeOK, Noticed, UnsubscribeTakesHold
  <2> QED  BY <2>1, <2>2, <2>3, <2>4
<1>10. Moves(p)
  BY <1>1, <1>2, <1>3, <1>4, <1>6, <1>9, AfterMoves DEF address
<1> QED  BY <1>9, <1>10

-----------------------------------------------------------------------------
\* Loops and events

\* A handler with a new plan
LEMMA NewMoves ==
  ASSUME NEW p \in Processes, NEW h \in Handlers, Becomes(p, h), InOrder(h.calls),
         h.calls # <<>>, h.calls[1] \notin {"update", "selectRecipient",
                                            "updateRecipient", "answer"},
         \/ h.calls[1] \in Loops \cup {"heal"} /\ Len(h.calls) < 3
         \/ /\ h.m \in Messages /\ h.row \in MessageRow
            /\ Ahead(h, "logOpen") => h.reader \in Readers
  PROVE  Moves(p)
<1>1. CASE h.calls[1] \in Loops \cup {"heal"} /\ Len(h.calls) < 3
  <2>1. Len(h.calls) \in Nat \ {0} /\ 1 \in 1..Len(h.calls) /\ 1 + 1 = 2
    BY EmptySeq, LenProperties DEF InOrder
  <2>2. Len(h.calls) > 1 => h.calls[2] \in Sequels(h.calls[1])
    BY <2>1 DEF InOrder
  <2>3. Len(h.calls) > 1 => h.calls[2] = "bounces"
    BY <1>1, <2>2, SequelsAre DEF Loops
  <2>4. \A i \in 1..Len(h.calls) : i = 1 \/ h.calls[i] = "bounces"
    BY <1>1, <2>1, <2>3
  <2>5. ~Ahead(h, "select") /\ ~Ahead(h, "update") /\ ~Ahead(h, "logOpen")
    BY <1>1, <2>4 DEF Ahead, Loops
  <2>6. ~At(h, OfMessage)
    BY <1>1 DEF At, OfMessage, ReadsRecipient, Loops
  <2>7. Ready(h) /\ ~At(h, {"answer"})
    BY <2>5, <2>6 DEF Ready, At
  <2> QED  BY <2>7 DEF Moves, Becomes
<1>2. CASE /\ h.m \in Messages /\ h.row \in MessageRow
           /\ Ahead(h, "logOpen") => h.reader \in Readers
  <2>1. Ready(h) /\ ~At(h, {"answer"})
    BY <1>2 DEF Ready, At
  <2> QED  BY <2>1 DEF Moves, Becomes
<1> QED  BY <1>1, <1>2

LEMMA IdleHandler == Idle \in Handlers /\ Idle.reader = None
BY IdleReady DEF Ready, Idle

LEMMA Arrivals ==
  ASSUME TrackingInv, NEW w \in Workers, NEW m \in Messages,
         \/ \E reader \in Readers : RecordOpen(w, m, reader)
         \/ RecordClick(w, m) \/ RecordUnsubscribe(w, m)
  PROVE  TypeOK' /\ Moves(w) /\ Noticed /\ UnsubscribeTakesHold'
<1>1. PICK calls, row, reader, h :
        /\ Becomes(w, h) /\ UNCHANGED <<tables, log, history>>
        /\ h = [Idle EXCEPT !.calls = calls, !.m = m, !.row = row, !.reader = reader]
        /\ reader \in Readers \cup {None}
        /\ \/ /\ calls = <<"unique", "select", "update", "logOpen">>
              /\ row = message[m] /\ reader \in Readers
           \/ /\ calls = <<"select", "update">>
              /\ row = [message[m] EXCEPT !.clicks = @ + 1]
           \/ /\ calls = <<"readForUnsubscribe", "selectRecipient", "updateRecipient",
                           "exclude", "answer">>
              /\ row = message[m]
  <2>1. PICK calls, row, reader :
          /\ Request(w, calls, m, row, reader)
          /\ reader \in Readers \cup {None}
          /\ \/ /\ calls = <<"unique", "select", "update", "logOpen">>
                /\ row = message[m] /\ reader \in Readers
             \/ /\ calls = <<"select", "update">>
                /\ row = [message[m] EXCEPT !.clicks = @ + 1]
             \/ /\ calls = <<"readForUnsubscribe", "selectRecipient", "updateRecipient",
                             "exclude", "answer">>
                /\ row = message[m]
    BY DEF RecordOpen, RecordClick, RecordUnsubscribe
  <2>2. PICK h : h = [Idle EXCEPT !.calls = calls, !.m = m, !.row = row,
                                  !.reader = reader]
    OBVIOUS
  <2>3. Becomes(w, h) /\ UNCHANGED <<tables, log, history>>
    BY <2>1, <2>2 DEF Request
  <2> QED  BY <2>1, <2>2, <2>3
<1>2. TypeOK' /\ Noticed /\ UnsubscribeTakesHold'
  BY <1>1 DEF TrackingInv, TypeOK, tables, log, history, Noticed, UnsubscribeTakesHold
<1>3. message[m] \in MessageRow
  BY DEF TrackingInv, TypeOK
<1>4. row \in MessageRow
  BY <1>1, <1>3 DEF MessageRow
<1>5. /\ InOrder(calls) /\ calls # <<>>
      /\ calls[1] \notin {"update", "selectRecipient", "updateRecipient", "answer"}
      /\ reader \in Readers \/ (\A i \in 1..Len(calls) : calls[i] # "logOpen")
  <2>1. CASE calls = <<"unique", "select", "update", "logOpen">> /\ reader \in Readers
    BY <2>1, PlansInOrder
  <2>2. CASE calls = <<"select", "update">>
    BY <2>2, PlansInOrder
  <2>3. CASE calls = <<"readForUnsubscribe", "selectRecipient", "updateRecipient",
                       "exclude", "answer">>
    BY <2>3, PlansInOrder
  <2> QED  BY <1>1, <2>1, <2>2, <2>3
<1>6. /\ h \in Handlers /\ h.calls = calls /\ h.m = m /\ h.row = row
      /\ h.reader = reader
  <2>1. calls \in Seq(Names)
    BY <1>5 DEF InOrder
  <2> QED  BY <1>1, <1>4, <2>1, IdleHandler DEF Handlers
<1>7. w \in Processes /\ (Ahead(h, "logOpen") => h.reader \in Readers)
  BY <1>5, <1>6 DEF Processes, Ahead
<1>8. Moves(w)
  BY <1>1, <1>4, <1>5, <1>6, <1>7, NewMoves
<1> QED  BY <1>2, <1>8

LEMMA ReplyArrives ==
  ASSUME TrackingInv, NEW m \in Messages, ProcessReply(m)
  PROVE  TypeOK' /\ Moves(Reply) /\ Noticed /\ UnsubscribeTakesHold'
<1> DEFINE first == <<"readForReply", "selectRecipient", "updateRecipient">>
           open == <<"select", "update">>
           all == <<"readForReply", "selectRecipient", "updateRecipient",
                    "select", "update">>
<1>1. InOrder(first) /\ InOrder(open) /\ InOrder(all)
  <2>1. InOrder(all)
    BY SequelsAre DEF InOrder, Names, OfMessage, ReadsRecipient, Loops, Inner
  <2> QED  BY <2>1, PlansInOrder
<1>2. first \o <<>> = first /\ first \o open = all
  <2>1. first \in Seq(Names) /\ open \in Seq(Names) /\ all \in Seq(Names)
    BY <1>1 DEF InOrder
  <2> DEFINE joined == first \o open
  <2>2. joined \in Seq(Names) /\ Len(joined) = 5 /\ Len(all) = 5
    BY <2>1
  <2>3. \A i \in 1..5 : joined[i] = all[i]
    OBVIOUS
  <2>4. first \o <<>> = first
    BY <2>1, ConcatEmptySeq
  <2> HIDE DEF joined, all
  <2>5. joined = all
    BY <2>1, <2>2, <2>3, SeqEqual
  <2> QED  BY <2>4, <2>5 DEF joined
<1>a. PICK calls \in {first, all} :
        /\ UNCHANGED <<tables, log, history>>
        /\ Becomes(Reply, [Idle EXCEPT !.calls = calls, !.m = m,
                                       !.row = [message[m] EXCEPT !.opens = 1]])
  <2>1. CASE message[m].opens = 0
    <3>1. UNCHANGED <<tables, log, history>>
          /\ Becomes(Reply, [Idle EXCEPT !.calls = first \o open, !.m = m,
                                         !.row = [message[m] EXCEPT !.opens = 1]])
      BY <2>1 DEF ProcessReply
    <3> HIDE DEF first, open, all
    <3> QED  BY <1>2, <3>1
  <2>2. CASE message[m].opens # 0
    <3>1. UNCHANGED <<tables, log, history>>
          /\ Becomes(Reply, [Idle EXCEPT !.calls = first \o <<>>, !.m = m,
                                         !.row = [message[m] EXCEPT !.opens = 1]])
      BY <2>2 DEF ProcessReply
    <3> HIDE DEF first, open, all
    <3> QED  BY <1>2, <3>1
  <2> QED  BY <2>1, <2>2
<1>3. PICK h :
        /\ calls \in {first, all}
        /\ UNCHANGED <<tables, log, history>>
        /\ Becomes(Reply, h)
        /\ h = [Idle EXCEPT !.calls = calls, !.m = m,
                            !.row = [message[m] EXCEPT !.opens = 1]]
  <2> HIDE DEF first, all
  <2> QED  BY <1>a
<1>4. TypeOK' /\ Noticed /\ UnsubscribeTakesHold'
  BY <1>3 DEF TrackingInv, TypeOK, tables, log, history, Noticed, UnsubscribeTakesHold
<1>5. /\ calls # <<>>
      /\ calls[1] \notin {"update", "selectRecipient", "updateRecipient", "answer"}
      /\ \A i \in 1..Len(calls) : calls[i] # "logOpen"
  <2>1. CASE calls = first
    BY <2>1
  <2>2. CASE calls = all
    BY <2>2
  <2> HIDE DEF first, all
  <2> QED  BY <1>3, <2>1, <2>2
<1> HIDE DEF first, open, all
<1>6. PICK row \in MessageRow : row = [message[m] EXCEPT !.opens = 1]
  BY DEF TrackingInv, TypeOK, MessageRow
<1>7. InOrder(calls) /\ calls \in Seq(Names)
  BY <1>1, <1>3 DEF InOrder
<1>8. h \in Handlers /\ h.calls = calls /\ h.m = m /\ h.row = row
  BY <1>3, <1>6, <1>7, IdleHandler DEF Handlers
<1>9. Reply \in Processes /\ ~Ahead(h, "logOpen")
  BY <1>5, <1>8 DEF Processes, Ahead
<1>10. Moves(Reply)
  BY <1>3, <1>5, <1>6, <1>7, <1>8, <1>9, NewMoves
<1> QED  BY <1>4, <1>10

LEMMA BounceArrives ==
  ASSUME TrackingInv, NEW m \in Messages, NEW method \in Methods, ProcessBounce(m, method)
  PROVE  TypeOK' /\ Moves(Bounce) /\ Noticed /\ UnsubscribeTakesHold'
<1> DEFINE all == <<"select", "update", "logBounce", "readForBounce",
                    "selectRecipient", "updateRecipient", "exclude", "bounces">>
<1>1. PICK calls, row, h :
        /\ calls = all
        /\ row = [message[m] EXCEPT !.status = "bounced"]
        /\ UNCHANGED <<tables, log, history>>
        /\ Becomes(Bounce, h)
        /\ h = [Idle EXCEPT !.calls = calls, !.m = m, !.row = row, !.by = method]
  <2>1. /\ UNCHANGED <<tables, log, history>>
        /\ Becomes(Bounce, [Idle EXCEPT !.calls = all, !.m = m,
             !.row = [message[m] EXCEPT !.status = "bounced"], !.by = method])
    BY DEF ProcessBounce
  <2> HIDE DEF all
  <2> QED  BY <2>1
<1>2. TypeOK' /\ Noticed /\ UnsubscribeTakesHold'
  BY <1>1 DEF TrackingInv, TypeOK, tables, log, history, Noticed, UnsubscribeTakesHold
<1>3. row \in MessageRow
  BY <1>1 DEF TrackingInv, TypeOK, MessageRow
<1>4. /\ InOrder(calls) /\ calls # <<>>
      /\ calls[1] \notin {"update", "selectRecipient", "updateRecipient", "answer"}
      /\ \A i \in 1..Len(calls) : calls[i] # "logOpen"
  BY <1>1, PlansInOrder
<1>5. /\ h \in Handlers /\ h.calls = calls /\ h.m = m /\ h.row = row
      /\ h.reader = None
  <2>1. calls \in Seq(Names)
    BY <1>4 DEF InOrder
  <2> QED  BY <1>1, <1>3, <2>1, IdleHandler DEF Handlers
<1>6. Bounce \in Processes /\ ~Ahead(h, "logOpen")
  BY <1>4, <1>5 DEF Processes, Ahead
<1>7. Moves(Bounce)
  BY <1>1, <1>3, <1>4, <1>5, <1>6, NewMoves
<1> QED  BY <1>2, <1>7

\* A loop that goes on with what it has loaded
LEMMA TurnMoves ==
  ASSUME NEW p \in Processes, NEW calls, InOrder(calls), calls # <<>>, calls[1] \in Loops,
         NEW todo \in [Messages -> MessageRow \cup {NoRow}],
         Becomes(p, [Idle EXCEPT !.calls = calls, !.todo = todo])
  PROVE  Moves(p)
<1> DEFINE h == [Idle EXCEPT !.calls = calls, !.todo = todo]
<1>1. Ready(h)
  BY TurnReady
<1>2. task' = [task EXCEPT ![p] = h] /\ h.calls = calls
  BY DEF Becomes, Idle
<1> HIDE DEF h
<1>3. ~At(h, {"answer"})
  BY <1>2 DEF At, Loops
<1> QED  BY <1>1, <1>2, <1>3 DEF Moves

LEMMA LoadCalls ==
  ASSUME TrackingInv, NEW p \in Processes,
         BackfillInferredOpens(p) \/ HealFalseBounces(p)
  PROVE  TypeOK' /\ Moves(p) /\ Noticed /\ UnsubscribeTakesHold'
<1>1. UNCHANGED <<tables, log, wishes, readmitted>>
  BY DEF BackfillInferredOpens, HealFalseBounces, history
<1>2. TypeOK' /\ Noticed /\ UnsubscribeTakesHold'
  BY <1>1 DEF TrackingInv, TypeOK, tables, log, Noticed, UnsubscribeTakesHold
<1>3. \A m \in Messages : message[m] \in MessageRow
  BY DEF TrackingInv, TypeOK
<1>4. CASE BackfillInferredOpens(p)
  <2> DEFINE found == [m \in Messages |->
                IF /\ m \in Unopened
                   /\ \A n \in Unopened :
                        RecipientOf[n] = RecipientOf[m] => SentAt[n] <= SentAt[m]
                THEN message[m] ELSE NoRow]
  <2>1. found \in [Messages -> MessageRow \cup {NoRow}]
    BY <1>3
  <2>2. Becomes(p, [Idle EXCEPT !.calls = <<"infer">>, !.todo = found])
    BY <1>4 DEF BackfillInferredOpens
  <2> HIDE DEF found
  <2>3. PICK calls : calls = <<"infer">>
    OBVIOUS
  <2>4. InOrder(calls) /\ calls # <<>> /\ calls[1] \in Loops
    BY <2>3, PlansInOrder DEF Loops
  <2> QED  BY <1>2, <2>1, <2>2, <2>3, <2>4, TurnMoves
<1>5. CASE HealFalseBounces(p)
  <2> DEFINE found == [m \in Messages |->
                IF message[m].status = "bounced" /\ Engaged(message[m])
                THEN message[m] ELSE NoRow]
  <2>1. found \in [Messages -> MessageRow \cup {NoRow}]
    BY <1>3
  <2>2. PICK calls : calls = IF p = Bounce THEN <<"revert", "bounces">> ELSE <<"revert">>
    OBVIOUS
  <2>3. Becomes(p, [Idle EXCEPT !.calls = calls, !.todo = found])
    BY <1>5, <2>2 DEF HealFalseBounces
  <2> HIDE DEF found
  <2>4. InOrder(calls) /\ calls # <<>> /\ calls[1] \in Loops
    BY <2>2, PlansInOrder DEF Loops
  <2> QED  BY <1>2, <2>1, <2>3, <2>4, TurnMoves
<1> QED  BY <1>4, <1>5

LEMMA InferMoves ==
  ASSUME TrackingInv, NEW p \in Processes, InferOpen(p)
  PROVE  TypeOK' /\ Moves(p) /\ Noticed /\ UnsubscribeTakesHold'
<1>1. UNCHANGED <<tables, log, wishes, readmitted>>
  BY DEF InferOpen, history
<1>2. TypeOK' /\ Noticed /\ UnsubscribeTakesHold'
  BY <1>1 DEF TrackingInv, TypeOK, tables, log, Noticed, UnsubscribeTakesHold
<1>3. task[p] \in Handlers
  BY DEF TrackingInv, HandlersReady
<1>4. CASE Becomes(p, Idle)
  BY <1>2, <1>4, IdleMoves
<1>5. ASSUME NEW m \in Messages, task[p].todo[m] # NoRow,
             Becomes(p, [task[p] EXCEPT
                 !.calls = <<"select", "update", "infer">>,
                 !.m = m,
                 !.row = [task[p].todo[m] EXCEPT !.opens = @ + 1],
                 !.todo[m] = NoRow])
      PROVE  Moves(p)
  <2>1. task[p].todo[m] \in MessageRow /\ task[p].todo \in [Messages -> MessageRow \cup {NoRow}]
    BY <1>3, <1>5 DEF Handlers
  <2>2. PICK row \in MessageRow : row = [task[p].todo[m] EXCEPT !.opens = @ + 1]
    BY <2>1, OpenedRow
  <2>3. PICK todo \in [Messages -> MessageRow \cup {NoRow}] :
          todo = [task[p].todo EXCEPT ![m] = NoRow]
    BY <2>1
  <2>4. PICK calls : calls = <<"select", "update", "infer">>
    OBVIOUS
  <2>5. PICK h : h = [task[p] EXCEPT !.calls = calls, !.m = m, !.row = row, !.todo = todo]
    OBVIOUS
  <2>6. Becomes(p, h)
    BY <1>3, <1>5, <2>2, <2>3, <2>4, <2>5 DEF Handlers
  <2>7. /\ InOrder(calls) /\ calls # <<>>
        /\ calls[1] \notin {"update", "selectRecipient", "updateRecipient", "answer"}
        /\ \A i \in 1..Len(calls) : calls[i] # "logOpen"
    BY <2>4, PlansInOrder
  <2>8. h \in Handlers /\ h.calls = calls /\ h.m = m /\ h.row = row
    BY <1>3, <2>5, <2>7 DEF Handlers, InOrder
  <2>9. ~Ahead(h, "logOpen")
    BY <2>7, <2>8 DEF Ahead
  <2> QED  BY <2>2, <2>6, <2>7, <2>8, <2>9, NewMoves
<1> QED  BY <1>2, <1>4, <1>5 DEF InferOpen

LEMMA RevertMoves ==
  ASSUME TrackingInv, NEW p \in Processes, RevertFalseBounce(p)
  PROVE  TypeOK' /\ Moves(p) /\ Noticed /\ UnsubscribeTakesHold'
<1>1. UNCHANGED <<tables, log, wishes, readmitted>> /\ Calls(p, "revert")
  BY DEF RevertFalseBounce, history
<1>2. TypeOK' /\ Noticed /\ UnsubscribeTakesHold'
  BY <1>1 DEF TrackingInv, TypeOK, tables, log, Noticed, UnsubscribeTakesHold
<1> DEFINE c == task[p].calls
<1>3. Ready(task[p]) /\ task[p] \in Handlers
  BY DEF TrackingInv, HandlersReady
<1>4. /\ c \in Seq(Names) /\ InOrder(c) /\ c # <<>> /\ Len(c) \in Nat \ {0}
      /\ c[1] = "revert" /\ 1 \in 1..Len(c)
  BY <1>1, <1>3, FirstCall
<1>5. \A i \in 1..Len(c) : c[i] \in Loops
  BY <1>4, LoopsLast DEF Loops
<1>6. task[p].todo \in [Messages -> MessageRow \cup {NoRow}]
  BY <1>3 DEF Handlers
<1> HIDE DEF c
<1>7. CASE Becomes(p, After(p, 1))
  <2> DEFINE left == Rest(c, 1)
  <2>1. /\ InOrder(left) /\ Len(left) = Len(c) - 1
        /\ \A i \in 1..Len(left) : left[i] = c[i + 1]
    BY <1>4, RestInOrder
  <2>2. CASE left = <<>>
    <3>1. After(p, 1) = Idle
      BY <2>2 DEF After, Rest, c
    <3>2. Becomes(p, Idle)
      BY <1>7, <3>1 DEF Becomes
    <3> QED  BY <1>2, <3>2, IdleMoves
  <2>3. CASE left # <<>>
    <3>1. 1 \in 1..Len(left) /\ Head(left) = left[1]
      BY <2>1, <2>3, EmptySeq, LenProperties, HeadTailProperties DEF InOrder
    <3>2. left[1] \in Loops
      <4>1. 1 + 1 \in 1..Len(c) /\ left[1] = c[1 + 1]
        BY <1>4, <2>1, <3>1
      <4> QED  BY <1>5, <4>1
    <3>3. After(p, 1) = [Idle EXCEPT !.calls = left, !.todo = task[p].todo]
      BY <2>3, <3>1, <3>2 DEF After, Rest, c
    <3> HIDE DEF left
    <3>4. Becomes(p, [Idle EXCEPT !.calls = left, !.todo = task[p].todo])
      BY <1>7, <3>3 DEF Becomes
    <3> QED  BY <1>2, <1>6, <2>1, <2>3, <3>2, <3>4, TurnMoves
  <2> QED  BY <2>2, <2>3
<1>8. ASSUME NEW m \in Messages, task[p].todo[m] # NoRow,
             Becomes(p, [task[p] EXCEPT
                        !.calls = Repair \o @, !.m = m, !.todo[m] = NoRow,
                        !.row = [task[p].todo[m] EXCEPT !.status = "sent"]])
      PROVE  Moves(p)
  <2>1. task[p].todo[m] \in MessageRow
    BY <1>6, <1>8
  <2>2. PICK row \in MessageRow : row = [task[p].todo[m] EXCEPT !.status = "sent"]
    BY <2>1 DEF MessageRow
  <2>3. PICK todo \in [Messages -> MessageRow \cup {NoRow}] :
          todo = [task[p].todo EXCEPT ![m] = NoRow]
    BY <1>6
  <2>4. /\ InOrder(Repair) /\ Repair # <<>> /\ Repair \in Seq(Names) /\ Len(Repair) = 6
        /\ Repair[1] = "select" /\ Repair[6] = "readmit"
        /\ \A i \in 1..6 : Repair[i] # "logOpen"
    BY PlansInOrder DEF Repair, InOrder
  <2>5. c[1] \in Sequels(Repair[Len(Repair)])
    BY <1>4, <2>4, SequelsAre
  <2>6. PICK calls : calls = Repair \o c
    OBVIOUS
  <2>7. InOrder(calls) /\ calls # <<>> /\ calls[1] = "select"
    BY <1>4, <2>4, <2>5, <2>6, JoinInOrder
  <2>8. \A i \in 1..Len(calls) : calls[i] # "logOpen"
    <3>1. /\ Len(calls) = 6 + Len(c)
          /\ \A i \in 1..6 : calls[i] = Repair[i]
          /\ \A i \in 1..Len(c) : calls[i + 6] = c[i]
      <4>1. PICK first : first = Repair
        OBVIOUS
      <4>2. first \in Seq(Names) /\ Len(first) = 6 /\ calls = first \o c
        BY <2>4, <2>6, <4>1
      <4>3. /\ Len(first \o c) = Len(first) + Len(c)
            /\ \A i \in 1..Len(first) : (first \o c)[i] = first[i]
            /\ \A i \in 1..Len(c) : (first \o c)[i + Len(first)] = c[i]
        <5>1. c \in Seq(Names) /\ first \in Seq(Names)
          BY <1>4, <4>2
        <5>2. ASSUME NEW a \in Seq(Names), NEW b \in Seq(Names)
              PROVE  /\ Len(a \o b) = Len(a) + Len(b)
                     /\ \A i \in 1..Len(a) : (a \o b)[i] = a[i]
                     /\ \A i \in 1..Len(b) : (a \o b)[i + Len(a)] = b[i]
          BY LenProperties
        <5> QED  BY <5>1, <5>2
      <4>4. /\ Len(calls) = 6 + Len(c)
            /\ \A i \in 1..6 : calls[i] = first[i]
            /\ \A i \in 1..Len(c) : calls[i + 6] = c[i]
        BY <4>2, <4>3
      <4> QED  BY <4>1, <4>4
    <3>2. ASSUME NEW i \in 1..Len(calls)  PROVE calls[i] # "logOpen"
      <4>1. CASE i <= 6
        BY <2>4, <3>1, <4>1
      <4>2. CASE i > 6
        <5>1. i - 6 \in 1..Len(c) /\ (i - 6) + 6 = i
          BY <1>4, <3>1, <4>2
        <5>2. calls[i] \in Loops
          BY <1>5, <3>1, <5>1
        <5> QED  BY <5>2 DEF Loops
      <4> QED  BY <1>4, <3>1, <4>1, <4>2
    <3> QED  BY <3>2
  <2>9. PICK h : h = [task[p] EXCEPT !.calls = calls, !.m = m, !.row = row, !.todo = todo]
    OBVIOUS
  <2>10. Becomes(p, h)
    BY <1>3, <1>8, <2>2, <2>3, <2>6, <2>9 DEF Handlers, c
  <2>11. h \in Handlers /\ h.calls = calls /\ h.m = m /\ h.row = row
    BY <1>3, <2>7, <2>9 DEF Handlers, InOrder
  <2>12. ~Ahead(h, "logOpen")
    BY <2>8, <2>11 DEF Ahead
  <2> QED  BY <2>2, <2>7, <2>10, <2>11, <2>12, NewMoves
<1>9. ASSUME NEW m \in Messages, Becomes(p, [task[p] EXCEPT !.todo[m] = NoRow])
      PROVE  Moves(p)
  <2>1. PICK todo \in [Messages -> MessageRow \cup {NoRow}] :
          todo = [task[p].todo EXCEPT ![m] = NoRow]
    BY <1>6
  <2>2. PICK h : h = [task[p] EXCEPT !.todo = todo]
    OBVIOUS
  <2>3. Becomes(p, h)
    BY <1>3, <1>9, <2>1, <2>2 DEF Handlers
  <2>4. /\ h \in Handlers /\ h.calls = c /\ h.m = task[p].m /\ h.row = task[p].row
        /\ h.seen = task[p].seen /\ h.person = task[p].person
        /\ h.reader = task[p].reader
    BY <1>3, <2>2 DEF Handlers, c
  <2>5. Ready(h)
    BY <1>3, <2>4 DEF Ready, At, Ahead, c
  <2>6. ~At(h, {"answer"})
    BY <1>4, <2>4 DEF At
  <2> QED  BY <2>3, <2>5, <2>6 DEF Moves, Becomes
<1> QED  BY <1>1, <1>2, <1>7, <1>8, <1>9 DEF RevertFalseBounce

-----------------------------------------------------------------------------
\* Steps that are no call of a handler

LEMMA EndsMove ==
  ASSUME TrackingInv, NEW p \in Processes,
         HandlerFails(p) \/ (p = Bounce /\ CloseInbox)
  PROVE  TypeOK' /\ Moves(p) /\ Noticed /\ UnsubscribeTakesHold'
<1>1. UNCHANGED <<tables, log, history>> /\ Becomes(p, Idle)
  BY DEF HandlerFails, CloseInbox
<1>2. TypeOK' /\ Noticed /\ UnsubscribeTakesHold'
  BY <1>1 DEF TrackingInv, TypeOK, tables, log, history, Noticed, UnsubscribeTakesHold
<1> QED  BY <1>1, <1>2, IdleMoves

\* Handlers that stay where they are, or start again
LEMMA StillReady ==
  ASSUME TrackingInv,
         UNCHANGED task \/ task' = Booting,
         Noticed
  PROVE  HandlersReady' /\ ExcludedBeforeAnswer'
<1>1. CASE UNCHANGED task
  BY <1>1 DEF TrackingInv, HandlersReady, ExcludedBeforeAnswer, Noticed
<1>2. CASE task' = Booting
  <2>1. PICK h : h = [Idle EXCEPT !.calls = <<"heal">>]
    OBVIOUS
  <2>2. PICK calls : calls = <<"heal">>
    OBVIOUS
  <2>3. InOrder(calls) /\ Len(calls) = 1 /\ calls[1] = "heal"
    BY <2>2, PlansInOrder
  <2>4. h \in Handlers /\ h.calls = calls
    BY <2>1, <2>2, <2>3, IdleHandler DEF Handlers, InOrder
  <2>5. /\ ~At(h, OfMessage) /\ ~At(h, {"update"}) /\ ~At(h, {"answer"})
        /\ ~At(h, {"selectRecipient", "updateRecipient"}) /\ ~At(h, {"updateRecipient"})
        /\ ~Ahead(h, "select") /\ ~Ahead(h, "update") /\ ~Ahead(h, "logOpen")
    BY <2>3, <2>4 DEF At, Ahead, OfMessage, ReadsRecipient
  <2>6. Ready(h)
    BY <2>3, <2>4, <2>5 DEF Ready
  <2>7. task' = [p \in Processes |-> IF p = Boot THEN h ELSE Idle]
    BY <1>2, <2>1 DEF Booting
  <2>8. ~At(Idle, {"answer"})
    BY IdleReady DEF At
  <2> QED
    BY <2>4, <2>5, <2>6, <2>7, <2>8, IdleReady, IdleHandler
    DEF HandlersReady, ExcludedBeforeAnswer
<1> QED  BY <1>1, <1>2

LEMMA OtherSteps ==
  ASSUME TrackingInv,
         \/ \E e \in Emails : RemoveExclusion(e)
         \/ \E m \in Messages : RecentOpensAge(m)
         \/ Restart
         \/ UNCHANGED vars
  PROVE  TrackingInv'
<1>1. TypeOK' /\ Noticed /\ UnsubscribeTakesHold'
  <2>1. ASSUME NEW e \in Emails, RemoveExclusion(e)
        PROVE  TypeOK' /\ Noticed /\ UnsubscribeTakesHold'
    BY <2>1 DEF TrackingInv, TypeOK, log, RemoveExclusion, Noticed, UnsubscribeTakesHold
  <2>2. ASSUME NEW m \in Messages, RecentOpensAge(m)
        PROVE  TypeOK' /\ Noticed /\ UnsubscribeTakesHold'
    BY <2>2 DEF TrackingInv, TypeOK, tables, RecentOpensAge, Noticed, UnsubscribeTakesHold
  <2>3. CASE Restart \/ UNCHANGED vars
    BY <2>3 DEF TrackingInv, TypeOK, tables, log, history, vars, Restart, Noticed,
                UnsubscribeTakesHold
  <2> QED  BY <2>1, <2>2, <2>3
<1>2. UNCHANGED task \/ task' = Booting
  BY DEF RemoveExclusion, RecentOpensAge, Restart, vars
<1>3. HandlersReady' /\ ExcludedBeforeAnswer'
  BY <1>1, <1>2, StillReady
<1> QED  BY <1>1, <1>3 DEF TrackingInv

-----------------------------------------------------------------------------
\* The invariant, and the theorems

LEMMA InitTracking == Init => TrackingInv
<1> SUFFICES ASSUME Init  PROVE TrackingInv
  OBVIOUS
<1>1. TypeOK
  BY DEF Init, TypeOK, MessageRow, RecipientRow
<1>2. task = [p \in Processes |-> Idle]
  BY DEF Init
<1>3. ~At(Idle, {"answer"})
  BY IdleReady DEF At
<1>4. HandlersReady /\ ExcludedBeforeAnswer
  BY <1>2, <1>3, IdleReady, IdleHandler DEF HandlersReady, ExcludedBeforeAnswer
<1>5. UnsubscribeTakesHold
  BY DEF Init, UnsubscribeTakesHold
<1> QED  BY <1>1, <1>4, <1>5 DEF TrackingInv

LEMMA CallKeeps ==
  ASSUME TrackingInv, NEW p \in Processes, Call(p)
  PROVE  TypeOK' /\ Moves(p) /\ Noticed /\ UnsubscribeTakesHold'
<1>1. CASE IsUniqueOpen(p) \/ LogOpen(p)
  BY <1>1, OpenCalls
<1>2. CASE SelectMessage(p) \/ UpdateMessage(p) \/ SelectRecipient(p) \/ UpdateRecipient(p)
  BY <1>2, SaveCalls
<1>3. CASE \/ ReadForUnsubscribe(p) \/ ReadForReply(p) \/ ReadForHeal(p)
           \/ ReadForBounce(p)
  BY <1>3, RecipientReads
<1>4. CASE Exclude(p) \/ Readmit(p) \/ Answer(p) \/ LogBounce(p)
  BY <1>4, ListCalls
<1>5. CASE InferOpen(p)
  BY <1>5, InferMoves
<1>6. CASE HealFalseBounces(p)
  BY <1>6, LoadCalls
<1>7. CASE RevertFalseBounce(p)
  BY <1>7, RevertMoves
<1> QED  BY <1>1, <1>2, <1>3, <1>4, <1>5, <1>6, <1>7 DEF Call

LEMMA IncomingKeeps ==
  ASSUME TrackingInv, Incoming
  PROVE  TrackingInv' \/ \E p \in Processes :
           TypeOK' /\ Moves(p) /\ Noticed /\ UnsubscribeTakesHold'
<1>1. Workers \cup {Reply, Bounce} \subseteq Processes
  BY DEF Processes
<1>2. ASSUME NEW w \in Workers, NEW m \in Messages,
             \/ \E reader \in Readers : RecordOpen(w, m, reader)
             \/ RecordClick(w, m) \/ RecordUnsubscribe(w, m)
      PROVE  TypeOK' /\ Moves(w) /\ Noticed /\ UnsubscribeTakesHold'
  BY <1>2, Arrivals
<1>3. ASSUME NEW p \in Workers \cup {Reply}, BackfillInferredOpens(p)
      PROVE  TypeOK' /\ Moves(p) /\ Noticed /\ UnsubscribeTakesHold'
  BY <1>1, <1>3, LoadCalls
<1>4. ASSUME NEW e \in Emails, RemoveExclusion(e)  PROVE TrackingInv'
  BY <1>4, OtherSteps
<1>5. ASSUME NEW m \in Messages, ProcessReply(m)
      PROVE  TypeOK' /\ Moves(Reply) /\ Noticed /\ UnsubscribeTakesHold'
  BY <1>5, ReplyArrives
<1>6. ASSUME NEW m \in Messages, NEW method \in Methods, ProcessBounce(m, method)
      PROVE  TypeOK' /\ Moves(Bounce) /\ Noticed /\ UnsubscribeTakesHold'
  BY <1>6, BounceArrives
<1> QED  BY <1>1, <1>2, <1>3, <1>4, <1>5, <1>6 DEF Incoming

LEMMA NextTracking == TrackingInv /\ [Next]_vars => TrackingInv'
<1> SUFFICES ASSUME TrackingInv, [Next]_vars  PROVE TrackingInv'
  OBVIOUS
<1>1. ASSUME NEW p \in Processes,
             TypeOK' /\ Moves(p) /\ Noticed /\ UnsubscribeTakesHold'
      PROVE  TrackingInv'
  BY <1>1, MovesKeep DEF TrackingInv
<1>2. CASE Incoming
  BY <1>1, <1>2, IncomingKeeps
<1>3. CASE CloseInbox
  BY <1>1, <1>3, EndsMove DEF Processes
<1>4. CASE \E p \in Processes : Call(p) \/ HandlerFails(p)
  BY <1>1, <1>4, CallKeeps, EndsMove
<1>5. CASE (\E m \in Messages : RecentOpensAge(m)) \/ Restart \/ UNCHANGED vars
  BY <1>5, OtherSteps
<1> QED  BY <1>2, <1>3, <1>4, <1>5 DEF Next

LEMMA TrackingHolds == Spec => []TrackingInv
BY InitTracking, NextTracking, PTL DEF Spec

\* The tables and logs keep their types, whatever saves of a row race: a save
\* writes a row that its handler has read, and never one half of two kinds.
THEOREM TablesTyped == Spec => []TypeOK
<1>1. TrackingInv => TypeOK
  BY DEF TrackingInv
<1> QED  BY <1>1, TrackingHolds, PTL

\* Who was shown the page that he is unsubscribed is on the exclusion list, until
\* an operator or a reverted bounce takes him off, whichever calls fail between.
THEOREM UnsubscribeIsKept == Spec => []UnsubscribeTakesHold
<1>1. TrackingInv => UnsubscribeTakesHold
  BY DEF TrackingInv
<1> QED  BY <1>1, TrackingHolds, PTL

-----------------------------------------------------------------------------
(***************************************************************************)
(* Opens are counted once.  A reading that is counted stands as long as    *)
(* the next hit of its reader is recognised: its event is logged, its      *)
(* handler is about to log it, or its five minutes are over.  A row copy   *)
(* never has more opens than there are readings that stand, hits that      *)
(* overlapped, and handlers that ended early.                              *)
(***************************************************************************)
OpenPlan == <<"unique", "select", "update", "logOpen">>

\* Who counts an open is somewhere in the plan for it.
Planned(h) ==
  IF h.reader = None
  THEN ~Ahead(h, "unique")
  ELSE /\ h.reader \in Readers
       /\ Len(h.calls) \in 1..4
       /\ \A i \in 1..Len(h.calls) : h.calls[i] = OpenPlan[i + (4 - Len(h.calls))]

\* The event of this reading of m is logged, about to be, or no longer needed.
Stands(m, x) ==
  x[2] = epoch[m] =>
    \/ x[1] \in recent[m]
    \/ \E p \in Processes : /\ task[p].m = m /\ task[p].reader = x[1]
                             /\ ~At(task[p], {"unique"})

Standing(m) == {x \in readings[m] : Stands(m, x)}
Slack(m) == Cardinality(Standing(m)) + overlaps[m] + failures

Copied(h) ==
  /\ h.row # NoRow => h.m \in Messages /\ h.row.opens <= Slack(h.m) + 1
  /\ \A m \in Messages :
       h.todo[m] # NoRow =>
         /\ h.todo[m].opens <= Slack(m) + 1
         /\ Ahead(h, "infer") => h.todo[m].opens = 0

CountsTyped ==
  /\ epoch \in [Messages -> Nat]
  /\ overlaps \in [Messages -> Nat]
  /\ failures \in Nat
  /\ readings \in [Messages -> SUBSET (Readers \X Nat)]
  /\ \A m \in Messages :
       IsFiniteSet(readings[m]) /\ \A x \in readings[m] : x[2] <= epoch[m]

MessagesFit == \A m \in Messages : message[m].opens <= Slack(m) + 1

CountInv ==
  /\ CountsTyped
  /\ \A p \in Processes : Planned(task[p]) /\ Copied(task[p])
  /\ MessagesFit

\* What a step keeps of the counts
Grows ==
  \A m \in Messages : Slack(m) \in Nat /\ Slack(m)' \in Nat /\ Slack(m) <= Slack(m)'

\* A handler that has counted an open goes on to log its event.
Keeps(h, g) ==
  h.reader # None /\ ~At(h, {"unique"}) =>
    g.m = h.m /\ g.reader = h.reader /\ ~At(g, {"unique"})

CountMoves(p) ==
  \E h \in Handlers : task' = [task EXCEPT ![p] = h] /\ Planned(h) /\ Copied(h)'

CountStep(p) == CountsTyped' /\ Grows /\ CountMoves(p) /\ MessagesFit'

\* What is lost between two finite sets is at most what P lost.
LEMMA LossBound ==
  ASSUME NEW A, NEW B, NEW P, NEW f, IsFiniteSet(A), IsFiniteSet(B), IsFiniteSet(P),
         \A x \in A \ B : \E p \in P : f[p] = x
  PROVE  Cardinality(A) <= Cardinality(B) + Cardinality(P)
<1> DEFINE D == A \ B
           Q == {p \in P : f[p] \in D}
           g == [p \in Q |-> f[p]]
<1>1. IsFiniteSet(Q) /\ Cardinality(Q) <= Cardinality(P)
  BY FS_Subset
<1>2. g \in Surjection(Q, D)
  BY DEF Surjection
<1> HIDE DEF g, Q
<1>3. IsFiniteSet(D) /\ Cardinality(D) <= Cardinality(Q)
  BY <1>1, <1>2, FS_Surjection
<1>4. /\ IsFiniteSet(B \cup D)
      /\ Cardinality(B \cup D) = Cardinality(B) + Cardinality(D) - Cardinality(B \cap D)
  BY <1>3, FS_Union
<1>5. IsFiniteSet(B \cap D) /\ A \in SUBSET (B \cup D)
  BY <1>3, FS_Intersection
<1>6. Cardinality(A) <= Cardinality(B \cup D)
  BY <1>4, <1>5, FS_Subset
<1>7. /\ Cardinality(A) \in Nat /\ Cardinality(B) \in Nat /\ Cardinality(D) \in Nat
      /\ Cardinality(P) \in Nat /\ Cardinality(Q) \in Nat
      /\ Cardinality(B \cap D) \in Nat /\ Cardinality(B \cup D) \in Nat
  BY <1>1, <1>3, <1>4, <1>5, FS_CardinalityType
<1> HIDE DEF D
<1> QED  BY <1>1, <1>3, <1>4, <1>6, <1>7

LEMMA SlackTypes ==
  ASSUME CountsTyped, NEW m \in Messages
  PROVE  IsFiniteSet(Standing(m)) /\ Slack(m) \in Nat
<1>1. Standing(m) \in SUBSET readings[m] /\ IsFiniteSet(readings[m])
  BY DEF CountsTyped, Standing
<1>2. IsFiniteSet(Standing(m)) /\ Cardinality(Standing(m)) \in Nat
  BY <1>1, FS_Subset, FS_CardinalityType
<1> QED  BY <1>2 DEF CountsTyped, Slack

LEMMA SlackTypesNext ==
  ASSUME CountsTyped', NEW m \in Messages
  PROVE  IsFiniteSet(Standing(m)') /\ Slack(m)' \in Nat
<1>1. Standing(m)' \in SUBSET readings'[m] /\ IsFiniteSet(readings'[m])
  BY DEF CountsTyped, Standing
<1>2. IsFiniteSet(Standing(m)') /\ Cardinality(Standing(m)') \in Nat
  BY <1>1, FS_Subset, FS_CardinalityType
<1> QED  BY <1>2 DEF CountsTyped, Slack

\* Where every reading goes on to stand, the slack does not shrink.
LEMMA StandGrows ==
  ASSUME CountsTyped, CountsTyped', NEW m \in Messages,
         Standing(m) \subseteq Standing(m)',
         overlaps[m] <= overlaps'[m], failures <= failures'
  PROVE  Slack(m) \in Nat /\ Slack(m)' \in Nat /\ Slack(m) <= Slack(m)'
<1>1. Slack(m) \in Nat /\ Slack(m)' \in Nat
      /\ IsFiniteSet(Standing(m)) /\ IsFiniteSet(Standing(m)')
  BY SlackTypes, SlackTypesNext
<1>2. Cardinality(Standing(m)) <= Cardinality(Standing(m)')
  BY <1>1, FS_Subset
<1>3. Cardinality(Standing(m)) \in Nat /\ Cardinality(Standing(m)') \in Nat
  BY <1>1, FS_CardinalityType
<1> QED  BY <1>1, <1>2, <1>3 DEF Slack, CountsTyped

LEMMA StandStill ==
  ASSUME TrackingInv, CountsTyped, NEW p \in Processes, NEW h,
         task' = [task EXCEPT ![p] = h], Keeps(task[p], h),
         UNCHANGED <<recent, epoch, readings, overlaps, failures>>
  PROVE  CountsTyped' /\ Grows
<1>1. CountsTyped'
  BY DEF CountsTyped
<1>2. \A q \in Processes : task'[q] = IF q = p THEN h ELSE task[q]
  BY DEF TrackingInv, HandlersReady
<1>3. ASSUME NEW m \in Messages  PROVE Standing(m) \subseteq Standing(m)'
  <2> SUFFICES ASSUME NEW x \in readings[m], Stands(m, x), x[2] = epoch[m],
                      x[1] \notin recent[m]
               PROVE  \E q \in Processes : /\ task'[q].m = m /\ task'[q].reader = x[1]
                                           /\ ~At(task'[q], {"unique"})
    BY DEF Standing, Stands
  <2>1. PICK q \in Processes : /\ task[q].m = m /\ task[q].reader = x[1]
                               /\ ~At(task[q], {"unique"})
    BY DEF Stands
  <2>2. x[1] # None
    BY TrackingAssumption DEF CountsTyped
  <2> QED  BY <1>2, <2>1, <2>2 DEF Keeps
<1>4. \A m \in Messages : overlaps[m] <= overlaps'[m] /\ failures <= failures'
  BY DEF CountsTyped
<1> QED  BY <1>1, <1>3, <1>4, StandGrows DEF Grows

LEMMA CopiesStay ==
  ASSUME Grows, NEW h \in Handlers, Copied(h)
  PROVE  Copied(h)'
<1>1. h.row # NoRow => h.row.opens \in Nat
  BY DEF Handlers, MessageRow
<1>2. \A m \in Messages : h.todo[m] # NoRow => h.todo[m].opens \in Nat
  BY DEF Handlers, MessageRow
<1>3. \A m \in Messages, n \in Nat : n <= Slack(m) + 1 => n <= Slack(m)' + 1
  BY DEF Grows
<1>4. h.row # NoRow => h.m \in Messages /\ h.row.opens <= Slack(h.m)' + 1
  BY <1>1, <1>3 DEF Copied
<1>5. \A m \in Messages :
        h.todo[m] # NoRow =>
          /\ h.todo[m].opens <= Slack(m)' + 1
          /\ Ahead(h, "infer") => h.todo[m].opens = 0
  BY <1>2, <1>3 DEF Copied
<1> QED
  <2>1. Copied(h)' <=>
          /\ h.row # NoRow => h.m \in Messages /\ h.row.opens <= Slack(h.m)' + 1
          /\ \A m \in Messages :
               h.todo[m] # NoRow =>
                 /\ h.todo[m].opens <= Slack(m)' + 1
                 /\ Ahead(h, "infer") => h.todo[m].opens = 0
    BY DEF Copied
  <2> QED  BY <1>4, <1>5, <2>1

LEMMA MessagesStay ==
  ASSUME TypeOK, Grows, MessagesFit, UNCHANGED message
  PROVE  MessagesFit'
<1>1. ASSUME NEW m \in Messages  PROVE message[m].opens <= Slack(m)' + 1
  <2>1. message[m].opens \in Nat /\ message[m].opens <= Slack(m) + 1
    BY DEF TypeOK, MessageRow, MessagesFit
  <2>2. Slack(m) \in Nat /\ Slack(m)' \in Nat /\ Slack(m) <= Slack(m)'
    BY DEF Grows
  <2> QED  BY <2>1, <2>2
<1> QED  BY <1>1 DEF MessagesFit

LEMMA CountStepKeeps ==
  ASSUME TrackingInv, CountInv, NEW p \in Processes, CountStep(p)
  PROVE  CountInv'
<1>1. PICK h \in Handlers : task' = [task EXCEPT ![p] = h] /\ Planned(h) /\ Copied(h)'
  BY DEF CountStep, CountMoves
<1>2. \A q \in Processes : task'[q] = IF q = p THEN h ELSE task[q]
  BY <1>1 DEF TrackingInv, HandlersReady
<1>3. ASSUME NEW q \in Processes  PROVE Planned(task'[q]) /\ Copied(task[q])'
  <2>1. PICK g \in Handlers : g = task'[q] /\ Planned(g) /\ Copied(g)'
    <3>1. CASE q = p
      BY <1>1, <1>2, <3>1
    <3>2. CASE q # p
      <4>1. PICK g \in Handlers : g = task[q] /\ Planned(g) /\ Copied(g)
        BY DEF TrackingInv, HandlersReady, CountInv
      <4>2. Copied(g)'
        BY <4>1, CopiesStay DEF CountStep
      <4> QED  BY <1>2, <3>2, <4>1, <4>2
    <3> QED  BY <3>1, <3>2
  <2> QED  BY <2>1 DEF Copied
<1> QED  BY <1>3 DEF CountInv, CountStep, Planned

\* A step that touches no message and no count
LEMMA QuietStep ==
  ASSUME TrackingInv, CountInv, NEW p \in Processes, NEW h \in Handlers,
         task' = [task EXCEPT ![p] = h], Planned(h), Copied(h), Keeps(task[p], h),
         UNCHANGED <<message, recent, epoch, readings, overlaps, failures>>
  PROVE  CountStep(p)
<1>1. CountsTyped' /\ Grows
  BY StandStill DEF CountInv
<1>2. Copied(h)'
  BY <1>1, CopiesStay
<1>3. MessagesFit'
  BY <1>1, MessagesStay DEF CountInv, TrackingInv
<1> QED  BY <1>1, <1>2, <1>3 DEF CountStep, CountMoves

LEMMA OpeningAt ==
  ASSUME NEW h, Planned(h), h.reader # None
  PROVE  /\ h.calls[1] \in {"unique", "select", "update", "logOpen"}
         /\ h.calls[1] = "unique" <=> Len(h.calls) = 4
         /\ h.calls[1] = "logOpen" <=> Len(h.calls) = 1
<1>1. /\ Len(h.calls) \in 1..4
      /\ \A i \in 1..Len(h.calls) : h.calls[i] = OpenPlan[i + (4 - Len(h.calls))]
  BY Zenon DEF Planned
<1> DEFINE k == Len(h.calls)
<1> HIDE DEF k
<1>2. k \in {1, 2, 3, 4} /\ 1 \in 1..k /\ h.calls[1] = OpenPlan[1 + (4 - k)]
  <2>1. k \in 1..4 /\ \A i \in 1..k : h.calls[i] = OpenPlan[i + (4 - k)]
    BY <1>1 DEF k
  <2> QED  BY <2>1
<1>2a. /\ k = 1 => h.calls[1] = OpenPlan[4]
       /\ k = 2 => h.calls[1] = OpenPlan[3]
       /\ k = 3 => h.calls[1] = OpenPlan[2]
       /\ k = 4 => h.calls[1] = OpenPlan[1]
  BY <1>2
<1>3. \/ Len(h.calls) = 1 /\ h.calls[1] = "logOpen"
      \/ Len(h.calls) = 2 /\ h.calls[1] = "update"
      \/ Len(h.calls) = 3 /\ h.calls[1] = "select"
      \/ Len(h.calls) = 4 /\ h.calls[1] = "unique"
  BY <1>2, <1>2a DEF OpenPlan, k
<1> QED  BY <1>3

LEMMA IdleCounts == Planned(Idle) /\ Copied(Idle)
<1>1. /\ Idle.reader = None /\ Idle.row = NoRow /\ \A m \in Messages : Idle.todo[m] = NoRow
      /\ Len(Idle.calls) = 0
  BY EmptySeq DEF Idle, NoTodo
<1> QED  BY <1>1 DEF Planned, Copied, Ahead

\* A handler that has made n of its calls, whatever it has selected or found
LEMMA AfterCounts ==
  ASSUME TrackingInv, NEW p \in Processes, Planned(task[p]), Copied(task[p]),
         NEW n \in 1..Len(task[p].calls), NEW g,
         g.calls = After(p, n).calls, g.m = After(p, n).m, g.row = After(p, n).row,
         g.reader = After(p, n).reader, g.todo = After(p, n).todo
  PROVE  /\ Planned(g) /\ Copied(g)
         /\ n < Len(task[p].calls) => Keeps(task[p], g)
<1> DEFINE h == task[p]
           left == Rest(h.calls, n)
<1>1. h \in Handlers /\ InOrder(h.calls) /\ Len(h.calls) \in Nat
  BY LenProperties DEF TrackingInv, HandlersReady, Ready, InOrder
<1>2. /\ InOrder(left) /\ Len(left) = Len(h.calls) - n
      /\ \A i \in 1..Len(left) : left[i] = h.calls[i + n]
      /\ left = <<>> <=> n = Len(h.calls)
  BY <1>1, RestInOrder
<1>3. ASSUME NEW name, \E i \in 1..Len(left) : left[i] = name  PROVE Ahead(h, name)
  <2>1. PICK i \in 1..Len(left) : left[i] = name
    BY <1>3
  <2>2. i + n \in 1..Len(h.calls) /\ h.calls[i + n] = name
    BY <1>1, <1>2, <2>1
  <2> QED  BY <2>2 DEF Ahead
<1>4. CASE left = <<>>
  <2>1. After(p, n) = Idle
    BY <1>4 DEF After, Rest
  <2>2. /\ g.reader = None /\ g.row = NoRow /\ \A m \in Messages : g.todo[m] = NoRow
        /\ Len(g.calls) = 0
    BY <2>1, EmptySeq DEF Idle, NoTodo
  <2>3. ~(n < Len(h.calls))
    BY <1>1, <1>2, <1>4
  <2> QED  BY <2>2, <2>3 DEF Planned, Copied, Ahead
<1>5. CASE left # <<>>
  <2>1. n < Len(h.calls) /\ 1 \in 1..Len(left) /\ 1 + n \in 1..Len(h.calls)
    BY <1>1, <1>2, <1>5
  <2>2. left[1] = h.calls[1 + n] /\ Head(left) = left[1]
    BY <1>2, <2>1, <1>5, HeadTailProperties DEF InOrder
  <2> HIDE DEF left
  <2>3. CASE h.reader # None
    <3>1. Len(h.calls) \in 1..4 /\ Len(left) \in 1..3 /\ h.reader \in Readers
          /\ (\A i \in 1..Len(h.calls) : h.calls[i] = OpenPlan[i + (4 - Len(h.calls))])
      <4>1. /\ Len(h.calls) \in 1..4 /\ h.reader \in Readers
            /\ \A i \in 1..Len(h.calls) : h.calls[i] = OpenPlan[i + (4 - Len(h.calls))]
        BY <2>3, Zenon DEF Planned
      <4>2. Len(left) \in 1..3
        <5>1. PICK k \in 1..4 : k = Len(h.calls)
          BY <4>1
        <5>2. n \in 1..k /\ n < k /\ Len(left) = k - n
          BY <1>2, <2>1, <5>1
        <5>3. \A i \in 1..k : i < k => k - i \in 1..3
          OBVIOUS
        <5>4. k - n \in 1..3
          BY <5>2, <5>3
        <5> QED  BY <5>2, <5>4
      <4> QED  BY <4>1, <4>2
    <3>2. ASSUME NEW i \in 1..Len(left)
          PROVE  left[i] = OpenPlan[i + (4 - Len(left))]
      <4>1. i + n \in 1..Len(h.calls) /\ (i + n) + (4 - Len(h.calls)) = i + (4 - Len(left))
        BY <1>1, <1>2, <3>1
      <4> QED  BY <1>2, <3>1, <4>1
    <3>3. left[1] \in {"select", "update", "logOpen"}
      <4>1. left[1] = OpenPlan[1 + (4 - Len(left))]
        BY <2>1, <3>2
      <4>2. PICK k \in 1..3 : k = Len(left)
        BY <3>1
      <4>3. 1 + (4 - k) \in {2, 3, 4}
        OBVIOUS
      <4> QED  BY <4>1, <4>2, <4>3 DEF OpenPlan
    <3>4. After(p, n) = [h EXCEPT !.calls = left, !.seen = NoRow]
      BY <1>5, <2>2, <3>3 DEF After, Rest, Loops, left
    <3>5. g.calls = left /\ g.m = h.m /\ g.reader = h.reader /\ g.row = h.row /\ g.todo = h.todo
      BY <1>1, <3>4 DEF Handlers
    <3>6. Planned(g)
      BY <2>3, <3>1, <3>2, <3>5 DEF Planned
    <3>7. Copied(g)
      BY <1>3, <3>5 DEF Copied, Ahead
    <3>8. Keeps(h, g)
      BY <3>3, <3>5 DEF Keeps, At
    <3> QED  BY <3>6, <3>7, <3>8
  <2>4. CASE h.reader = None
    <3>1. After(p, n) \in {[Idle EXCEPT !.calls = left, !.todo = h.todo],
                           [h EXCEPT !.calls = left, !.seen = NoRow]}
      BY <1>5 DEF After, Rest, left
    <3>2. /\ g.calls = left /\ g.reader = None /\ g.todo = h.todo
          /\ g.row = NoRow \/ (g.row = h.row /\ g.m = h.m)
      BY <1>1, <2>4, <3>1 DEF Handlers, Idle
    <3>3. ~Ahead(h, "unique")
      BY <2>4 DEF Planned
    <3>4. Planned(g)
      BY <1>3, <3>2, <3>3 DEF Planned, Ahead
    <3>5. Copied(g)
      BY <1>3, <3>2 DEF Copied, Ahead
    <3>6. Keeps(h, g)
      BY <2>4 DEF Keeps
    <3> QED  BY <3>4, <3>5, <3>6
  <2> QED  BY <2>3, <2>4
<1> QED  BY <1>4, <1>5

LEMMA AfterIsHandler ==
  ASSUME TrackingInv, NEW p \in Processes, NEW n \in 1..Len(task[p].calls)
  PROVE  After(p, n) \in Handlers
<1> DEFINE left == Rest(task[p].calls, n)
<1>1. task[p] \in Handlers /\ left \in Seq(Names)
  BY RestInOrder DEF TrackingInv, HandlersReady, Ready, InOrder
<1>2. After(p, n) \in {Idle, [Idle EXCEPT !.calls = left, !.todo = task[p].todo],
                       [task[p] EXCEPT !.calls = left, !.seen = NoRow]}
  BY DEF After, Rest
<1> HIDE DEF left
<1> QED  BY <1>1, <1>2, IdleHandler DEF Handlers

\* A call that counts nothing, and whatever the handler remembers of it
LEMMA PlainCall ==
  ASSUME TrackingInv, TrackingInv', CountInv,
         NEW p \in Processes, NEW n \in 1..Len(task[p].calls), NEW g, Becomes(p, g),
         g.calls = After(p, n).calls, g.m = After(p, n).m, g.row = After(p, n).row,
         g.reader = After(p, n).reader, g.todo = After(p, n).todo,
         n < Len(task[p].calls) \/ task[p].reader = None,
         UNCHANGED <<message, recent, epoch, readings, overlaps, failures>>
  PROVE  CountStep(p)
<1>1. task' = [task EXCEPT ![p] = g]
  BY DEF Becomes
<1>2. g \in Handlers
  BY <1>1 DEF TrackingInv, HandlersReady
<1>3. Planned(task[p]) /\ Copied(task[p])
  BY DEF CountInv
<1>4. Planned(g) /\ Copied(g) /\ Keeps(task[p], g)
  BY <1>3, AfterCounts DEF Keeps
<1> QED  BY <1>1, <1>2, <1>4, QuietStep

LEMMA PlainCalls ==
  ASSUME TrackingInv, TrackingInv', CountInv, NEW p \in Processes,
         \/ SelectMessage(p) \/ SelectRecipient(p) \/ UpdateRecipient(p)
         \/ ReadForUnsubscribe(p) \/ ReadForReply(p) \/ ReadForHeal(p) \/ ReadForBounce(p)
         \/ Exclude(p) \/ Readmit(p) \/ Answer(p) \/ LogBounce(p)
  PROVE  CountStep(p)
<1> DEFINE c == task[p].calls
<1>1. PICK name, x :
        /\ name \in {"select", "exclude", "readmit", "answer", "logBounce",
                     "selectRecipient", "updateRecipient"} \cup ReadsRecipient
        /\ Calls(p, name)
        /\ \/ Becomes(p, After(p, 1))
           \/ Becomes(p, [After(p, 1) EXCEPT !.seen = x])
           \/ name # "select" /\ Becomes(p, [After(p, 1) EXCEPT !.person = x])
           \/ name \in ReadsRecipient /\ (Becomes(p, After(p, 3)) \/ Becomes(p, Idle))
        /\ UNCHANGED <<message, recent, epoch, readings, overlaps, failures>>
  <2>1. CASE SelectMessage(p)
    BY <2>1 DEF SelectMessage, tables, log, history, counters
  <2>2. CASE SelectRecipient(p)
    BY <2>2 DEF SelectRecipient, tables, log, history, counters
  <2>3. CASE UpdateRecipient(p)
    BY <2>3 DEF UpdateRecipient, log, history, counters
  <2>4. CASE ReadForUnsubscribe(p)
    BY <2>4 DEF ReadForUnsubscribe, ReadRecipient, ReadsRecipient, tables, log, history,
                counters
  <2>5. CASE ReadForReply(p)
    BY <2>5 DEF ReadForReply, ReadRecipient, ReadsRecipient, tables, log, history, counters
  <2>6. CASE ReadForHeal(p)
    BY <2>6 DEF ReadForHeal, ReadRecipient, ReadsRecipient, tables, log, history, counters
  <2>7. CASE ReadForBounce(p)
    BY <2>7 DEF ReadForBounce, ReadRecipient, ReadsRecipient, tables, log, history, counters
  <2>8. CASE Exclude(p) \/ Readmit(p) \/ Answer(p) \/ LogBounce(p)
    BY <2>8 DEF Exclude, Readmit, Answer, LogBounce, tables, log, history, counters
  <2> QED  BY <2>1, <2>2, <2>3, <2>4, <2>5, <2>6, <2>7, <2>8
<1>2. Ready(task[p]) /\ Planned(task[p])
  BY DEF TrackingInv, HandlersReady, CountInv
<1>3. Len(c) \in Nat \ {0} /\ c[1] = name /\ (name \in Inner => Len(c) > 1)
  BY <1>1, <1>2, FirstCall
<1>4. 1 \in 1..Len(c) /\ (1 < Len(c) \/ task[p].reader = None)
  <2>1. CASE name = "select"
    BY <1>3, <2>1 DEF Inner
  <2>2. CASE name # "select"
    BY <1>1, <1>2, <1>3, <2>2, OpeningAt DEF ReadsRecipient
  <2> QED  BY <1>3, <2>1, <2>2
<1>5. After(p, 1) \in Handlers
  BY <1>4, AfterIsHandler
<1>6. CASE Becomes(p, After(p, 1))
  BY <1>1, <1>4, <1>6, PlainCall
<1>7. CASE Becomes(p, [After(p, 1) EXCEPT !.seen = x])
  <2>1. PICK g : g = [After(p, 1) EXCEPT !.seen = x]
    OBVIOUS
  <2>2. /\ g.calls = After(p, 1).calls /\ g.m = After(p, 1).m /\ g.row = After(p, 1).row
        /\ g.reader = After(p, 1).reader /\ g.todo = After(p, 1).todo
    BY <1>5, <2>1 DEF Handlers
  <2> QED  BY <1>1, <1>4, <1>7, <2>1, <2>2, PlainCall
<1>8. CASE Becomes(p, [After(p, 1) EXCEPT !.person = x])
  <2>1. PICK g : g = [After(p, 1) EXCEPT !.person = x]
    OBVIOUS
  <2>2. /\ g.calls = After(p, 1).calls /\ g.m = After(p, 1).m /\ g.row = After(p, 1).row
        /\ g.reader = After(p, 1).reader /\ g.todo = After(p, 1).todo
    BY <1>5, <2>1 DEF Handlers
  <2> QED  BY <1>1, <1>4, <1>8, <2>1, <2>2, PlainCall
<1>9. CASE name \in ReadsRecipient
  <2>1. task[p].reader = None
    BY <1>2, <1>3, <1>9, OpeningAt DEF ReadsRecipient
  <2>2. CASE Becomes(p, After(p, 3))
    <3>1. Len(c) >= 3
      BY <1>1, <1>2, <1>9, SkippedSave
    <3>2. 3 \in 1..Len(c)
      BY <1>3, <3>1
    <3> QED  BY <1>1, <2>1, <2>2, <3>2, PlainCall
  <2>3. CASE Becomes(p, Idle)
    <3>1. Keeps(task[p], Idle) /\ task' = [task EXCEPT ![p] = Idle]
      BY <2>1, <2>3 DEF Keeps, Becomes
    <3> QED  BY <1>1, <3>1, IdleCounts, IdleHandler, QuietStep
  <2> QED  BY <1>1, <1>6, <1>7, <1>8, <2>2, <2>3
<1> QED  BY <1>1, <1>6, <1>7, <1>8, <1>9

LEMMA SavedMessage ==
  ASSUME TrackingInv, TrackingInv', CountInv, NEW p \in Processes, UpdateMessage(p)
  PROVE  CountStep(p)
<1> DEFINE c == task[p].calls
<1>1. Ready(task[p]) /\ Planned(task[p]) /\ Copied(task[p]) /\ task[p] \in Handlers
  BY DEF TrackingInv, HandlersReady, CountInv
<1>2. /\ Calls(p, "update") /\ Becomes(p, After(p, 1))
      /\ UNCHANGED <<recent, epoch, readings, overlaps, failures>>
      /\ message' = [message EXCEPT ![task[p].m] = Merged(task[p].row, task[p].seen, @)]
  BY DEF UpdateMessage, log, history, counters
<1>3. Len(c) \in Nat \ {0} /\ c[1] = "update" /\ task[p].m \in Messages
  BY <1>1, <1>2, FirstCall DEF OfMessage
<1>4. 1 \in 1..Len(c) /\ (1 < Len(c) \/ task[p].reader = None)
  <2>1. task[p].reader # None => Len(c) # 1
    <3>1. task[p].reader # None => (c[1] = "logOpen" <=> Len(c) = 1)
      BY <1>1, OpeningAt
    <3> QED  BY <1>3, <3>1
  <2>2. PICK n \in Nat \ {0} : n = Len(c)
    BY <1>3
  <2>3. 1 \in 1..n /\ (n = 1 \/ 1 < n)
    OBVIOUS
  <2> QED  BY <2>1, <2>2, <2>3
<1>5. After(p, 1) \in Handlers /\ task' = [task EXCEPT ![p] = After(p, 1)]
  BY <1>2, <1>4, AfterIsHandler DEF Becomes
<1>6. Planned(After(p, 1)) /\ Copied(After(p, 1)) /\ Keeps(task[p], After(p, 1))
  BY <1>1, <1>4, AfterCounts DEF Keeps
<1>7. PICK h \in Handlers : h = After(p, 1)
  BY <1>5
<1>8. CountsTyped' /\ Grows
  BY <1>2, <1>5, <1>6, StandStill DEF CountInv
<1>9. CountMoves(p)
  BY <1>5, <1>6, <1>7, <1>8, CopiesStay DEF CountMoves
<1>10. ASSUME NEW m \in Messages  PROVE message'[m].opens <= Slack(m)' + 1
  <2>1. message[m] \in MessageRow /\ message[m].opens <= Slack(m) + 1
        /\ message \in [Messages -> MessageRow]
    BY DEF TrackingInv, TypeOK, CountInv, MessagesFit
  <2>2. Slack(m) \in Nat /\ Slack(m)' \in Nat /\ Slack(m) <= Slack(m)'
    BY <1>8 DEF Grows
  <2>3. CASE m # task[p].m
    <3>1. message'[m] = message[m]
      BY <1>2, <2>1, <2>3
    <3> QED  BY <2>1, <2>2, <3>1 DEF MessageRow
  <2>4. CASE m = task[p].m
    <3>1. c # <<>> /\ Ahead(task[p], "update")
      BY <1>3, <1>4, EmptySeq DEF Ahead
    <3>2. task[p].row \in MessageRow
      BY <1>1, <3>1 DEF Ready
    <3>3. task[p].row.opens <= Slack(m) + 1
      BY <1>1, <2>4, <3>2, RowAssumption DEF Copied
    <3>4. message'[m] = Merged(task[p].row, task[p].seen, message[m])
      BY <1>2, <1>3, <2>1, <2>4
    <3>5. "opens" \in DOMAIN task[p].row
      BY <3>2 DEF MessageRow
    <3>6. message'[m].opens \in {task[p].row.opens, message[m].opens}
      BY <3>4, <3>5 DEF Merged
    <3>7. task[p].row.opens \in Nat /\ message[m].opens \in Nat
      BY <2>1, <3>2 DEF MessageRow
    <3> QED  BY <2>1, <2>2, <3>3, <3>6, <3>7
  <2> QED  BY <2>3, <2>4
<1> QED  BY <1>8, <1>9, <1>10 DEF CountStep, MessagesFit

LEMMA LoggedOpen ==
  ASSUME TrackingInv, TrackingInv', CountInv, NEW p \in Processes, LogOpen(p)
  PROVE  CountStep(p)
<1> DEFINE c == task[p].calls
<1>1. Ready(task[p]) /\ Planned(task[p]) /\ Copied(task[p]) /\ task[p] \in Handlers
  BY DEF TrackingInv, HandlersReady, CountInv
<1>2. /\ Calls(p, "logOpen") /\ Becomes(p, After(p, 1))
      /\ UNCHANGED <<message, epoch, readings, overlaps, failures>>
      /\ recent' = [recent EXCEPT ![task[p].m] = @ \cup {task[p].reader}]
  BY DEF LogOpen, tables, history, counters
<1>3. Len(c) \in Nat \ {0} /\ c[1] = "logOpen" /\ task[p].m \in Messages /\ c # <<>>
      /\ c \in Seq(Names) /\ InOrder(c)
  BY <1>1, <1>2, FirstCall DEF OfMessage
<1>4. task[p].reader \in Readers
  BY <1>1, <1>3 DEF Ready, Ahead
<1>5. 1 \in 1..Len(c) /\ 1 = Len(c)
  BY <1>1, <1>3, <1>4, OpeningAt, TrackingAssumption
<1>6. After(p, 1) = Idle
  <2>1. Rest(c, 1) = <<>>
    BY <1>3, <1>5, RestInOrder
  <2> QED  BY <2>1 DEF After, Rest
<1>7. task' = [task EXCEPT ![p] = Idle]
  BY <1>2, <1>6 DEF Becomes
<1>8. CountsTyped'
  BY <1>2 DEF CountInv, CountsTyped
<1>9. ASSUME NEW m \in Messages  PROVE Standing(m) \subseteq Standing(m)'
  <2> SUFFICES ASSUME NEW x \in readings[m], Stands(m, x)  PROVE Stands(m, x)'
    BY <1>2 DEF Standing
  <2>1. recent[m] \subseteq recent'[m]
        /\ (m = task[p].m => task[p].reader \in recent'[m])
    BY <1>2, <1>3 DEF TrackingInv, TypeOK
  <2>2. \A q \in Processes : q # p => task'[q] = task[q]
    BY <1>7 DEF TrackingInv, HandlersReady
  <2> QED  BY <1>2, <2>1, <2>2 DEF Stands
<1>10. Grows
  <2>1. \A m \in Messages : overlaps[m] <= overlaps'[m] /\ failures <= failures'
    BY <1>2 DEF CountInv, CountsTyped
  <2> QED  BY <1>8, <1>9, <2>1, StandGrows DEF Grows, CountInv
<1>11. CountMoves(p)
  <2>1. PICK h \in Handlers : h = Idle
    BY IdleHandler
  <2> QED  BY <1>7, <1>10, <2>1, IdleCounts, CopiesStay DEF CountMoves
<1> QED  BY <1>2, <1>8, <1>10, <1>11, MessagesStay DEF CountStep, CountInv, TrackingInv

\* The hit of a reader whose event is neither logged nor about to be
LEMMA CountedOpen ==
  ASSUME TrackingInv, TrackingInv', CountInv, NEW p \in Processes,
         Calls(p, "unique"), task[p].reader \notin recent[task[p].m],
         Becomes(p, [After(p, 1) EXCEPT !.row.opens = @ + 1]),
         readings' = [readings EXCEPT ![task[p].m] =
                        @ \cup {<<task[p].reader, epoch[task[p].m]>>}],
         overlaps' = [overlaps EXCEPT ![task[p].m] = IF Overlapping(p) THEN @ + 1 ELSE @],
         UNCHANGED <<message, recent, epoch, failures>>
  PROVE  CountStep(p)
<1> DEFINE c == task[p].calls
<1>0. PICK k, hit : k = task[p].m /\ hit = <<task[p].reader, epoch[k]>>
  OBVIOUS
<1>0a. /\ readings' = [readings EXCEPT ![k] = @ \cup {hit}]
       /\ overlaps' \in {[overlaps EXCEPT ![k] = @ + 1], overlaps}
       /\ Overlapping(p) => overlaps' = [overlaps EXCEPT ![k] = @ + 1]
       /\ hit[1] = task[p].reader /\ hit[2] = epoch[k]
  <2>1. overlaps \in [Messages -> Nat]
    BY DEF CountInv, CountsTyped
  <2>2. [overlaps EXCEPT ![k] = overlaps[k]] = overlaps
    BY <2>1
  <2>3. CASE Overlapping(p)
    BY <1>0, <2>3
  <2>4. CASE ~Overlapping(p)
    BY <1>0, <2>2, <2>4
  <2> QED  BY <2>3, <2>4
<1>1. Ready(task[p]) /\ Planned(task[p]) /\ Copied(task[p]) /\ task[p] \in Handlers
  BY DEF TrackingInv, HandlersReady, CountInv, Ready
<1>2. /\ Len(c) \in Nat \ {0} /\ c[1] = "unique" /\ k \in Messages /\ c # <<>>
      /\ Len(c) > 1 /\ c[2] = "select" /\ InOrder(c)
  BY <1>0, <1>1, FirstCall, SequelsAre DEF OfMessage, Inner
<1>3. 1 \in 1..Len(c) /\ 2 \in 1..Len(c) /\ 1 < Len(c)
  BY <1>2
<1>4. task[p].reader \in Readers /\ task[p].reader # None
  <2>1. Ahead(task[p], "unique")
    BY <1>2, <1>3 DEF Ahead
  <2> QED  BY <1>1, <2>1, TrackingAssumption DEF Planned
<1>5. task[p].row \in MessageRow
  BY <1>1, <1>2, <1>3 DEF Ready, Ahead
<1>6. PICK row \in MessageRow : row = [task[p].row EXCEPT !.opens = @ + 1]
                                /\ row.opens = task[p].row.opens + 1
  BY <1>5, OpenedRow DEF MessageRow
<1>7. After(p, 1) = [task[p] EXCEPT !.calls = Rest(c, 1), !.seen = NoRow]
      /\ Rest(c, 1) # <<>> /\ Rest(c, 1)[1] = "select"
  <2>1. "unique" \in OfMessage /\ "unique" \in Inner /\ "unique" \notin ReadsRecipient
    BY DEF OfMessage, Inner, ReadsRecipient
  <2>2. /\ After(p, 1) = [task[p] EXCEPT !.calls = Rest(c, 1), !.seen = NoRow]
        /\ Rest(c, 1) # <<>>
    <3>1. PICK person \in RecipientRow \cup {NoRow} : person = task[p].person
      BY <1>1 DEF Handlers
    <3> QED  BY <1>1, <1>5, <2>1, <3>1, FoundReady
  <2>3. Len(Rest(c, 1)) = Len(c) - 1 /\ \A i \in 1..Len(Rest(c, 1)) : Rest(c, 1)[i] = c[i + 1]
    BY <1>2, <1>3, RestInOrder
  <2>4. 1 \in 1..Len(Rest(c, 1)) /\ 1 + 1 = 2
    BY <1>2, <2>3
  <2> QED  BY <1>2, <2>2, <2>3, <2>4
<1>8. PICK h : h = [After(p, 1) EXCEPT !.row.opens = @ + 1]
  OBVIOUS
<1>9. /\ task' = [task EXCEPT ![p] = h]
      /\ h.calls = Rest(c, 1) /\ h.m = k /\ h.reader = task[p].reader
      /\ h.todo = task[p].todo /\ h.row = row /\ h \in Handlers
  <2>1. task' = [task EXCEPT ![p] = h]
    BY <1>8 DEF Becomes
  <2>2. h \in Handlers
    BY <2>1 DEF TrackingInv, HandlersReady
  <2> QED  BY <1>0, <1>1, <1>6, <1>7, <1>8, <2>1, <2>2 DEF Handlers
<1>10. Planned(h)
  <2>1. Planned(After(p, 1))
    BY <1>1, <1>3, AfterCounts
  <2>2. After(p, 1).calls = h.calls /\ After(p, 1).reader = h.reader
    BY <1>1, <1>7, <1>9 DEF Handlers
  <2> QED  BY <2>1, <2>2 DEF Planned, Ahead
<1> HIDE DEF c
<1>11. CountsTyped'
  <2>1. ASSUME NEW m \in Messages
        PROVE  IsFiniteSet(readings'[m]) /\ \A x \in readings'[m] : x[2] <= epoch'[m]
    <3>1. IsFiniteSet(readings[m]) /\ (\A x \in readings[m] : x[2] <= epoch[m])
          /\ epoch[m] \in Nat
      BY DEF CountInv, CountsTyped
    <3>2. readings'[m] = IF m = k THEN readings[m] \cup {hit} ELSE readings[m]
      BY <1>0a DEF CountInv, CountsTyped
    <3> QED  BY <1>0a, <3>1, <3>2, FS_AddElement
  <2>2. readings' \in [Messages -> SUBSET (Readers \X Nat)]
    BY <1>0, <1>0a, <1>2, <1>4 DEF CountInv, CountsTyped
  <2>3. overlaps' \in [Messages -> Nat]
    <3>1. overlaps \in [Messages -> Nat]
      BY DEF CountInv, CountsTyped
    <3>2. [overlaps EXCEPT ![k] = @ + 1] \in [Messages -> Nat]
      BY <1>2, <3>1
    <3> QED  BY <1>0a, <3>1, <3>2
  <2> QED  BY <2>1, <2>2, <2>3 DEF CountInv, CountsTyped
<1>12. \A q \in Processes : task'[q] = IF q = p THEN h ELSE task[q]
  BY <1>9 DEF TrackingInv, HandlersReady
<1>13. At(task[p], {"unique"}) /\ ~At(h, {"unique"})
  BY <1>2, <1>7, <1>9 DEF At, c
<1>14. ASSUME NEW m \in Messages  PROVE Standing(m) \subseteq Standing(m)'
  <2> SUFFICES ASSUME NEW x \in readings[m], Stands(m, x)  PROVE Stands(m, x)'
    BY <1>0a DEF Standing, CountInv, CountsTyped
  <2> QED  BY <1>12, <1>13 DEF Stands
<1>15. hit \in Standing(k)'
  <2>1. Stands(k, hit)'
    BY <1>0a, <1>2, <1>9, <1>12, <1>13 DEF Stands
  <2>2. hit \in readings'[k]
    BY <1>0a, <1>2 DEF CountInv, CountsTyped
  <2> QED  BY <2>1, <2>2 DEF Standing
<1>16. hit \in Standing(k) => Overlapping(p)
  <2> SUFFICES ASSUME hit \in Standing(k)  PROVE Overlapping(p)
    OBVIOUS
  <2>1. Stands(k, hit) /\ hit[1] = task[p].reader /\ hit[2] = epoch[k]
    BY <1>0a DEF Standing
  <2>2. PICK q \in Processes : /\ task[q].m = k /\ task[q].reader = task[p].reader
                               /\ ~At(task[q], {"unique"})
    BY <1>0, <2>1 DEF Stands
  <2>3. q # p
    BY <1>13, <2>2
  <2> QED  BY <1>0, <2>2, <2>3 DEF Overlapping
<1>17. Grows
  <2>1. \A m \in Messages : overlaps[m] <= overlaps'[m] /\ failures <= failures'
    BY <1>0a DEF CountInv, CountsTyped
  <2> QED  BY <1>11, <1>14, <2>1, StandGrows DEF Grows, CountInv
<1>18. Slack(k) + 1 <= Slack(k)'
  <2>1. IsFiniteSet(Standing(k)) /\ IsFiniteSet(Standing(k)')
    BY <1>2, <1>11, SlackTypes, SlackTypesNext DEF CountInv
  <2>2. Standing(k) \cup {hit} \in SUBSET (Standing(k)')
    BY <1>2, <1>14, <1>15
  <2>3. IsFiniteSet(Standing(k) \cup {hit}) /\ Cardinality(Standing(k) \cup {hit}) =
          IF hit \in Standing(k) THEN Cardinality(Standing(k)) ELSE Cardinality(Standing(k)) + 1
    BY <2>1, FS_AddElement
  <2>4. Cardinality(Standing(k) \cup {hit}) <= Cardinality(Standing(k)')
    BY <2>1, <2>2, FS_Subset
  <2>5. Cardinality(Standing(k)) \in Nat /\ Cardinality(Standing(k)') \in Nat
    BY <2>1, FS_CardinalityType
  <2>6. /\ overlaps[k] \in Nat /\ failures \in Nat /\ failures' = failures
        /\ overlaps'[k] \in {overlaps[k] + 1, overlaps[k]}
        /\ Overlapping(p) => overlaps'[k] = overlaps[k] + 1
    BY <1>0a, <1>2 DEF CountInv, CountsTyped
  <2>7. CASE hit \in Standing(k)
    BY <1>16, <2>3, <2>4, <2>5, <2>6, <2>7 DEF Slack
  <2>8. CASE hit \notin Standing(k)
    BY <2>3, <2>4, <2>5, <2>6, <2>8 DEF Slack
  <2> QED  BY <2>7, <2>8
<1>19. Copied(h)'
  <2>1. task[p].row.opens <= Slack(k) + 1 /\ task[p].row.opens \in Nat
    BY <1>0, <1>1, <1>5, RowAssumption DEF Copied, MessageRow
  <2>2. Slack(k) \in Nat /\ Slack(k)' \in Nat
    BY <1>2, <1>17 DEF Grows
  <2>3. row.opens <= Slack(k)' + 1
    BY <1>6, <1>18, <2>1, <2>2
  <2>4. PICK g \in Handlers : g = task[p] /\ Copied(g)'
    BY <1>1, <1>17, CopiesStay
  <2>5. \A i \in 1..Len(h.calls) : i + 1 \in 1..Len(c) /\ h.calls[i] = c[i + 1]
    <3>1. Len(h.calls) = Len(c) - 1 /\ \A i \in 1..Len(h.calls) : h.calls[i] = c[i + 1]
      BY <1>2, <1>3, <1>9, RestInOrder
    <3> QED  BY <1>2, <3>1
  <2>6. Ahead(h, "infer") => Ahead(g, "infer")
    BY <2>4, <2>5 DEF Ahead, c
  <2> QED  BY <1>2, <1>9, <2>3, <2>4, <2>6 DEF Copied
<1>20. CountMoves(p)
  BY <1>9, <1>10, <1>19 DEF CountMoves
<1> QED  BY <1>11, <1>17, <1>20, MessagesStay DEF CountStep, CountInv, TrackingInv

LEMMA OpenLookup ==
  ASSUME TrackingInv, TrackingInv', CountInv, NEW p \in Processes, IsUniqueOpen(p)
  PROVE  CountStep(p)
<1> DEFINE c == task[p].calls
<1>1. Ready(task[p]) /\ Planned(task[p]) /\ Calls(p, "unique")
  BY DEF TrackingInv, HandlersReady, CountInv, IsUniqueOpen
<1>2. /\ Len(c) \in Nat \ {0} /\ c[1] = "unique"
  BY <1>1, FirstCall
<1>3. task[p].reader # None
  <2>1. 1 \in 1..Len(c)
    BY <1>2
  <2> QED  BY <1>1, <1>2, <2>1 DEF Planned, Ahead
<1>4. Len(c) = 4
  BY <1>1, <1>2, <1>3, OpeningAt
<1>5. UNCHANGED <<message, recent, epoch, failures>>
  BY DEF IsUniqueOpen, tables, log, counters
<1>6. CASE task[p].reader \in recent[task[p].m]
  <2>1. Becomes(p, After(p, 3)) /\ UNCHANGED <<readings, overlaps>>
    BY <1>6 DEF IsUniqueOpen
  <2>2. 3 \in 1..Len(c) /\ 3 < Len(c)
    BY <1>4
  <2> QED  BY <1>5, <2>1, <2>2, PlainCall
<1>7. CASE task[p].reader \notin recent[task[p].m]
  <2>1. /\ Becomes(p, [After(p, 1) EXCEPT !.row.opens = @ + 1])
        /\ readings' = [readings EXCEPT ![task[p].m] =
                          @ \cup {<<task[p].reader, epoch[task[p].m]>>}]
        /\ overlaps' = [overlaps EXCEPT ![task[p].m] = IF Overlapping(p) THEN @ + 1 ELSE @]
    BY <1>7 DEF IsUniqueOpen
  <2> QED  BY <1>1, <1>5, <1>7, <2>1, CountedOpen
<1> QED  BY <1>6, <1>7

\* A new plan of a handler that is about to log no event
LEMMA PlanStep ==
  ASSUME TrackingInv, TrackingInv', CountInv, NEW p \in Processes, NEW h, Becomes(p, h),
         task[p].reader = None, Planned(h), Copied(h),
         UNCHANGED <<message, recent, epoch, readings, overlaps, failures>>
  PROVE  CountStep(p)
<1>1. task' = [task EXCEPT ![p] = h] /\ h \in Handlers
  BY DEF Becomes, TrackingInv, HandlersReady
<1>2. Keeps(task[p], h)
  BY DEF Keeps
<1> QED  BY <1>1, <1>2, QuietStep

\* Who turns in a loop, or is idle, logs no event.
LEMMA NoReader ==
  ASSUME TrackingInv, CountInv, NEW p \in Processes,
         \/ task[p] = Idle
         \/ \E name \in Loops \cup {"heal"} : Calls(p, name)
  PROVE  task[p].reader = None
<1>1. CASE task[p] = Idle
  BY <1>1, IdleHandler
<1>2. ASSUME NEW name \in Loops \cup {"heal"}, Calls(p, name)  PROVE task[p].reader = None
  <2>1. Ready(task[p]) /\ Planned(task[p])
    BY DEF TrackingInv, HandlersReady, CountInv
  <2>2. task[p].calls[1] = name
    BY <1>2, <2>1, FirstCall
  <2> QED  BY <2>1, <2>2, OpeningAt DEF Loops
<1> QED  BY <1>1, <1>2

\* The row of a message, with at most one open more than the slack
LEMMA RowFits ==
  ASSUME TrackingInv, CountInv, NEW m \in Messages
  PROVE  /\ message[m] \in MessageRow /\ message[m].opens <= Slack(m) + 1
         /\ Slack(m) \in Nat
BY SlackTypes DEF TrackingInv, TypeOK, CountInv, MessagesFit

LEMMA ArrivalCounts ==
  ASSUME TrackingInv, TrackingInv', CountInv, NEW w \in Workers, NEW m \in Messages,
         \/ \E reader \in Readers : RecordOpen(w, m, reader)
         \/ RecordClick(w, m) \/ RecordUnsubscribe(w, m)
  PROVE  CountStep(w)
<1>1. PICK calls, row, reader :
        /\ Request(w, calls, m, row, reader)
        /\ \/ /\ calls = <<"unique", "select", "update", "logOpen">>
              /\ row = message[m] /\ reader \in Readers
           \/ /\ calls = <<"select", "update">> /\ reader = None
              /\ row = [message[m] EXCEPT !.clicks = @ + 1]
           \/ /\ calls = <<"readForUnsubscribe", "selectRecipient", "updateRecipient",
                           "exclude", "answer">>
              /\ row = message[m] /\ reader = None
  BY DEF RecordOpen, RecordClick, RecordUnsubscribe
<1>2. PICK h : h = [Idle EXCEPT !.calls = calls, !.m = m, !.row = row, !.reader = reader]
  OBVIOUS
<1>3. /\ Becomes(w, h) /\ task[w] = Idle /\ w \in Processes
      /\ UNCHANGED <<message, recent, epoch, readings, overlaps, failures>>
  BY <1>1, <1>2 DEF Request, tables, log, history, Processes
<1>4. /\ h.calls = calls /\ h.m = m /\ h.row = row /\ h.reader = reader
      /\ \A k \in Messages : h.todo[k] = NoRow
  BY <1>2, IdleHandler DEF Handlers, Idle, NoTodo
<1>5. row.opens = message[m].opens
  BY <1>1, RowFits DEF MessageRow
<1>6. Copied(h)
  BY <1>4, <1>5, RowFits DEF Copied
<1>7. Planned(h)
  <2>1. CASE calls = <<"unique", "select", "update", "logOpen">> /\ reader \in Readers
    <3>1. Len(calls) = 4 /\ 4 \in 1..4 /\ \A i \in 1..4 : i + (4 - 4) = i
      BY <2>1
    <3>2. \A i \in 1..4 : calls[i] = OpenPlan[i + (4 - 4)]
      BY <2>1, <3>1 DEF OpenPlan
    <3> QED  BY <1>4, <2>1, <3>1, <3>2, TrackingAssumption DEF Planned
  <2>2. CASE calls = <<"select", "update">> /\ reader = None
    BY <1>4, <2>2 DEF Planned, Ahead
  <2>3. CASE /\ calls = <<"readForUnsubscribe", "selectRecipient", "updateRecipient",
                          "exclude", "answer">>
             /\ reader = None
    BY <1>4, <2>3 DEF Planned, Ahead
  <2> QED  BY <1>1, <2>1, <2>2, <2>3
<1> QED  BY <1>3, <1>6, <1>7, NoReader, PlanStep

LEMMA ReplyCounts ==
  ASSUME TrackingInv, TrackingInv', CountInv, NEW m \in Messages, ProcessReply(m)
  PROVE  CountStep(Reply)
<1> DEFINE first == <<"readForReply", "selectRecipient", "updateRecipient">>
<1>0. PICK open \in {<<"select", "update">>, <<>>} :
        Becomes(Reply, [Idle EXCEPT !.calls = first \o open, !.m = m,
                                    !.row = [message[m] EXCEPT !.opens = 1]])
  BY DEF ProcessReply
<1>a. PICK calls : calls = first \o open
  OBVIOUS
<1>b. PICK h : h = [Idle EXCEPT !.calls = calls, !.m = m,
                               !.row = [message[m] EXCEPT !.opens = 1]]
  OBVIOUS
<1>1. /\ open \in {<<"select", "update">>, <<>>}
      /\ calls = first \o open
      /\ h = [Idle EXCEPT !.calls = calls, !.m = m,
                          !.row = [message[m] EXCEPT !.opens = 1]]
      /\ Becomes(Reply, h)
  <2> HIDE DEF first
  <2> QED  BY <1>0, <1>a, <1>b
<1>2. /\ task[Reply] = Idle /\ Reply \in Processes
      /\ UNCHANGED <<message, recent, epoch, readings, overlaps, failures>>
  BY DEF ProcessReply, tables, log, history, Processes
<1>3. /\ h.calls = calls /\ h.m = m /\ h.row = [message[m] EXCEPT !.opens = 1]
      /\ h.reader = None /\ \A k \in Messages : h.todo[k] = NoRow
  BY <1>1, IdleHandler DEF Handlers, Idle, NoTodo
<1>4. h.row.opens = 1
  BY <1>3, RowFits DEF MessageRow
<1>5. Copied(h)
  BY <1>3, <1>4, RowFits DEF Copied
<1>6. \A i \in 1..Len(calls) : calls[i] # "unique"
  <2>1. first \in Seq(Names) /\ open \in Seq(Names)
    BY <1>1, PlansInOrder, EmptySeq DEF InOrder
  <2>2. /\ \A i \in 1..Len(first) : first[i] # "unique"
        /\ \A i \in 1..Len(open) : open[i] # "unique"
    BY <1>1
  <2> HIDE DEF first
  <2>3. \A i \in 1..Len(first) + Len(open) :
          (first \o open)[i] = IF i <= Len(first) THEN first[i] ELSE open[i - Len(first)]
    BY <2>1, ConcatProperties
  <2>4. Len(calls) = Len(first) + Len(open) /\ Len(first) \in Nat /\ Len(open) \in Nat
    BY <1>1, <2>1, ConcatProperties, LenProperties
  <2>5. ASSUME NEW i \in 1..Len(calls)  PROVE calls[i] # "unique"
    <3>1. CASE i <= Len(first)
      <4>1. i \in 1..Len(first) /\ calls[i] = first[i]
        BY <1>1, <2>3, <2>4, <3>1
      <4> QED  BY <2>2, <4>1
    <3>2. CASE ~(i <= Len(first))
      <4>1. i - Len(first) \in 1..Len(open) /\ calls[i] = open[i - Len(first)]
        BY <1>1, <2>3, <2>4, <3>2
      <4> QED  BY <2>2, <4>1
    <3> QED  BY <3>1, <3>2
  <2> QED  BY <2>5
<1>7. Planned(h)
  BY <1>3, <1>6 DEF Planned, Ahead
<1> QED  BY <1>1, <1>2, <1>5, <1>7, NoReader, PlanStep

LEMMA BounceCounts ==
  ASSUME TrackingInv, TrackingInv', CountInv, NEW m \in Messages, NEW method \in Methods,
         ProcessBounce(m, method)
  PROVE  CountStep(Bounce)
<1>1. PICK calls, h :
        /\ calls = <<"select", "update", "logBounce", "readForBounce",
                     "selectRecipient", "updateRecipient", "exclude", "bounces">>
        /\ h = [Idle EXCEPT !.calls = calls, !.m = m,
                            !.row = [message[m] EXCEPT !.status = "bounced"],
                            !.by = method]
        /\ Becomes(Bounce, h)
  BY DEF ProcessBounce
<1>2. /\ Calls(Bounce, "bounces") /\ Bounce \in Processes
      /\ UNCHANGED <<message, recent, epoch, readings, overlaps, failures>>
  BY DEF ProcessBounce, tables, log, history, Processes
<1>3. /\ h.calls = calls /\ h.m = m /\ h.row = [message[m] EXCEPT !.status = "bounced"]
      /\ h.reader = None /\ \A k \in Messages : h.todo[k] = NoRow
  BY <1>1, IdleHandler DEF Handlers, Idle, NoTodo
<1>4. h.row.opens = message[m].opens
  BY <1>3, RowFits DEF MessageRow
<1>5. Copied(h)
  BY <1>3, <1>4, RowFits DEF Copied
<1>6. Planned(h)
  BY <1>1, <1>3 DEF Planned, Ahead
<1>7. "bounces" \in Loops
  BY DEF Loops
<1> QED  BY <1>1, <1>2, <1>5, <1>6, <1>7, NoReader, PlanStep

LEMMA LoadCounts ==
  ASSUME TrackingInv, TrackingInv', CountInv, NEW p \in Processes,
         BackfillInferredOpens(p) \/ HealFalseBounces(p)
  PROVE  CountStep(p)
<1>1. PICK calls, todo, h :
        /\ h = [Idle EXCEPT !.calls = calls, !.todo = todo]
        /\ Becomes(p, h)
        /\ \/ /\ calls = <<"infer">>
              /\ \A m \in Messages : todo[m] # NoRow => todo[m].opens = 0
           \/ /\ calls \in {<<"revert">>, <<"revert", "bounces">>}
              /\ \A m \in Messages : todo[m] # NoRow => todo[m] = message[m]
  <2>1. CASE BackfillInferredOpens(p)
    <3> DEFINE found == [m \in Messages |->
                  IF /\ m \in Unopened
                     /\ \A n \in Unopened :
                          RecipientOf[n] = RecipientOf[m] => SentAt[n] <= SentAt[m]
                  THEN message[m] ELSE NoRow]
    <3>1. \A m \in Messages : found[m] # NoRow => found[m].opens = 0
      BY DEF Unopened
    <3>2. Becomes(p, [Idle EXCEPT !.calls = <<"infer">>, !.todo = found])
      BY <2>1 DEF BackfillInferredOpens
    <3>3. PICK calls : calls = <<"infer">>
      OBVIOUS
    <3> HIDE DEF found
    <3> QED  BY <3>1, <3>2, <3>3
  <2>2. CASE HealFalseBounces(p)
    <3> DEFINE found == [m \in Messages |->
                  IF message[m].status = "bounced" /\ Engaged(message[m])
                  THEN message[m] ELSE NoRow]
    <3>1. \A m \in Messages : found[m] # NoRow => found[m] = message[m]
      OBVIOUS
    <3>2. PICK calls : calls = IF p = Bounce THEN <<"revert", "bounces">> ELSE <<"revert">>
      OBVIOUS
    <3>3. Becomes(p, [Idle EXCEPT !.calls = calls, !.todo = found])
      BY <2>2, <3>2 DEF HealFalseBounces
    <3> HIDE DEF found
    <3> QED  BY <3>1, <3>2, <3>3
  <2> QED  BY <2>1, <2>2
<1>2. /\ task[p] = Idle \/ Calls(p, "heal")
      /\ UNCHANGED <<message, recent, epoch, readings, overlaps, failures>>
  BY DEF BackfillInferredOpens, HealFalseBounces, tables, log, history, counters
<1>3. h.calls = calls /\ h.row = NoRow /\ h.reader = None /\ h.todo = todo
  BY <1>1 DEF Idle
<1>4. /\ Planned(h)
      /\ calls \in {<<"revert">>, <<"revert", "bounces">>} => ~Ahead(h, "infer")
  BY <1>1, <1>3 DEF Planned, Ahead
<1>5. Copied(h)
  BY <1>1, <1>3, <1>4, RowFits DEF Copied
<1> QED  BY <1>1, <1>2, <1>4, <1>5, NoReader, PlanStep

LEMMA InferCounts ==
  ASSUME TrackingInv, TrackingInv', CountInv, NEW p \in Processes, InferOpen(p)
  PROVE  CountStep(p)
<1>1. /\ Calls(p, "infer") /\ "infer" \in Loops
      /\ UNCHANGED <<message, recent, epoch, readings, overlaps, failures>>
  BY DEF InferOpen, tables, log, history, counters, Loops
<1>2. Ready(task[p]) /\ Planned(task[p]) /\ Copied(task[p]) /\ task[p] \in Handlers
  BY DEF TrackingInv, HandlersReady, CountInv
<1>3. Ahead(task[p], "infer")
  <2>1. Len(task[p].calls) \in Nat \ {0} /\ task[p].calls[1] = "infer"
    BY <1>1, <1>2, FirstCall
  <2>2. 1 \in 1..Len(task[p].calls)
    BY <2>1
  <2> QED  BY <2>1, <2>2 DEF Ahead
<1>4. CASE Becomes(p, Idle)
  BY <1>1, <1>4, IdleCounts, NoReader, PlanStep
<1>5. ASSUME NEW m \in Messages, task[p].todo[m] # NoRow,
             Becomes(p, [task[p] EXCEPT
                 !.calls = <<"select", "update", "infer">>,
                 !.m = m,
                 !.row = [task[p].todo[m] EXCEPT !.opens = @ + 1],
                 !.todo[m] = NoRow])
      PROVE  CountStep(p)
  <2>1. task[p].todo[m] \in MessageRow /\ task[p].todo[m].opens = 0
    BY <1>2, <1>3, <1>5 DEF Handlers, Copied
  <2>2. PICK row : row = [task[p].todo[m] EXCEPT !.opens = @ + 1]
    OBVIOUS
  <2>3. row.opens = 1
    BY <2>1, <2>2 DEF MessageRow
  <2>4. PICK calls, todo : /\ calls = <<"select", "update", "infer">>
                           /\ todo = [task[p].todo EXCEPT ![m] = NoRow]
    OBVIOUS
  <2>5. PICK h : h = [task[p] EXCEPT !.calls = calls, !.m = m, !.row = row, !.todo = todo]
    OBVIOUS
  <2>6. Becomes(p, h)
    BY <1>2, <1>5, <2>2, <2>4, <2>5 DEF Handlers
  <2>7. /\ h.calls = calls /\ h.m = m /\ h.row = row /\ h.todo = todo
        /\ h.reader = task[p].reader
    BY <1>2, <2>5 DEF Handlers
  <2>8. task[p].reader = None
    BY <1>1, NoReader
  <2>9. Planned(h)
    BY <2>4, <2>7, <2>8 DEF Planned, Ahead
  <2>10. \A k \in Messages : todo[k] # NoRow => todo[k] = task[p].todo[k]
    BY <1>2, <2>4 DEF Handlers
  <2>11. Copied(h)
    BY <1>2, <1>3, <2>3, <2>7, <2>10, RowFits DEF Copied
  <2> QED  BY <1>1, <2>6, <2>8, <2>9, <2>11, PlanStep
<1> QED  BY <1>4, <1>5 DEF InferOpen

LEMMA RevertCounts ==
  ASSUME TrackingInv, TrackingInv', CountInv, NEW p \in Processes, RevertFalseBounce(p)
  PROVE  CountStep(p)
<1> DEFINE c == task[p].calls
<1>1. /\ Calls(p, "revert") /\ "revert" \in Loops
      /\ UNCHANGED <<message, recent, epoch, readings, overlaps, failures>>
  BY DEF RevertFalseBounce, tables, log, history, counters, Loops
<1>2. Ready(task[p]) /\ Planned(task[p]) /\ Copied(task[p]) /\ task[p] \in Handlers
  BY DEF TrackingInv, HandlersReady, CountInv
<1>3. c \in Seq(Names) /\ InOrder(c) /\ Len(c) \in Nat \ {0} /\ c # <<>> /\ c[1] = "revert"
  BY <1>1, <1>2, FirstCall
<1>4. task[p].reader = None
  BY <1>1, NoReader
<1>5. \A i \in 1..Len(c) : c[i] \in Loops
  BY <1>1, <1>3, LoopsLast
<1>6. CASE Becomes(p, After(p, 1))
  <2>1. 1 \in 1..Len(c)
    BY <1>3
  <2> QED  BY <1>1, <1>4, <1>6, <2>1, PlainCall
<1>7. ASSUME NEW m \in Messages, task[p].todo[m] # NoRow, NEW calls, NEW row, NEW todo,
             NEW h, h = [task[p] EXCEPT !.calls = calls, !.m = m, !.row = row, !.todo = todo],
             Becomes(p, h), calls = Repair \o c,
             row = [task[p].todo[m] EXCEPT !.status = "sent"],
             todo = [task[p].todo EXCEPT ![m] = NoRow]
      PROVE  CountStep(p)
  <2>1. /\ h.calls = calls /\ h.m = m /\ h.row = row /\ h.todo = todo
        /\ h.reader = task[p].reader
    BY <1>2, <1>7 DEF Handlers
  <2>2. row.opens = task[p].todo[m].opens
    BY <1>2, <1>7 DEF Handlers, MessageRow
  <2>3. \A k \in Messages : todo[k] # NoRow => todo[k] = task[p].todo[k]
    BY <1>2, <1>7 DEF Handlers
  <2>4. ASSUME NEW i \in 1..Len(calls)
        PROVE  calls[i] # "unique" /\ (calls[i] = "infer" => Ahead(task[p], "infer"))
    <3>1. Repair \in Seq(Names) /\ Len(Repair) = 6
          /\ \A j \in 1..6 : Repair[j] # "unique" /\ Repair[j] # "infer"
      BY PlansInOrder DEF Repair, InOrder
    <3>2. PICK first : first = Repair
      OBVIOUS
    <3>3. /\ Len(calls) = 6 + Len(c)
          /\ \A j \in 1..6 + Len(c) : calls[j] = IF j <= 6 THEN first[j] ELSE c[j - 6]
      <4>1. first \in Seq(Names) /\ Len(first) = 6 /\ calls = first \o c
        BY <1>7, <3>1, <3>2
      <4>2. /\ Len(first \o c) = Len(first) + Len(c)
            /\ \A j \in 1..Len(first) + Len(c) :
                 (first \o c)[j] = IF j <= Len(first) THEN first[j] ELSE c[j - Len(first)]
        BY <1>3, <4>1, ConcatProperties
      <4> HIDE DEF c
      <4> QED  BY <4>1, <4>2
    <3>4. CASE i <= 6
      BY <3>1, <3>2, <3>3, <3>4
    <3>5. CASE ~(i <= 6)
      <4>1. i - 6 \in 1..Len(c) /\ calls[i] = c[i - 6]
        BY <1>3, <3>3, <3>5
      <4> QED  BY <1>5, <4>1 DEF Ahead, Loops
    <3> QED  BY <3>4, <3>5
  <2>5. Planned(h)
    BY <1>4, <2>1, <2>4 DEF Planned, Ahead
  <2>6. Ahead(h, "infer") => Ahead(task[p], "infer")
    <3>1. ASSUME NEW i \in 1..Len(calls), calls[i] = "infer"  PROVE Ahead(task[p], "infer")
      BY <2>4, <3>1
    <3> QED  BY <2>1, <3>1 DEF Ahead
  <2>7. Copied(h)
    <3>1. row.opens <= Slack(m) + 1
      BY <1>2, <1>7, <2>2 DEF Copied
    <3>2. ASSUME NEW k \in Messages, todo[k] # NoRow
          PROVE  todo[k].opens <= Slack(k) + 1 /\ (Ahead(h, "infer") => todo[k].opens = 0)
      <4>1. todo[k] = task[p].todo[k]
        BY <2>3, <3>2
      <4> QED  BY <1>2, <2>6, <3>2, <4>1 DEF Copied
    <3> QED  BY <2>1, <3>1, <3>2 DEF Copied
  <2> QED  BY <1>1, <1>4, <1>7, <2>5, <2>7, PlanStep
<1>8. ASSUME NEW m \in Messages, NEW todo, NEW h, h = [task[p] EXCEPT !.todo = todo],
             Becomes(p, h), todo = [task[p].todo EXCEPT ![m] = NoRow]
      PROVE  CountStep(p)
  <2>1. /\ h.calls = c /\ h.m = task[p].m /\ h.row = task[p].row /\ h.todo = todo
        /\ h.reader = task[p].reader
    BY <1>2, <1>8 DEF Handlers
  <2>2. \A k \in Messages : todo[k] # NoRow => todo[k] = task[p].todo[k]
    BY <1>2, <1>8 DEF Handlers
  <2>3. Planned(h) /\ Copied(h)
    BY <1>2, <2>1, <2>2 DEF Planned, Copied, Ahead
  <2> QED  BY <1>1, <1>4, <1>8, <2>3, PlanStep
<1>9. CASE task[p].todo = NoTodo
  BY <1>6, <1>9 DEF RevertFalseBounce
<1>10. CASE task[p].todo # NoTodo
  <2>1. PICK m \in Messages :
          /\ task[p].todo[m] # NoRow
          /\ \/ Becomes(p, [task[p] EXCEPT
                             !.calls = Repair \o @, !.m = m, !.todo[m] = NoRow,
                             !.row = [task[p].todo[m] EXCEPT !.status = "sent"]])
             \/ Becomes(p, [task[p] EXCEPT !.todo[m] = NoRow])
    BY <1>10 DEF RevertFalseBounce
  <2>2. PICK calls, row, todo :
          /\ calls = Repair \o c
          /\ row = [task[p].todo[m] EXCEPT !.status = "sent"]
          /\ todo = [task[p].todo EXCEPT ![m] = NoRow]
    OBVIOUS
  <2>3. PICK h, g :
          /\ h = [task[p] EXCEPT !.calls = calls, !.m = m, !.row = row, !.todo = todo]
          /\ g = [task[p] EXCEPT !.todo = todo]
    OBVIOUS
  <2>4. Becomes(p, h) \/ Becomes(p, g)
    BY <1>2, <2>1, <2>2, <2>3 DEF Handlers
  <2> QED  BY <1>7, <1>8, <2>1, <2>2, <2>3, <2>4
<1> QED  BY <1>9, <1>10

\* When handlers end, at most one reading of each is lost.
LEMMA EndedGrow ==
  ASSUME TrackingInv, CountsTyped, NEW P \in SUBSET Processes,
         \A q \in Processes \ P : task[q].reader # None => task'[q] = task[q],
         failures' = failures + Cardinality(P),
         UNCHANGED <<recent, epoch, readings, overlaps>>
  PROVE  CountsTyped' /\ Grows
<1>1. IsFiniteSet(Processes)
  <2>1. IsFiniteSet(Workers \cup {Reply}) /\ IsFiniteSet((Workers \cup {Reply}) \cup {Bounce})
        /\ IsFiniteSet(((Workers \cup {Reply}) \cup {Bounce}) \cup {Boot})
    BY TrackingAssumption, FS_AddElement
  <2>2. Processes = ((Workers \cup {Reply}) \cup {Bounce}) \cup {Boot}
    BY DEF Processes
  <2> QED  BY <2>1, <2>2
<1>2. IsFiniteSet(P) /\ Cardinality(P) \in Nat
  BY <1>1, FS_Subset, FS_CardinalityType
<1>3. CountsTyped'
  BY <1>2 DEF CountsTyped
<1>4. ASSUME NEW m \in Messages
      PROVE  Slack(m) \in Nat /\ Slack(m)' \in Nat /\ Slack(m) <= Slack(m)'
  <2>1. /\ IsFiniteSet(Standing(m)) /\ IsFiniteSet(Standing(m)')
        /\ Slack(m) \in Nat /\ Slack(m)' \in Nat
    BY <1>3, SlackTypes, SlackTypesNext
  <2>2. PICK f : f = [q \in P |-> <<task[q].reader, epoch[m]>>]
    OBVIOUS
  <2>3. ASSUME NEW x \in Standing(m) \ Standing(m)'
        PROVE  \E q \in P : f[q] = x
    <3>1. x \in readings[m] /\ x \in Readers \X Nat /\ Stands(m, x) /\ ~Stands(m, x)'
      BY <2>3 DEF Standing, CountsTyped
    <3>2. x[2] = epoch[m] /\ x[1] \notin recent[m]
      BY <3>1 DEF Stands
    <3>3. PICK q \in Processes : /\ task[q].m = m /\ task[q].reader = x[1]
                                 /\ ~At(task[q], {"unique"})
      BY <3>1, <3>2 DEF Stands
    <3>4. task[q].reader # None
      BY <3>1, <3>3, TrackingAssumption
    <3>5. q \in P
      <4>1. task'[q] # task[q]
        BY <3>1, <3>3 DEF Stands
      <4> QED  BY <3>4, <4>1
    <3>6. f[q] = x
      BY <2>2, <3>1, <3>2, <3>3, <3>5
    <3> QED  BY <3>5, <3>6
  <2>4. Cardinality(Standing(m)) <= Cardinality(Standing(m)') + Cardinality(P)
    BY <1>2, <2>1, <2>3, LossBound
  <2>5. Cardinality(Standing(m)) \in Nat /\ Cardinality(Standing(m)') \in Nat
    BY <2>1, FS_CardinalityType
  <2>6. overlaps[m] \in Nat /\ failures \in Nat /\ overlaps'[m] = overlaps[m]
    BY DEF CountsTyped
  <2> QED  BY <1>2, <2>1, <2>4, <2>5, <2>6 DEF Slack
<1> QED  BY <1>3, <1>4 DEF Grows

\* Handlers that stay, end or start with the repairs
LEMMA Settled ==
  ASSUME TrackingInv, TrackingInv', CountInv, CountsTyped', Grows, UNCHANGED message,
         \A q \in Processes :
           task'[q] \in {task[q], Idle, [Idle EXCEPT !.calls = <<"heal">>]}
  PROVE  CountInv'
<1>1. PICK calls, boot : calls = <<"heal">> /\ boot = [Idle EXCEPT !.calls = calls]
  OBVIOUS
<1>2. Planned(boot) /\ Copied(boot)
  <2>1. boot.calls = calls /\ boot.reader = None /\ boot.row = NoRow /\ boot.todo = NoTodo
    BY <1>1 DEF Idle
  <2>2. Planned(boot)
    BY <1>1, <2>1 DEF Planned, Ahead
  <2> QED  BY <2>1, <2>2 DEF Copied, NoTodo
<1>3. ASSUME NEW q \in Processes  PROVE Planned(task'[q]) /\ Copied(task[q])'
  <2>1. PICK g \in Handlers : g = task'[q] /\ Planned(g) /\ Copied(g)
    BY <1>1, <1>2, IdleCounts DEF TrackingInv, HandlersReady, CountInv
  <2>2. Copied(g)'
    BY <2>1, CopiesStay
  <2> QED  BY <2>1, <2>2 DEF Copied
<1>4. MessagesFit'
  BY MessagesStay DEF CountInv, TrackingInv
<1> QED  BY <1>3, <1>4 DEF CountInv, Planned

LEMMA OtherCounts ==
  ASSUME TrackingInv, TrackingInv', CountInv,
         \/ \E p \in Processes : HandlerFails(p)
         \/ CloseInbox
         \/ \E e \in Emails : RemoveExclusion(e)
         \/ \E m \in Messages : RecentOpensAge(m)
         \/ Restart
         \/ UNCHANGED vars
  PROVE  CountInv'
<1>1. ASSUME NEW p \in Processes, HandlerFails(p)  PROVE CountInv'
  <2>1. /\ task' = [task EXCEPT ![p] = Idle] /\ failures' = failures + 1
        /\ UNCHANGED <<message, recent, epoch, readings, overlaps>>
    BY <1>1 DEF HandlerFails, Becomes, tables, log, history
  <2>2. \A q \in Processes : task'[q] = IF q = p THEN Idle ELSE task[q]
    BY <2>1 DEF TrackingInv, HandlersReady
  <2>3. PICK P \in SUBSET Processes : P = {p}
    OBVIOUS
  <2>4. Cardinality(P) = 1
    BY <2>3, FS_Singleton
  <2>5. \A q \in Processes \ P : task[q].reader # None => task'[q] = task[q]
    BY <2>2, <2>3
  <2>6. CountsTyped' /\ Grows
    BY <2>1, <2>4, <2>5, EndedGrow DEF CountInv
  <2> QED  BY <2>1, <2>2, <2>6, Settled
<1>2. CASE Restart
  <2>1. /\ task' = Booting
        /\ failures' = failures + Cardinality({p \in Processes : task[p] # Idle})
        /\ UNCHANGED <<message, recent, epoch, readings, overlaps>>
    BY <1>2 DEF Restart, tables, log, history
  <2>2. PICK P \in SUBSET Processes : P = {p \in Processes : task[p] # Idle}
    OBVIOUS
  <2>3. \A q \in Processes \ P : task[q].reader # None => task'[q] = task[q]
    BY <2>2, IdleHandler
  <2>4. CountsTyped' /\ Grows
    BY <2>1, <2>2, <2>3, EndedGrow DEF CountInv
  <2>5. \A q \in Processes : task'[q] \in {Idle, [Idle EXCEPT !.calls = <<"heal">>]}
    BY <2>1 DEF Booting
  <2> QED  BY <2>1, <2>4, <2>5, Settled
<1>3. ASSUME NEW m \in Messages, RecentOpensAge(m)  PROVE CountInv'
  <2>1. /\ recent' = [recent EXCEPT ![m] = {}] /\ epoch' = [epoch EXCEPT ![m] = @ + 1]
        /\ UNCHANGED <<message, task, readings, overlaps, failures>>
    BY <1>3 DEF RecentOpensAge, tables, counters
  <2>2. CountsTyped'
    <3>1. epoch' \in [Messages -> Nat] /\ \A k \in Messages : epoch[k] <= epoch'[k]
      BY <2>1 DEF CountInv, CountsTyped
    <3>2. ASSUME NEW k \in Messages, NEW x \in readings[k]  PROVE x[2] <= epoch'[k]
      <4>1. x[2] \in Nat /\ x[2] <= epoch[k] /\ epoch[k] \in Nat /\ epoch'[k] \in Nat
        BY <3>1 DEF CountInv, CountsTyped
      <4> QED  BY <3>1, <4>1
    <3> QED  BY <2>1, <3>1, <3>2 DEF CountInv, CountsTyped
  <2>3. ASSUME NEW k \in Messages  PROVE Standing(k) \subseteq Standing(k)'
    <3> SUFFICES ASSUME NEW x \in readings[k], Stands(k, x)  PROVE Stands(k, x)'
      BY <2>1 DEF Standing
    <3>1. CASE k = m
      <4>1. x[2] <= epoch[m] /\ x[2] \in Nat /\ epoch[m] \in Nat /\ epoch'[m] = epoch[m] + 1
        BY <2>1, <3>1 DEF CountInv, CountsTyped
      <4>2. x[2] # epoch'[m]
        BY <4>1
      <4> QED  BY <3>1, <4>2 DEF Stands
    <3>2. CASE k # m
      BY <2>1, <3>2 DEF Stands, TrackingInv, TypeOK, CountInv, CountsTyped
    <3> QED  BY <3>1, <3>2
  <2>4. Grows
    <3>1. \A k \in Messages : overlaps[k] <= overlaps'[k] /\ failures <= failures'
      BY <2>1 DEF CountInv, CountsTyped
    <3> QED  BY <2>2, <2>3, <3>1, StandGrows DEF Grows, CountInv
  <2> QED  BY <2>1, <2>2, <2>4, Settled
<1>4. CASE CloseInbox
  <2>1. /\ Calls(Bounce, "bounces") /\ Becomes(Bounce, Idle) /\ Bounce \in Processes
        /\ UNCHANGED <<message, recent, epoch, readings, overlaps, failures>>
    BY <1>4 DEF CloseInbox, tables, log, history, counters, Processes
  <2>2. "bounces" \in Loops
    BY DEF Loops
  <2>3. CountStep(Bounce)
    BY <2>1, <2>2, IdleCounts, NoReader, PlanStep
  <2> QED  BY <2>1, <2>3, CountStepKeeps
<1>5. ASSUME UNCHANGED <<message, task, recent, epoch, readings, overlaps, failures>>
      PROVE  CountInv'
  <2>1. \A m \in Messages : \A x : Stands(m, x)' <=> Stands(m, x)
    BY <1>5 DEF Stands
  <2>2. \A m \in Messages : Standing(m)' = Standing(m)
    BY <1>5, <2>1 DEF Standing
  <2>3. \A m \in Messages : Slack(m)' = Slack(m)
    BY <1>5, <2>2 DEF Slack
  <2>4. CountsTyped' /\ MessagesFit'
    BY <1>5, <2>3 DEF CountInv, CountsTyped, MessagesFit
  <2>5. \A p \in Processes : Planned(task[p])' /\ Copied(task[p])'
    <3>1. \A p \in Processes : Planned(task[p]) /\ Copied(task[p])
      BY DEF CountInv
    <3> QED  BY <1>5, <2>3, <3>1 DEF Copied, Planned
  <2> QED  BY <2>4, <2>5 DEF CountInv
<1>6. ASSUME NEW e \in Emails, RemoveExclusion(e)  PROVE CountInv'
  BY <1>5, <1>6 DEF RemoveExclusion, log
<1>7. CASE UNCHANGED vars
  BY <1>5, <1>7 DEF vars, tables, log, history, counters
<1> QED  BY <1>1, <1>2, <1>3, <1>4, <1>6, <1>7

LEMMA InitCounts == Init => CountInv
<1> SUFFICES ASSUME Init  PROVE CountInv
  OBVIOUS
<1>1. CountsTyped
  BY FS_EmptySet DEF Init, CountsTyped
<1>2. \A m \in Messages : Slack(m) \in Nat
  BY <1>1, SlackTypes
<1>3. MessagesFit
  BY <1>2 DEF MessagesFit, Init
<1> QED  BY <1>1, <1>3, IdleCounts DEF CountInv, Init

LEMMA NextCounts == TrackingInv /\ TrackingInv' /\ CountInv /\ [Next]_vars => CountInv'
<1> SUFFICES ASSUME TrackingInv, TrackingInv', CountInv, [Next]_vars  PROVE CountInv'
  OBVIOUS
<1>1. ASSUME NEW p \in Processes, CountStep(p)  PROVE CountInv'
  BY <1>1, CountStepKeeps
<1>2. ASSUME NEW p \in Processes, Call(p)  PROVE CountStep(p)
  <2>1. CASE IsUniqueOpen(p)
    BY <2>1, OpenLookup
  <2>2. CASE LogOpen(p)
    BY <2>2, LoggedOpen
  <2>3. CASE UpdateMessage(p)
    BY <2>3, SavedMessage
  <2>4. CASE InferOpen(p)
    BY <2>4, InferCounts
  <2>5. CASE HealFalseBounces(p)
    BY <2>5, LoadCounts
  <2>6. CASE RevertFalseBounce(p)
    BY <2>6, RevertCounts
  <2>7. CASE \/ SelectMessage(p) \/ SelectRecipient(p) \/ UpdateRecipient(p)
             \/ ReadForUnsubscribe(p) \/ ReadForReply(p) \/ ReadForHeal(p)
             \/ ReadForBounce(p) \/ Exclude(p) \/ Readmit(p) \/ Answer(p) \/ LogBounce(p)
    BY <2>7, PlainCalls
  <2> QED  BY <1>2, <2>1, <2>2, <2>3, <2>4, <2>5, <2>6, <2>7 DEF Call
<1>3. CASE Incoming
  <2>1. Workers \cup {Reply, Bounce} \subseteq Processes
    BY DEF Processes
  <2>2. ASSUME NEW w \in Workers, NEW m \in Messages,
               \/ \E reader \in Readers : RecordOpen(w, m, reader)
               \/ RecordClick(w, m) \/ RecordUnsubscribe(w, m)
        PROVE  CountInv'
    BY <1>1, <2>1, <2>2, ArrivalCounts
  <2>3. ASSUME NEW p \in Workers \cup {Reply}, BackfillInferredOpens(p)  PROVE CountInv'
    BY <1>1, <2>1, <2>3, LoadCounts
  <2>4. ASSUME NEW m \in Messages, ProcessReply(m)  PROVE CountInv'
    BY <1>1, <2>1, <2>4, ReplyCounts
  <2>5. ASSUME NEW m \in Messages, NEW method \in Methods, ProcessBounce(m, method)
        PROVE  CountInv'
    BY <1>1, <2>1, <2>5, BounceCounts
  <2> QED  BY <1>3, <2>2, <2>3, <2>4, <2>5, OtherCounts DEF Incoming
<1>4. CASE ~Incoming
  BY <1>1, <1>2, <1>4, OtherCounts DEF Next
<1> QED  BY <1>3, <1>4

\* openCount counts readers, not hits, for any number of handlers that read the
\* row, look up the recent events, save the row and log the event in any order:
\* what exceeds the different readers of every five minutes is one open inferred
\* from a reply, hits while one of the same reader was not logged yet, and
\* handlers that ended before they logged theirs.
THEOREM OpensCountOnce == Spec => []RepeatsCountOnce
<1>1. TrackingInv /\ CountInv => RepeatsCountOnce
  <2> SUFFICES ASSUME TrackingInv, CountInv, NEW m \in Messages
               PROVE  message[m].opens <= Cardinality(readings[m]) + 1 + overlaps[m] + failures
    BY DEF RepeatsCountOnce
  <2>1. message[m].opens \in Nat /\ message[m].opens <= Slack(m) + 1
    BY RowFits DEF MessageRow
  <2>2. Standing(m) \in SUBSET readings[m] /\ IsFiniteSet(readings[m])
    BY DEF Standing, CountInv, CountsTyped
  <2>3. /\ Cardinality(Standing(m)) <= Cardinality(readings[m])
        /\ Cardinality(Standing(m)) \in Nat /\ Cardinality(readings[m]) \in Nat
    BY <2>2, FS_Subset, FS_CardinalityType
  <2>4. overlaps[m] \in Nat /\ failures \in Nat
    BY DEF CountInv, CountsTyped
  <2> QED  BY <2>1, <2>3, <2>4 DEF Slack
<1>2. Init => TrackingInv /\ CountInv
  BY InitTracking, InitCounts
<1>3. TrackingInv /\ CountInv /\ [Next]_vars => (TrackingInv /\ CountInv)'
  BY NextTracking, NextCounts
<1> QED  BY <1>1, <1>2, <1>3, PTL DEF Spec

=============================================================================
