------------------------- MODULE ConnectRuby_proofs -------------------------
(***************************************************************************)
(* Proofs about signal delivery, for any sets of objects and methods and   *)
(* any bounds: in particular for event loops nested to any depth.          *)
(***************************************************************************)
EXTENDS ConnectRuby, SequenceTheorems, TLAPS

(* Everything in flight belongs to a connection that has been made.        *)
Made(n) == [conn : 1 .. n, arg : Args]
OwnFrame == {f \in Frame : f.arg = f.ev.arg}

InFlight ==
    /\ links \in [QtObjs -> Seq(1 .. nconns)]
    /\ conns5 \in [RbObjs -> Seq(1 .. nconns)]
    /\ queue \in Seq(Made(nconns))
    /\ filtered \in Made(nconns) \cup {NULL}

(* The event between its filter and its router is the connection's mcevt;  *)
(* every running slot has its own event's arguments.                       *)
Dispatch ==
    /\ filtered # NULL => mcevt[filtered.conn] = filtered
    /\ frames \in Seq(OwnFrame)

(* The ends of every connection.                                           *)
Ends ==
    \A c \in 1 .. nconns :
        /\ conns[c] \in Conn
        /\ conns[c].receiver \notin collected
        /\ conns[c].kind = "qtconnectqt" => conns[c].receiver \in QtObjs
        /\ conns[c].kind = "qtconnectrb" => conns[c].sender \in QtObjs

SendersStay == ~ Destroys => alive = QtObjs

ConnInv == TypeOK /\ InFlight /\ Dispatch /\ Ends /\ SendersStay /\ RouterAsserts

----------------------------------------------------------------------------
LEMMA EventsForType ==
    ASSUME NEW k \in Nat, NEW cs \in Seq(1 .. k), NEW n \in Args
    PROVE  EventsFor(cs, n) \in Seq(Made(k))
<1>1. Len(cs) \in Nat /\ \A i \in 1 .. Len(cs) : cs[i] \in 1 .. k
  BY LenProperties, ElementOfSeq
<1>2. \A i \in 1 .. Len(cs) : [conn |-> cs[i], arg |-> n] \in Made(k)
  BY <1>1 DEF Made
<1> DEFINE e(i) == [conn |-> cs[i], arg |-> n]
<1>3. [i \in 1 .. Len(cs) |-> e(i)] \in Seq(Made(k))
  <2> \A i \in 1 .. Len(cs) : e(i) \in Made(k)
    BY <1>2
  <2> HIDE DEF e
  <2> QED
    BY <1>1
<1> QED
  BY <1>3 DEF EventsFor

(* Posting an emission keeps the queue well formed.                        *)
LEMMA PostType ==
    ASSUME nconns \in 0 .. MaxConns, MaxConns \in Nat, queue \in Seq(Made(nconns)),
           NEW cs \in Seq(1 .. nconns), NEW n \in Args
    PROVE  queue \o EventsFor(cs, n) \in Seq(Made(nconns))
<1>1. EventsFor(cs, n) \in Seq(Made(nconns))
  BY EventsForType
<1> QED
  BY <1>1, ConcatProperties

LEMMA MadeEvent ==
    ASSUME NEW n \in 0 .. MaxConns, MaxConns \in Nat
    PROVE  Made(n) \subseteq Event
BY DEF Made, Event, ConnIds

LEMMA InitInv == Init => ConnInv
<1> SUFFICES ASSUME Init PROVE ConnInv
  OBVIOUS
<1> USE ConnectAssumption DEF Init
<1>1. TypeOK
  BY DEF TypeOK
<1>2. InFlight /\ Dispatch
  BY DEF InFlight, Dispatch
<1>3. Ends /\ SendersStay /\ RouterAsserts
  BY DEF Ends, SendersStay, RouterAsserts
<1> QED
  BY <1>1, <1>2, <1>3 DEF ConnInv

(* A new connection: everything that was in flight still belongs to a      *)
(* connection that has been made.                                          *)
LEMMA NewConnInv ==
    ASSUME ConnInv, NEW kind \in Kinds,
           NEW s \in QtObjs \cup RbObjs, NEW r \in QtObjs \cup RbObjs,
           NewConn(kind, s, r),
           r \notin collected,
           kind = "qtconnectqt" => r \in QtObjs,
           kind = "qtconnectrb" => s \in QtObjs,
           links' = links \/ (s \in QtObjs /\
                              links' = [links EXCEPT ![s] = Append(@, nconns + 1)]),
           conns5' = conns5 \/ (s \in RbObjs /\
                              conns5' = [conns5 EXCEPT ![s] = Append(@, nconns + 1)]),
           UNCHANGED <<objVars, queue, loopVars, nemits, acalled, aborted>>
    PROVE  ConnInv'
<1> USE ConnectAssumption DEF ConnInv, objVars, loopVars
<1>1. /\ nconns \in 0 .. MaxConns /\ nconns + 1 \in ConnIds
      /\ nconns' = nconns + 1
      /\ nconns' \in 0 .. MaxConns
      /\ conns' = [conns EXCEPT ![nconns + 1] =
                      [kind |-> kind, sender |-> s, receiver |-> r]]
      /\ [kind |-> kind, sender |-> s, receiver |-> r] \in Conn
  BY DEF TypeOK, NewConn, ConnIds, Conn
<1>2. \A q \in Seq(1 .. nconns) : q \in Seq(1 .. nconns') /\ q \in Seq(ConnIds)
  BY <1>1, SeqMonotonic DEF ConnIds
<1>3. \A q \in Seq(1 .. nconns) :
         Append(q, nconns + 1) \in Seq(1 .. nconns') /\ Append(q, nconns + 1) \in Seq(ConnIds)
  BY <1>1, <1>2, AppendProperties DEF ConnIds
<1>4. Made(nconns) \subseteq Made(nconns')
  BY <1>1 DEF Made
<1>5. /\ links' \in [QtObjs -> Seq(1 .. nconns')] /\ links' \in [QtObjs -> Seq(ConnIds)]
      /\ conns5' \in [RbObjs -> Seq(1 .. nconns')] /\ conns5' \in [RbObjs -> Seq(ConnIds)]
  BY <1>2, <1>3 DEF InFlight
<1>6. queue' \in Seq(Made(nconns'))
  BY <1>4, SeqMonotonic DEF InFlight
<1>7. InFlight'
  BY <1>4, <1>5, <1>6 DEF InFlight, Made
<1>8. TypeOK'
  BY <1>1, <1>5 DEF TypeOK
<1>9. Dispatch'
  BY DEF Dispatch, TypeOK
<1>10. Ends'
  <2> SUFFICES ASSUME NEW c \in 1 .. nconns'
               PROVE  /\ conns'[c] \in Conn
                      /\ conns'[c].receiver \notin collected
                      /\ conns'[c].kind = "qtconnectqt" => conns'[c].receiver \in QtObjs
                      /\ conns'[c].kind = "qtconnectrb" => conns'[c].sender \in QtObjs
    BY DEF Ends
  <2>1. CASE c = nconns + 1
    <3>1. conns'[c] = [kind |-> kind, sender |-> s, receiver |-> r]
      BY <1>1, <2>1 DEF TypeOK
    <3> QED
      BY <1>1, <3>1
  <2>2. CASE c # nconns + 1
    <3>1. c \in 1 .. nconns /\ c \in ConnIds
      BY <1>1, <2>2 DEF ConnIds
    <3>2. conns'[c] = conns[c]
      BY <1>1, <2>2, <3>1 DEF TypeOK
    <3> QED
      BY <3>1, <3>2 DEF Ends
  <2> QED
    BY <2>1, <2>2
<1>11. SendersStay' /\ RouterAsserts'
  BY DEF SendersStay, RouterAsserts
<1> QED
  BY <1>7, <1>8, <1>9, <1>10, <1>11

(* An emission, of either side.                                            *)
LEMMA EmitInv ==
    ASSUME ConnInv, NEW cs \in Seq(1 .. nconns),
           nemits < MaxEmits,
           nemits' = nemits + 1,
           queue' = queue \/ queue' = queue \o EventsFor(cs, nemits + 1),
           acalled' \subseteq Event,
           UNCHANGED <<connVars, objVars, loopVars, aborted>>
    PROVE  ConnInv'
<1> USE ConnectAssumption DEF ConnInv, connVars, objVars, loopVars
<1>1. nemits + 1 \in Args /\ nconns \in 0 .. MaxConns
  BY DEF TypeOK, Args
<1>2. queue' \in Seq(Made(nconns))
  <2>1. queue \in Seq(Made(nconns)) /\ MaxConns \in Nat
    BY DEF InFlight
  <2>2. queue \o EventsFor(cs, nemits + 1) \in Seq(Made(nconns))
    BY <1>1, <2>1, PostType
  <2> QED
    BY <2>1, <2>2
<1>3. queue' \in Seq(Event)
  BY <1>1, <1>2, MadeEvent, SeqMonotonic
<1>4. TypeOK'
  BY <1>1, <1>3 DEF TypeOK, Args
<1>5. InFlight'
  BY <1>2 DEF InFlight, Made
<1>6. Dispatch' /\ Ends' /\ SendersStay' /\ RouterAsserts'
  BY DEF Dispatch, Ends, SendersStay, RouterAsserts
<1> QED
  BY <1>4, <1>5, <1>6

LEMMA FilterInv == ConnInv /\ eventFilter => ConnInv'
<1> SUFFICES ASSUME ConnInv, eventFilter PROVE ConnInv'
  OBVIOUS
<1> USE ConnectAssumption DEF ConnInv, connVars, objVars
<1> DEFINE e == Head(queue)
<1>1. e \in Made(nconns) /\ Tail(queue) \in Seq(Made(nconns))
  BY HeadTailProperties DEF InFlight, eventFilter
<1>2. e \in Event /\ Tail(queue) \in Seq(Event) /\ e.conn \in ConnIds
  BY <1>1, MadeEvent, SeqMonotonic DEF TypeOK, Event
<1>3. /\ mcevt' = [mcevt EXCEPT ![e.conn] = e]
      /\ filtered' = e
      /\ queue' = Tail(queue)
      /\ UNCHANGED <<connVars, objVars, frames, runs, nemits, acalled, aborted>>
  BY DEF eventFilter
<1> HIDE DEF e
<1>4. TypeOK'
  BY <1>2, <1>3 DEF TypeOK
<1>5. InFlight'
  BY <1>1, <1>3 DEF InFlight, Made
<1>6. Dispatch'
  BY <1>2, <1>3 DEF Dispatch, TypeOK
<1>7. Ends' /\ SendersStay' /\ RouterAsserts'
  BY <1>3 DEF Ends, SendersStay, RouterAsserts
<1> QED
  BY <1>4, <1>5, <1>6, <1>7

LEMMA RouterInv == ConnInv /\ router => ConnInv'
<1> SUFFICES ASSUME ConnInv, router PROVE ConnInv'
  OBVIOUS
<1> USE ConnectAssumption DEF ConnInv, connVars, objVars
<1> DEFINE c == filtered.conn
<1>1. /\ filtered \in Made(nconns) /\ filtered \in Event
      /\ c \in 1 .. nconns /\ c \in ConnIds
      /\ mcevt[c] = filtered /\ mcevt[c] # NULL
      /\ filtered.arg \in Args
  BY MadeEvent DEF router, InFlight, Dispatch, TypeOK, Made, Event
<1>2. CASE conns[c].kind = "qtconnectrb" /\ conns[c].sender \notin alive
  <2>1. /\ aborted' = "sender"
        /\ UNCHANGED <<filtered, frames, runs>>
        /\ UNCHANGED <<connVars, objVars, queue, mcevt, nemits, acalled>>
    BY <1>1, <1>2 DEF router
  <2>2. Destroys
    BY <1>1, <1>2 DEF Ends, SendersStay
  <2>3. TypeOK'
    BY <2>1 DEF TypeOK
  <2> QED
    BY <2>1, <2>2, <2>3 DEF InFlight, Dispatch, Ends, SendersStay, RouterAsserts, Made
<1>3. CASE ~ (conns[c].kind = "qtconnectrb" /\ conns[c].sender \notin alive)
  <2>1. /\ frames' = Append(frames, [ev |-> filtered, arg |-> filtered.arg])
        /\ runs' = [runs EXCEPT ![c] = Append(@, filtered.arg)]
        /\ filtered' = NULL
        /\ UNCHANGED <<connVars, objVars, queue, mcevt, nemits, acalled, aborted>>
    BY <1>1, <1>3 DEF router
  <2>2. [ev |-> filtered, arg |-> filtered.arg] \in OwnFrame
    BY <1>1 DEF OwnFrame, Frame
  <2>3. frames' \in Seq(OwnFrame)
    BY <2>1, <2>2, AppendProperties DEF Dispatch
  <2>4. frames' \in Seq(Frame)
    BY <2>3, SeqMonotonic DEF OwnFrame
  <2>5. Append(runs[c], filtered.arg) \in Seq(Args)
    BY <1>1, AppendProperties DEF TypeOK
  <2>6. TypeOK'
    BY <2>1, <2>4, <2>5 DEF TypeOK
  <2> QED
    BY <2>1, <2>3, <2>6 DEF InFlight, Dispatch, Ends, SendersStay, RouterAsserts, Made
<1> QED
  BY <1>2, <1>3

LEMMA ReturnInv == ConnInv /\ SlotReturns => ConnInv'
<1> SUFFICES ASSUME ConnInv, SlotReturns PROVE ConnInv'
  OBVIOUS
<1> USE DEF ConnInv, connVars, objVars
<1>1. /\ frames # <<>>
      /\ frames' = SubSeq(frames, 1, Len(frames) - 1)
      /\ UNCHANGED <<connVars, objVars, queue, mcevt, filtered, runs, nemits,
                     acalled, aborted>>
  BY DEF SlotReturns
<1>2. frames' \in Seq(OwnFrame)
  <2>1. Len(frames) \in Nat /\ \A i \in 1 .. Len(frames) - 1 : frames[i] \in OwnFrame
    BY LenProperties, ElementOfSeq DEF Dispatch
  <2> QED
    BY <1>1, <2>1, SubSeqProperties
<1>3. frames' \in Seq(Frame)
  BY <1>2, SeqMonotonic DEF OwnFrame
<1>4. TypeOK'
  BY <1>1, <1>3 DEF TypeOK
<1> QED
  BY <1>1, <1>2, <1>4 DEF InFlight, Dispatch, Ends, SendersStay, RouterAsserts, Made

LEMMA QtSlotInv == ConnInv /\ QtSlot => ConnInv'
<1> SUFFICES ASSUME ConnInv, QtSlot PROVE ConnInv'
  OBVIOUS
<1> USE ConnectAssumption DEF ConnInv, connVars, objVars
<1>1. Head(queue) \in Made(nconns) /\ Tail(queue) \in Seq(Made(nconns))
  BY HeadTailProperties DEF InFlight, QtSlot
<1>2. Tail(queue) \in Seq(Event) /\ Head(queue).conn \in ConnIds /\ Head(queue).arg \in Args
  BY <1>1, MadeEvent, SeqMonotonic DEF TypeOK, Event
<1>3. runs' \in [ConnIds -> Seq(Args)]
  <2>1. Append(runs[Head(queue).conn], Head(queue).arg) \in Seq(Args)
    BY <1>2, AppendProperties DEF TypeOK
  <2> QED
    BY <1>2, <2>1 DEF QtSlot, TypeOK
<1>4. /\ queue' = Tail(queue)
      /\ UNCHANGED <<connVars, objVars, mcevt, filtered, frames, nemits, acalled,
                     aborted>>
  BY DEF QtSlot
<1>5. TypeOK'
  BY <1>2, <1>3, <1>4 DEF TypeOK
<1>6. InFlight'
  BY <1>1, <1>4 DEF InFlight, Made
<1> QED
  BY <1>4, <1>5, <1>6 DEF Dispatch, Ends, SendersStay, RouterAsserts

LEMMA NextInv == ConnInv /\ [Next]_vars => ConnInv'
<1> SUFFICES ASSUME ConnInv, [Next]_vars PROVE ConnInv'
  OBVIOUS
<1> USE ConnectAssumption
<1>1. ASSUME NEW s \in QtObjs, NEW r \in RbObjs, create_qtconnectrb(s, r) PROVE ConnInv'
  BY <1>1, NewConnInv DEF create_qtconnectrb, Kinds
<1>2. ASSUME NEW s \in QtObjs, NEW o \in QtObjs, create_qtconnectqt(s, o) PROVE ConnInv'
  <2>1. o \notin collected
    BY DEF ConnInv, TypeOK
  <2> QED
    BY <1>2, <2>1, NewConnInv DEF create_qtconnectqt, Kinds
<1>3. ASSUME NEW s \in RbObjs, NEW r \in RbObjs, create_rbconnectrb(s, r) PROVE ConnInv'
  BY <1>3, NewConnInv DEF create_rbconnectrb, Kinds
<1>4. CASE create_nothing \/ UNCHANGED vars
  BY <1>4 DEF create_nothing, vars, ConnInv, TypeOK, InFlight, Dispatch, Ends, SendersStay,
              RouterAsserts, Made, connVars, objVars, loopVars
<1>5. ASSUME NEW s \in QtObjs, QtEmit(s) PROVE ConnInv'
  <2>1. links[s] \in Seq(1 .. nconns) /\ acalled \subseteq Event
    BY DEF ConnInv, InFlight, TypeOK
  <2> QED
    BY <1>5, <2>1, EmitInv DEF QtEmit
<1>6. ASSUME NEW s \in RbObjs, RubyEmit(s) PROVE ConnInv'
  <2>1. conns5[s] \in Seq(1 .. nconns)
    BY DEF ConnInv, InFlight
  <2>2. acalled' \subseteq Event
    <3>1. nemits + 1 \in Args
      BY <1>6 DEF RubyEmit, ConnInv, TypeOK, Args
    <3>2. \A i \in 1 .. Len(conns5[s]) : conns5[s][i] \in ConnIds
      BY ElementOfSeq DEF ConnInv, TypeOK
    <3> QED
      BY <1>6, <3>1, <3>2 DEF RubyEmit, ConnInv, TypeOK, Event
  <2> QED
    BY <1>6, <2>1, <2>2, EmitInv DEF RubyEmit
<1>7. ASSUME NEW o \in QtObjs, QtDestroy(o) PROVE ConnInv'
  BY <1>7 DEF QtDestroy, ConnInv, TypeOK, InFlight, Dispatch, Ends, SendersStay,
              RouterAsserts, Made, connVars, objVars, loopVars
<1>8. ASSUME NEW r \in RbObjs, Collect(r) PROVE ConnInv'
  <2> USE DEF ConnInv
  <2>1. Ends'
    BY <1>8 DEF Collect, Registered, Ends, connVars, loopVars
  <2> QED
    BY <1>8, <2>1 DEF Collect, TypeOK, InFlight, Dispatch, SendersStay,
              RouterAsserts, Made, connVars, loopVars
<1> QED
  BY <1>1, <1>2, <1>3, <1>4, <1>5, <1>6, <1>7, <1>8, FilterInv, RouterInv, ReturnInv,
     QtSlotInv DEF Next, Program, EventLoop

(* The inductive invariant of signal delivery (connectruby.cpp).           *)
THEOREM ConnInvariant == Spec => []ConnInv
BY InitInv, NextInv, PTL DEF Spec

(* The state of signal delivery is well typed in every behaviour.          *)
THEOREM ConnTypeCorrect == Spec => []TypeOK
<1>1. ConnInv => TypeOK
  BY DEF ConnInv
<1> QED
  BY <1>1, ConnInvariant, PTL

(* However deep event loops are nested, every running slot has the         *)
(* arguments of its own event.                                             *)
THEOREM OwnArgumentsHold == Spec => []OwnArguments
<1>1. ConnInv => OwnArguments
  <2> SUFFICES ASSUME ConnInv, NEW i \in 1 .. Len(frames)
               PROVE  frames[i].arg = frames[i].ev.arg
    BY DEF OwnArguments
  <2>1. frames[i] \in OwnFrame
    BY ElementOfSeq DEF ConnInv, Dispatch
  <2> QED
    BY <2>1 DEF OwnFrame
<1> QED
  BY <1>1, ConnInvariant, PTL

(* The assertions of QtConnectRuby::router do not fire when Qt deletes no  *)
(* sender, for any number of objects, connections and nested loops.        *)
THEOREM RouterAssertsHold == Spec => []RouterAsserts
<1>1. ConnInv => RouterAsserts
  BY DEF ConnInv
<1> QED
  BY <1>1, ConnInvariant, PTL

(* No connection's receiver is collected, so none with an event waiting    *)
(* or a slot running is.                                                   *)
THEOREM ReceiverKeptHolds == Spec => []ReceiverKept
<1>1. ConnInv => ReceiverKept
  BY DEF ConnInv, Ends, ReceiverKept
<1> QED
  BY <1>1, ConnInvariant, PTL

----------------------------------------------------------------------------
(* The order of delivery: no connection is twice in a sender's list, no    *)
(* emission is numbered beyond nemits, and the events of one connection    *)
(* leave the queue in the order of their emissions, the one between filter *)
(* and router first.                                                       *)
NoRepeats(cs) == \A i, j \in 1 .. Len(cs) : i # j => cs[i] # cs[j]

Numbered ==
    /\ \A i \in 1 .. Len(queue) : queue[i].arg <= nemits
    /\ filtered # NULL => filtered.arg <= nemits
    /\ \A c \in ConnIds : \A i \in 1 .. Len(runs[c]) : runs[c][i] <= nemits

InOrder ==
    /\ \A i, j \in 1 .. Len(queue) :
          i < j /\ queue[i].conn = queue[j].conn => queue[i].arg < queue[j].arg
    /\ filtered # NULL =>
          \A i \in 1 .. Len(queue) :
             queue[i].conn = filtered.conn => filtered.arg < queue[i].arg

OrderInv ==
    /\ \A s \in QtObjs : NoRepeats(links[s])
    /\ \A r \in RbObjs : NoRepeats(conns5[r])
    /\ Numbered
    /\ InOrder

(* What is posted for one emission comes after everything in the queue.    *)
LEMMA EventsForElements ==
    ASSUME NEW k \in Nat, NEW cs \in Seq(1 .. k), NEW n \in Args
    PROVE  /\ Len(EventsFor(cs, n)) = Len(cs)
           /\ \A i \in 1 .. Len(cs) : EventsFor(cs, n)[i] = [conn |-> cs[i], arg |-> n]
BY LenProperties DEF EventsFor

(* A new connection is at the end of one list, where it was not before.    *)
LEMMA AppendNoRepeats ==
    ASSUME NEW k \in Nat, NEW cs \in Seq(1 .. k), NoRepeats(cs)
    PROVE  NoRepeats(Append(cs, k + 1))
<1>1. \A i \in 1 .. Len(cs) : cs[i] \in 1 .. k
  BY ElementOfSeq
<1>2. /\ Len(Append(cs, k + 1)) = Len(cs) + 1 /\ Len(cs) \in Nat
      /\ \A i \in 1 .. Len(cs) : Append(cs, k + 1)[i] = cs[i]
      /\ Append(cs, k + 1)[Len(cs) + 1] = k + 1
  BY AppendProperties, LenProperties
<1> QED
  BY <1>1, <1>2 DEF NoRepeats

LEMMA NewConnOrder ==
    ASSUME ConnInv, OrderInv, NEW kind, NEW s, NEW r, NewConn(kind, s, r),
           links' = links \/ (s \in QtObjs /\
                              links' = [links EXCEPT ![s] = Append(@, nconns + 1)]),
           conns5' = conns5 \/ (s \in RbObjs /\
                              conns5' = [conns5 EXCEPT ![s] = Append(@, nconns + 1)]),
           UNCHANGED <<queue, loopVars, nemits>>
    PROVE  OrderInv'
<1>1. nconns \in Nat /\ nconns' = nconns + 1
  BY ConnectAssumption DEF ConnInv, TypeOK, NewConn
<1>2. ASSUME NEW t \in QtObjs PROVE NoRepeats(links'[t])
  <2>1. links[t] \in Seq(1 .. nconns) /\ NoRepeats(links[t])
    BY DEF ConnInv, InFlight, OrderInv
  <2>2. NoRepeats(Append(links[t], nconns + 1))
    BY <1>1, <2>1, AppendNoRepeats
  <2>3. links'[t] = links[t] \/ links'[t] = Append(links[t], nconns + 1)
    BY DEF ConnInv, InFlight
  <2> QED
    BY <2>1, <2>2, <2>3
<1>3. ASSUME NEW t \in RbObjs PROVE NoRepeats(conns5'[t])
  <2>1. conns5[t] \in Seq(1 .. nconns) /\ NoRepeats(conns5[t])
    BY DEF ConnInv, InFlight, OrderInv
  <2>2. NoRepeats(Append(conns5[t], nconns + 1))
    BY <1>1, <2>1, AppendNoRepeats
  <2>3. conns5'[t] = conns5[t] \/ conns5'[t] = Append(conns5[t], nconns + 1)
    BY DEF ConnInv, InFlight
  <2> QED
    BY <2>1, <2>2, <2>3
<1> QED
  BY <1>2, <1>3 DEF OrderInv, Numbered, InOrder, loopVars, NoRepeats

(* An emission takes its number from none and sends it, after everything   *)
(* else, to the connections of one list.                                   *)
LEMMA EmitOrder ==
    ASSUME ConnInv, OrderInv, NEW cs \in Seq(1 .. nconns), NoRepeats(cs),
           nemits < MaxEmits, nemits' = nemits + 1,
           queue' = queue \/ queue' = queue \o EventsFor(cs, nemits + 1),
           UNCHANGED <<connVars, loopVars>>
    PROVE  /\ OrderInv'
           /\ \/ Delivery!Next
              \/ UNCHANGED Delivery!vars
<1> USE ConnectAssumption DEF connVars, loopVars
<1> DEFINE n == nemits + 1
           es == EventsFor(cs, n)
<1>1. /\ n \in Args /\ nemits \in Nat /\ nconns \in Nat /\ nconns <= MaxConns
      /\ queue \in Seq(Made(nconns)) /\ queue \in Seq(Event)
  BY DEF ConnInv, TypeOK, InFlight, Args
<1>2. /\ Len(es) = Len(cs) /\ Len(cs) \in Nat /\ Len(queue) \in Nat
      /\ \A i \in 1 .. Len(cs) : es[i] = [conn |-> cs[i], arg |-> n]
      /\ es \in Seq(Made(nconns))
  BY <1>1, EventsForElements, EventsForType, LenProperties
<1>3. \A i \in 1 .. Len(queue) : queue[i] \in Event /\ queue[i].arg \in Nat /\ queue[i].arg < n
  <2>1. \A i \in 1 .. Len(queue) : queue[i] \in Event
    BY <1>1, ElementOfSeq
  <2> QED
    BY <1>1, <2>1 DEF OrderInv, Numbered, Event, Args
<1>4. CASE queue' = queue
  <2>1. OrderInv'
    <3>1. filtered # NULL => filtered.arg \in Nat
      BY DEF ConnInv, TypeOK, Event, Args
    <3>2. \A c \in ConnIds : \A i \in 1 .. Len(runs[c]) : runs[c][i] \in Nat
      BY ElementOfSeq DEF ConnInv, TypeOK, Args
    <3>3. UNCHANGED <<links, conns5, queue, filtered, runs>>
      BY <1>1, <1>4
    <3>4. \A i \in 1 .. Len(queue) : queue[i].arg <= nemits'
      BY <1>1, <1>3
    <3>5. filtered # NULL => filtered.arg <= nemits'
      BY <1>1, <3>1 DEF OrderInv, Numbered
    <3>6. \A c \in ConnIds : \A i \in 1 .. Len(runs[c]) : runs[c][i] <= nemits'
      BY <1>1, <3>2 DEF OrderInv, Numbered
    <3>7. Numbered'
      BY <3>3, <3>4, <3>5, <3>6 DEF Numbered
    <3>8. InOrder'
      BY <3>3 DEF OrderInv, InOrder
    <3> QED
      BY <3>3, <3>7, <3>8 DEF OrderInv
  <2>2. UNCHANGED Delivery!vars
    BY <1>4 DEF Delivery!vars, Waiting, Held
  <2> QED
    BY <2>1, <2>2
<1>5. CASE queue' = queue \o es
  <2>1. /\ Len(queue') = Len(queue) + Len(cs)
        /\ \A i \in 1 .. Len(queue) : queue'[i] = queue[i]
        /\ \A i \in 1 .. Len(cs) : queue'[Len(queue) + i] = [conn |-> cs[i], arg |-> n]
    <3> HIDE DEF es
    <3>1. /\ Len(queue \o es) = Len(queue) + Len(es)
          /\ \A i \in 1 .. Len(queue) + Len(es) :
                (queue \o es)[i] = IF i <= Len(queue) THEN queue[i] ELSE es[i - Len(queue)]
      <4>1. queue \in Seq(Made(nconns)) /\ es \in Seq(Made(nconns))
        BY <1>1, <1>2
      <4> QED
        BY <4>1, ConcatProperties
    <3>2. Len(queue') = Len(queue) + Len(cs)
      BY <1>2, <1>5, <3>1
    <3>3. \A i \in 1 .. Len(queue) : i \in 1 .. Len(queue) + Len(es) /\ i <= Len(queue)
      BY <1>1, <1>2
    <3>4. \A i \in 1 .. Len(queue) : queue'[i] = queue[i]
      BY <1>5, <3>1, <3>3
    <3>5. \A i \in 1 .. Len(cs) :
             /\ Len(queue) + i \in 1 .. Len(queue) + Len(es) /\ ~ (Len(queue) + i <= Len(queue))
             /\ (Len(queue) + i) - Len(queue) = i
      BY <1>1, <1>2
    <3>6. \A i \in 1 .. Len(cs) : queue'[Len(queue) + i] = es[i]
      BY <1>5, <3>1, <3>5
    <3>7. \A i \in 1 .. Len(cs) : es[i] = [conn |-> cs[i], arg |-> n]
      BY <1>2
    <3> QED
      BY <3>2, <3>4, <3>6, <3>7
  <2>2. \A j \in 1 .. Len(queue') :
           \/ j \in 1 .. Len(queue)
           \/ j - Len(queue) \in 1 .. Len(cs)
              /\ queue'[j] = [conn |-> cs[j - Len(queue)], arg |-> n]
    <3> SUFFICES ASSUME NEW j \in 1 .. Len(queue'), j \notin 1 .. Len(queue)
                 PROVE  j - Len(queue) \in 1 .. Len(cs)
                        /\ queue'[j] = [conn |-> cs[j - Len(queue)], arg |-> n]
      OBVIOUS
    <3> DEFINE i == j - Len(queue)
    <3>1. i \in 1 .. Len(cs) /\ j = Len(queue) + i
      BY <1>2, <2>1
    <3> QED
      BY <2>1, <3>1
  <2>3. filtered # NULL => filtered.arg \in Nat /\ filtered.arg < n
    BY <1>1 DEF ConnInv, TypeOK, Event, Args, OrderInv, Numbered
  <2>4. \A c \in ConnIds : \A i \in 1 .. Len(runs[c]) : runs[c][i] \in Nat /\ runs[c][i] < n
    BY <1>1, ElementOfSeq DEF ConnInv, TypeOK, Args, OrderInv, Numbered
  <2>5. Numbered'
    BY <1>1, <1>3, <2>1, <2>2, <2>3, <2>4 DEF Numbered
  <2>6. InOrder'
    <3>1. ASSUME NEW i \in 1 .. Len(queue'), NEW j \in 1 .. Len(queue'), i < j,
                 queue'[i].conn = queue'[j].conn
          PROVE  queue'[i].arg < queue'[j].arg
      <4>1. CASE j \in 1 .. Len(queue)
        BY <1>2, <2>1, <3>1, <4>1 DEF OrderInv, InOrder
      <4>2. CASE i \in 1 .. Len(queue) /\ j \notin 1 .. Len(queue)
        BY <1>3, <2>1, <2>2, <4>2
      <4>3. CASE i \notin 1 .. Len(queue) /\ j \notin 1 .. Len(queue)
        <5>1. /\ i - Len(queue) \in 1 .. Len(cs) /\ j - Len(queue) \in 1 .. Len(cs)
              /\ cs[i - Len(queue)] = cs[j - Len(queue)]
          <6>1. queue'[i] = [conn |-> cs[i - Len(queue)], arg |-> n]
                /\ queue'[j] = [conn |-> cs[j - Len(queue)], arg |-> n]
            BY <2>2, <3>1, <4>3
          <6> QED
            BY <2>2, <3>1, <4>3, <6>1
        <5>2. i - Len(queue) # j - Len(queue)
          BY <1>2, <2>1, <3>1
        <5> QED
          BY <5>1, <5>2 DEF NoRepeats
      <4>4. i \in 1 .. Len(queue) \/ j \notin 1 .. Len(queue)
        BY <1>2, <3>1, <2>1
      <4> QED
        BY <4>1, <4>2, <4>3, <4>4
    <3>2. ASSUME filtered' # NULL, NEW i \in 1 .. Len(queue'), queue'[i].conn = filtered'.conn
          PROVE  filtered'.arg < queue'[i].arg
      BY <2>1, <2>2, <2>3, <3>2 DEF OrderInv, InOrder
    <3> QED
      BY <3>1, <3>2 DEF InOrder
  <2>7. OrderInv'
    BY <2>5, <2>6 DEF OrderInv, NoRepeats
  <2>8. Held' = Held \cup {[conn |-> cs[i], arg |-> n] : i \in 1 .. Len(cs)}
    <3> DEFINE New == {[conn |-> cs[i], arg |-> n] : i \in 1 .. Len(cs)}
    <3>1. \A i \in 1 .. Len(queue') : queue'[i] \in Held \cup New
      BY <2>1, <2>2 DEF Held
    <3>2. \A i \in 1 .. Len(queue) : i \in 1 .. Len(queue') /\ queue[i] = queue'[i]
      BY <1>2, <2>1
    <3>3. \A i \in 1 .. Len(cs) :
             /\ Len(queue) + i \in 1 .. Len(queue')
             /\ queue'[Len(queue) + i] = [conn |-> cs[i], arg |-> n]
      BY <1>2, <2>1
    <3>4. Held' \subseteq Held \cup New
      <4> Held' = {queue'[i] : i \in 1 .. Len(queue')} \cup ({filtered} \ {NULL})
        BY DEF Held
      <4> QED
        BY <3>1 DEF Held
    <3>5. Held \subseteq Held' /\ New \subseteq Held'
      BY <3>2, <3>3 DEF Held
    <3> QED
      BY <3>4, <3>5
  <2> DEFINE C == {cs[i] : i \in 1 .. Len(cs)}
  <2>9. C \in SUBSET ConnIds
    BY <1>1, ElementOfSeq DEF ConnIds
  <2>10. \A c \in ConnIds : Waiting(c)' = IF c \in C THEN Waiting(c) \cup {n} ELSE Waiting(c)
    <3> SUFFICES ASSUME NEW c \in ConnIds
                 PROVE  Waiting(c)' = IF c \in C THEN Waiting(c) \cup {n} ELSE Waiting(c)
      OBVIOUS
    <3>1. \A m \in Args : [conn |-> c, arg |-> m] \in Held'
             <=> [conn |-> c, arg |-> m] \in Held \/ (m = n /\ c \in C)
      BY <2>8
    <3> QED
      BY <1>1, <3>1 DEF Waiting
  <2>11. \A c \in ConnIds : \A m \in Waiting(c) : m < n
    BY <1>3, <2>3 DEF Waiting, Held
  <2>12. Delivery!Post(C, n)
    <3>1. \A c \in ConnIds : \A i \in DOMAIN runs[c] : runs[c][i] < n
      <4>1. \A c \in ConnIds : DOMAIN runs[c] = 1 .. Len(runs[c])
        BY LenProperties DEF ConnInv, TypeOK
      <4> QED
        BY <2>4, <4>1
    <3> QED
      BY <2>10, <2>11, <3>1 DEF Delivery!Post
  <2> QED
    BY <1>1, <2>7, <2>9, <2>12 DEF Delivery!Next, Args
<1> QED
  BY <1>4, <1>5

(* Taking an event out of those held, the earliest of its connection, is   *)
(* the abstract delivery of its emission.                                  *)
LEMMA TakeEvent ==
    ASSUME Held \subseteq Event, NEW e \in Held, Held' = Held \ {e},
           \A x \in Held : x.conn = e.conn => e.arg <= x.arg
    PROVE  e.arg \in Waiting(e.conn) /\ Delivery!Take(e.conn, e.arg)
<1>1. e \in Event /\ e = [conn |-> e.conn, arg |-> e.arg]
      /\ e.conn \in ConnIds /\ e.arg \in Args
  BY DEF Event
<1>2. e.arg \in Waiting(e.conn)
  BY <1>1 DEF Waiting
<1>3. \A m \in Waiting(e.conn) : e.arg <= m
  <2> SUFFICES ASSUME NEW m \in Waiting(e.conn) PROVE e.arg <= m
    OBVIOUS
  <2>1. [conn |-> e.conn, arg |-> m] \in Held
    BY DEF Waiting
  <2> QED
    BY <2>1
<1>4. \A c \in ConnIds :
         Waiting(c)' = IF c = e.conn THEN Waiting(c) \ {e.arg} ELSE Waiting(c)
  <2> SUFFICES ASSUME NEW c \in ConnIds
               PROVE  Waiting(c)' = IF c = e.conn THEN Waiting(c) \ {e.arg} ELSE Waiting(c)
    OBVIOUS
  <2>1. \A m \in Args : [conn |-> c, arg |-> m] \in Held'
           <=> [conn |-> c, arg |-> m] \in Held /\ ~ (c = e.conn /\ m = e.arg)
    BY <1>1
  <2> QED
    BY <2>1 DEF Waiting
<1> QED
  BY <1>1, <1>2, <1>3, <1>4 DEF Delivery!Take

LEMMA HeldEvents == ConnInv => Held \subseteq Event
BY ElementOfSeq DEF ConnInv, TypeOK, Held

(* The queue's head and the rest of it.                                    *)
LEMMA Dequeue ==
    ASSUME queue \in Seq(Event), queue # <<>>
    PROVE  /\ Len(queue) \in Nat \ {0} /\ Head(queue) = queue[1] /\ queue[1] \in Event
           /\ Len(Tail(queue)) = Len(queue) - 1
           /\ \A i \in 1 .. Len(queue) - 1 : Tail(queue)[i] = queue[i + 1]
BY HeadTailProperties, LenProperties, EmptySeq, ElementOfSeq

LEMMA FilterOrder ==
    ASSUME ConnInv, OrderInv, filtered = NULL, eventFilter
    PROVE  OrderInv' /\ UNCHANGED Delivery!vars
<1>1. /\ queue' = Tail(queue) /\ filtered' = Head(queue)
      /\ UNCHANGED <<connVars, runs, nemits>>
  BY DEF eventFilter
<1>2. /\ Len(queue) \in Nat \ {0} /\ Head(queue) = queue[1] /\ queue[1] \in Event
      /\ Len(queue') = Len(queue) - 1
      /\ \A i \in 1 .. Len(queue') : queue'[i] = queue[i + 1]
  BY <1>1, Dequeue DEF eventFilter, ConnInv, TypeOK
<1>3. Numbered'
  BY <1>1, <1>2 DEF OrderInv, Numbered
<1>4. InOrder'
  BY <1>1, <1>2 DEF OrderInv, InOrder
<1>5. OrderInv'
  BY <1>1, <1>3, <1>4 DEF OrderInv, connVars, NoRepeats
<1>6. Held' = Held
  <2>1. filtered' # NULL
    BY <1>1, <1>2, ConnectAssumption
  <2>2. Held' = {queue'[i] : i \in 1 .. Len(queue')} \cup {queue[1]}
    BY <1>1, <1>2, <2>1 DEF Held
  <2>3. Held = {queue[i] : i \in 1 .. Len(queue)}
    BY DEF Held
  <2>4. \A i \in 1 .. Len(queue) : i = 1 \/ \E j \in 1 .. Len(queue') : queue[i] = queue'[j]
    <3> SUFFICES ASSUME NEW i \in 1 .. Len(queue), i # 1
                 PROVE  \E j \in 1 .. Len(queue') : queue[i] = queue'[j]
      OBVIOUS
    <3>1. i - 1 \in 1 .. Len(queue') /\ (i - 1) + 1 = i
      BY <1>2
    <3> QED
      BY <1>2, <3>1
  <2>5. \A i \in 1 .. Len(queue') : i + 1 \in 1 .. Len(queue) /\ queue'[i] = queue[i + 1]
    BY <1>2
  <2>6. 1 \in 1 .. Len(queue)
    BY <1>2
  <2>7. Held' \subseteq Held
    BY <1>2, <2>2, <2>3, <2>5, <2>6
  <2>8. Held \subseteq Held'
    BY <2>2, <2>3, <2>4
  <2> QED
    BY <2>7, <2>8
<1> QED
  BY <1>1, <1>5, <1>6 DEF Delivery!vars, Waiting

(* The slot of connection c is run, with emission n.                       *)
LEMMA RunsOrder ==
    ASSUME ConnInv, OrderInv, NEW c \in ConnIds, NEW n \in Args, n <= nemits,
           runs' = [runs EXCEPT ![c] = Append(@, n)], nemits' = nemits
    PROVE  \A d \in ConnIds : \A i \in 1 .. Len(runs'[d]) : runs'[d][i] <= nemits'
<1> SUFFICES ASSUME NEW d \in ConnIds, NEW i \in 1 .. Len(runs'[d])
             PROVE  runs'[d][i] <= nemits'
  OBVIOUS
<1>1. runs[d] \in Seq(Args) /\ \A j \in 1 .. Len(runs[d]) : runs[d][j] <= nemits
  BY DEF ConnInv, TypeOK, OrderInv, Numbered
<1>2. /\ Len(Append(runs[d], n)) = Len(runs[d]) + 1 /\ Len(runs[d]) \in Nat
      /\ \A j \in 1 .. Len(runs[d]) : Append(runs[d], n)[j] = runs[d][j]
      /\ Append(runs[d], n)[Len(runs[d]) + 1] = n
  BY <1>1, AppendProperties, LenProperties
<1>3. runs'[d] = runs[d] \/ runs'[d] = Append(runs[d], n)
  BY DEF ConnInv, TypeOK
<1> QED
  BY <1>1, <1>2, <1>3

LEMMA RouterOrder ==
    ASSUME ConnInv, OrderInv, router
    PROVE  OrderInv' /\ (Delivery!Next \/ UNCHANGED Delivery!vars)
<1> DEFINE e == filtered
<1>1. /\ e \in Event /\ e.conn \in ConnIds /\ e.arg \in Args
      /\ mcevt[e.conn] = e /\ e # NULL /\ nconns \in 0 .. MaxConns
  BY MadeEvent DEF router, ConnInv, InFlight, Dispatch, TypeOK, Made, Event
<1>2. UNCHANGED <<connVars, queue, nemits>>
  BY DEF router
<1>3. CASE UNCHANGED <<filtered, runs>>
  BY <1>2, <1>3 DEF OrderInv, Numbered, InOrder, NoRepeats, connVars, Delivery!vars, Waiting, Held
<1>4. CASE /\ runs' = [runs EXCEPT ![e.conn] = Append(@, e.arg)]
           /\ filtered' = NULL
  <2>1. \A i \in 1 .. Len(queue) : queue[i] \in Event /\ queue[i] # e
    <3>1. \A i \in 1 .. Len(queue) : queue[i] \in Event
      BY ElementOfSeq DEF ConnInv, TypeOK
    <3>2. \A i \in 1 .. Len(queue) : queue[i].conn = e.conn => e.arg < queue[i].arg
      BY <1>1 DEF OrderInv, InOrder
    <3> QED
      BY <1>1, <3>1, <3>2 DEF Args
  <2>2. Held' = Held \ {e} /\ e \in Held
    BY <1>1, <1>2, <1>4, <2>1 DEF Held
  <2>3. \A x \in Held : x.conn = e.conn => e.arg <= x.arg
    <3>1. \A i \in 1 .. Len(queue) : queue[i].conn = e.conn => e.arg < queue[i].arg
      BY <1>1 DEF OrderInv, InOrder
    <3> QED
      BY <1>1, <2>1, <3>1 DEF Held, Event, Args
  <2>4. e.arg \in Waiting(e.conn) /\ Delivery!Take(e.conn, e.arg)
    <3> HIDE DEF e
    <3> QED
      BY <2>2, <2>3, HeldEvents, TakeEvent
  <2>5. Delivery!Run(e.conn)
    BY <1>1, <1>4, <2>4 DEF Delivery!Run
  <2>6. OrderInv'
    <3>1. e.arg <= nemits
      BY <1>1 DEF OrderInv, Numbered
    <3>2. Numbered'
      BY <1>1, <1>2, <1>4, <3>1, RunsOrder DEF OrderInv, Numbered
    <3> QED
      BY <1>2, <1>4, <3>2 DEF OrderInv, InOrder, NoRepeats, connVars
  <2> QED
    BY <1>1, <2>5, <2>6 DEF Delivery!Next
<1> QED
  BY <1>1, <1>3, <1>4 DEF router

LEMMA QtSlotOrder ==
    ASSUME ConnInv, OrderInv, filtered = NULL, QtSlot
    PROVE  OrderInv' /\ Delivery!Next
<1> DEFINE e == Head(queue)
<1>1. /\ queue' = Tail(queue)
      /\ UNCHANGED <<connVars, filtered, nemits>>
      /\ runs' = runs \/ runs' = [runs EXCEPT ![e.conn] = Append(@, e.arg)]
  BY DEF QtSlot
<1>2. /\ Len(queue) \in Nat \ {0} /\ e = queue[1] /\ e \in Event
      /\ Len(queue') = Len(queue) - 1
      /\ \A i \in 1 .. Len(queue') : queue'[i] = queue[i + 1]
  BY <1>1, Dequeue DEF QtSlot, ConnInv, TypeOK
<1>3. e.conn \in ConnIds /\ e.arg \in Args /\ e.arg <= nemits
  BY <1>2 DEF Event, OrderInv, Numbered
<1>4. \A i \in 1 .. Len(queue) : queue[i] \in Event
  BY ElementOfSeq DEF ConnInv, TypeOK
<1>5. \A i \in 2 .. Len(queue) : queue[i].conn = e.conn => e.arg < queue[i].arg
  BY <1>2 DEF OrderInv, InOrder
<1> HIDE DEF e
<1>6. Held' = Held \ {e} /\ e \in Held
  <2>1. Held = {queue[i] : i \in 1 .. Len(queue)} /\ Held' = {queue'[i] : i \in 1 .. Len(queue')}
    BY <1>1 DEF Held
  <2>2. \A i \in 1 .. Len(queue) : i = 1 \/ \E j \in 1 .. Len(queue') : queue[i] = queue'[j]
    <3> SUFFICES ASSUME NEW i \in 1 .. Len(queue), i # 1
                 PROVE  \E j \in 1 .. Len(queue') : queue[i] = queue'[j]
      OBVIOUS
    <3>1. i - 1 \in 1 .. Len(queue') /\ (i - 1) + 1 = i
      BY <1>2
    <3> QED
      BY <1>2, <3>1
  <2>3. \A i \in 1 .. Len(queue') : i + 1 \in 2 .. Len(queue) /\ queue'[i] = queue[i + 1]
    BY <1>2
  <2>4. \A i \in 2 .. Len(queue) : queue[i] # e
    BY <1>3, <1>5 DEF Args
  <2>5. 1 \in 1 .. Len(queue) /\ \A i \in 2 .. Len(queue) : i \in 1 .. Len(queue)
    BY <1>2
  <2>6. e \in Held /\ e \notin Held'
    BY <1>2, <2>1, <2>3, <2>4, <2>5
  <2>7. Held' \subseteq Held
    BY <2>1, <2>3, <2>5
  <2>8. \A x \in Held : x = e \/ x \in Held'
    <3> SUFFICES ASSUME NEW x \in Held, x # e PROVE x \in Held'
      OBVIOUS
    <3>1. PICK i \in 1 .. Len(queue) : x = queue[i]
      BY <2>1
    <3>2. i # 1
      BY <1>2, <3>1
    <3>3. PICK j \in 1 .. Len(queue') : queue[i] = queue'[j]
      BY <2>2, <3>2
    <3> QED
      BY <2>1, <3>1, <3>3
  <2> QED
    BY <2>6, <2>7, <2>8
<1>7. \A x \in Held : x.conn = e.conn => e.arg <= x.arg
  <2>1. \A i \in 1 .. Len(queue) : i = 1 \/ i \in 2 .. Len(queue)
    BY <1>2
  <2> QED
    BY <1>2, <1>3, <1>4, <1>5, <2>1 DEF Held, Event, Args
<1>8. e.arg \in Waiting(e.conn) /\ Delivery!Take(e.conn, e.arg)
  BY <1>6, <1>7, HeldEvents, TakeEvent
<1>9. Delivery!Next
  BY <1>1, <1>3, <1>8 DEF Delivery!Next, Delivery!Run, Delivery!Discard
<1>10. OrderInv'
  <2>1. \A d \in ConnIds : \A i \in 1 .. Len(runs'[d]) : runs'[d][i] <= nemits'
    BY <1>1, <1>3, RunsOrder DEF OrderInv, Numbered
  <2>2. Numbered'
    BY <1>1, <1>2, <2>1 DEF OrderInv, Numbered
  <2>3. InOrder'
    BY <1>1, <1>2 DEF OrderInv, InOrder
  <2> QED
    BY <1>1, <2>2, <2>3 DEF OrderInv, NoRepeats, connVars
<1> QED
  BY <1>9, <1>10

LEMMA StepDelivers ==
    ASSUME ConnInv, OrderInv, [Next]_vars
    PROVE  OrderInv' /\ (Delivery!Next \/ UNCHANGED Delivery!vars)
<1> DEFINE Goal == OrderInv' /\ (Delivery!Next \/ UNCHANGED Delivery!vars)
<1>1. ASSUME UNCHANGED <<queue, filtered, runs>>
      PROVE  UNCHANGED Delivery!vars
  BY <1>1 DEF Delivery!vars, Waiting, Held
<1>2. ASSUME UNCHANGED <<connVars, queue, filtered, runs, nemits>>
      PROVE  Goal
  BY <1>1, <1>2 DEF OrderInv, Numbered, InOrder, NoRepeats, connVars
<1>3. ASSUME NEW s \in QtObjs, NEW r \in RbObjs, create_qtconnectrb(s, r) PROVE Goal
  BY <1>1, <1>3, NewConnOrder DEF create_qtconnectrb, loopVars
<1>4. ASSUME NEW s \in QtObjs, NEW o \in QtObjs, create_qtconnectqt(s, o) PROVE Goal
  BY <1>1, <1>4, NewConnOrder DEF create_qtconnectqt, loopVars
<1>5. ASSUME NEW s \in RbObjs, NEW r \in RbObjs, create_rbconnectrb(s, r) PROVE Goal
  BY <1>1, <1>5, NewConnOrder DEF create_rbconnectrb, loopVars
<1>6. ASSUME NEW s \in QtObjs, QtEmit(s) PROVE Goal
  <2>1. links[s] \in Seq(1 .. nconns) /\ NoRepeats(links[s])
    BY DEF ConnInv, InFlight, OrderInv
  <2> QED
    BY <1>6, <2>1, EmitOrder DEF QtEmit
<1>7. ASSUME NEW s \in RbObjs, RubyEmit(s) PROVE Goal
  <2>1. conns5[s] \in Seq(1 .. nconns) /\ NoRepeats(conns5[s])
    BY DEF ConnInv, InFlight, OrderInv
  <2> QED
    BY <1>7, <2>1, EmitOrder DEF RubyEmit
<1>8. CASE filtered = NULL /\ eventFilter
  BY <1>8, FilterOrder
<1>9. CASE router
  BY <1>9, RouterOrder
<1>10. CASE filtered = NULL /\ QtSlot
  BY <1>10, QtSlotOrder
<1>11. ASSUME NEW o, QtDestroy(o) \/ Collect(o) PROVE Goal
  BY <1>2, <1>11 DEF QtDestroy, Collect, loopVars
<1>12. CASE SlotReturns \/ create_nothing \/ UNCHANGED vars
  BY <1>2, <1>12 DEF SlotReturns, create_nothing, vars, loopVars
<1> QED
  BY <1>3, <1>4, <1>5, <1>6, <1>7, <1>8, <1>9, <1>10, <1>11, <1>12
     DEF Next, Program, EventLoop

LEMMA OrderInit == Init => OrderInv /\ Delivery!Init
<1> SUFFICES ASSUME Init PROVE OrderInv /\ Delivery!Init
  OBVIOUS
<1>1. Len(queue) = 0 /\ filtered = NULL /\ \A c \in ConnIds : runs[c] = <<>>
  BY DEF Init
<1>2. OrderInv
  BY <1>1 DEF Init, OrderInv, Numbered, InOrder, NoRepeats
<1>3. Held = {}
  BY <1>1 DEF Held
<1> QED
  BY <1>2, <1>3 DEF Init, Delivery!Init, Waiting

(* Queued delivery through one mcevt per connection (connectruby.cpp)      *)
(* implements SignalDelivery: however deep event loops are nested in slots *)
(* and whatever Qt or the collector takes away, every slot is run once for *)
(* each emission, in order, with its own arguments.                        *)
THEOREM ImplementsDeliveryHolds == Spec => ImplementsDelivery
<1>1. Init => ConnInv /\ OrderInv /\ Delivery!Init
  BY InitInv, OrderInit
<1>2. ConnInv /\ OrderInv /\ [Next]_vars => OrderInv' /\ [Delivery!Next]_(Delivery!vars)
  BY StepDelivers
<1> QED
  BY <1>1, <1>2, NextInv, PTL DEF Spec, ImplementsDelivery, Delivery!Spec
----------------------------------------------------------------------------
(* What the order of delivery means for the slots: a slot runs for greater *)
(* and greater emissions, all of them smaller than those still on their    *)
(* way to it.                                                              *)
SlotsInOrder ==
    \A c \in ConnIds : \A i, j \in 1 .. Len(runs[c]) : i < j => runs[c][i] < runs[c][j]
Overtaken ==
    \A c \in ConnIds : \A m \in Waiting(c) : \A i \in 1 .. Len(runs[c]) : runs[c][i] < m

LEMMA StepInOrder ==
    ASSUME ConnInv, SlotsInOrder, Overtaken, Delivery!Next \/ UNCHANGED Delivery!vars
    PROVE  SlotsInOrder' /\ Overtaken'
<1> DEFINE pending(c) == [d \in ConnIds |-> Waiting(d)][c]
<1>1. \A c \in ConnIds : pending(c) = Waiting(c) /\ pending(c)' = Waiting(c)'
  OBVIOUS
<1>2. runs \in [ConnIds -> Seq(Args)] /\ \A c \in ConnIds : Waiting(c) \subseteq Args
  BY DEF ConnInv, TypeOK, Waiting
<1>3. \A c \in ConnIds : /\ DOMAIN runs[c] = 1 .. Len(runs[c]) /\ Len(runs[c]) \in Nat
                         /\ \A i \in 1 .. Len(runs[c]) : runs[c][i] \in Nat
  <2> SUFFICES ASSUME NEW c \in ConnIds
               PROVE  /\ DOMAIN runs[c] = 1 .. Len(runs[c]) /\ Len(runs[c]) \in Nat
                      /\ \A i \in 1 .. Len(runs[c]) : runs[c][i] \in Nat
    OBVIOUS
  <2>1. runs[c] \in Seq(Args)
    BY <1>2
  <2>2. \A i \in 1 .. Len(runs[c]) : runs[c][i] \in Args
    BY <2>1, ElementOfSeq
  <2> QED
    BY <2>1, <2>2, LenProperties DEF Args
<1>4. CASE UNCHANGED Delivery!vars
  <2>1. runs' = runs /\ \A c \in ConnIds : pending(c)' = pending(c)
    BY <1>4 DEF Delivery!vars
  <2> QED
    BY <1>1, <2>1 DEF SlotsInOrder, Overtaken
<1>5. ASSUME NEW C \in SUBSET ConnIds, NEW n \in 1 .. MaxEmits, Delivery!Post(C, n)
      PROVE  SlotsInOrder' /\ Overtaken'
  <2>1. runs' = runs
    BY <1>5 DEF Delivery!Post
  <2>2. \A c \in ConnIds : Waiting(c)' \subseteq Waiting(c) \cup {n}
    <3>1. \A c \in ConnIds : pending(c)' = IF c \in C THEN pending(c) \cup {n} ELSE pending(c)
      BY <1>5 DEF Delivery!Post
    <3> QED
      BY <1>1, <3>1
  <2>3. \A c \in ConnIds : \A i \in 1 .. Len(runs[c]) : runs[c][i] < n
    BY <1>3, <1>5 DEF Delivery!Post
  <2> QED
    BY <2>1, <2>2, <2>3 DEF SlotsInOrder, Overtaken
<1>6. ASSUME NEW c \in ConnIds, NEW n, Delivery!Take(c, n)
      PROVE  /\ n \in Waiting(c) /\ \A m \in Waiting(c) : n <= m
             /\ Waiting(c)' = Waiting(c) \ {n}
             /\ \A d \in ConnIds : d # c => Waiting(d)' = Waiting(d)
  <2>1. n \in pending(c) /\ \A m \in pending(c) : n <= m
    BY <1>6 DEF Delivery!Take
  <2>2. \A d \in ConnIds : pending(d)' = IF d = c THEN pending(d) \ {n} ELSE pending(d)
    BY <1>6 DEF Delivery!Take
  <2> QED
    BY <1>1, <2>1, <2>2
<1>7. ASSUME NEW c \in ConnIds, Delivery!Discard(c)
      PROVE  SlotsInOrder' /\ Overtaken'
  <2>1. PICK n : Delivery!Take(c, n) /\ UNCHANGED runs
    BY <1>7 DEF Delivery!Discard
  <2>2. runs' = runs /\ \A d \in ConnIds : Waiting(d)' \subseteq Waiting(d)
    BY <1>6, <2>1
  <2> QED
    BY <2>2 DEF SlotsInOrder, Overtaken
<1>8. ASSUME NEW c \in ConnIds, Delivery!Run(c)
      PROVE  SlotsInOrder' /\ Overtaken'
  <2>1. PICK n : Delivery!Take(c, n) /\ runs' = [runs EXCEPT ![c] = Append(@, n)]
    BY <1>8 DEF Delivery!Run
  <2>2. /\ n \in Waiting(c) /\ \A m \in Waiting(c) : n <= m
        /\ Waiting(c)' = Waiting(c) \ {n}
        /\ \A d \in ConnIds : d # c => Waiting(d)' = Waiting(d)
    BY <1>6, <2>1
  <2>3. n \in Nat /\ \A m \in Waiting(c)' : m \in Nat /\ n < m
    BY <1>2, <2>2 DEF Args
  <2>4. /\ runs'[c] = Append(runs[c], n) /\ \A d \in ConnIds : d # c => runs'[d] = runs[d]
    BY <1>2, <2>1
  <2>5. /\ Len(runs'[c]) = Len(runs[c]) + 1
        /\ \A i \in 1 .. Len(runs[c]) : runs'[c][i] = runs[c][i] /\ runs[c][i] < n
        /\ runs'[c][Len(runs[c]) + 1] = n
    <3>1. n \in Args
      BY <1>2, <2>2
    <3> QED
      BY <1>2, <2>2, <2>4, <3>1, AppendProperties DEF Overtaken
  <2>6. ASSUME NEW i \in 1 .. Len(runs'[c])
        PROVE  i \in 1 .. Len(runs[c]) \/ i = Len(runs[c]) + 1
    BY <1>3, <2>5
  <2>7. \A i, j \in 1 .. Len(runs'[c]) : i < j => runs'[c][i] < runs'[c][j]
    <3> SUFFICES ASSUME NEW i \in 1 .. Len(runs'[c]), NEW j \in 1 .. Len(runs'[c]), i < j
                 PROVE  runs'[c][i] < runs'[c][j]
      OBVIOUS
    <3>1. i \in 1 .. Len(runs[c])
      BY <1>3, <2>5, <2>6
    <3>2. CASE j = Len(runs[c]) + 1
      BY <2>5, <3>1, <3>2
    <3>3. CASE j \in 1 .. Len(runs[c])
      BY <2>5, <3>1, <3>3 DEF SlotsInOrder
    <3> QED
      BY <2>6, <3>2, <3>3
  <2>8. \A m \in Waiting(c)' : \A i \in 1 .. Len(runs'[c]) : runs'[c][i] < m
    <3> SUFFICES ASSUME NEW m \in Waiting(c)', NEW i \in 1 .. Len(runs'[c])
                 PROVE  runs'[c][i] < m
      OBVIOUS
    <3>1. runs'[c][i] \in Nat /\ runs'[c][i] <= n
      <4>1. CASE i \in 1 .. Len(runs[c])
        <5>1. runs'[c][i] = runs[c][i] /\ runs[c][i] < n /\ runs[c][i] \in Nat
          BY <1>3, <2>5, <4>1
        <5> QED
          BY <2>3, <5>1
      <4>2. CASE i = Len(runs[c]) + 1
        BY <2>3, <2>5, <4>2
      <4> QED
        BY <2>6, <4>1, <4>2
    <3>2. m \in Nat /\ n < m /\ n \in Nat
      BY <2>3
    <3> QED
      BY <3>1, <3>2
  <2>9. SlotsInOrder'
    BY <2>4, <2>7 DEF SlotsInOrder
  <2>10. Overtaken'
    BY <2>2, <2>4, <2>8 DEF Overtaken
  <2> QED
    BY <2>9, <2>10
<1> QED
  BY <1>4, <1>5, <1>7, <1>8 DEF Delivery!Next

(* No slot runs twice for an emission, nor for an earlier one after a      *)
(* later: the nested event loops that slots enter, each of which takes     *)
(* events from the queue (connectruby.cpp), never overtake one another.    *)
THEOREM SlotsInOrderHolds == Spec => []SlotsInOrder
<1>1. Init => ConnInv /\ OrderInv /\ SlotsInOrder /\ Overtaken
  <2>1. Init => SlotsInOrder /\ Overtaken
    BY EmptySeq DEF Init, SlotsInOrder, Overtaken
  <2> QED
    BY <2>1, InitInv, OrderInit
<1>2. ConnInv /\ OrderInv /\ SlotsInOrder /\ Overtaken /\ [Next]_vars
        => OrderInv' /\ SlotsInOrder' /\ Overtaken'
  BY StepDelivers, StepInOrder
<1> QED
  BY <1>1, <1>2, NextInv, PTL DEF Spec
=============================================================================
