---------------------------- MODULE ConnectRuby ----------------------------
(***************************************************************************)
(* Signals and slots between Qt and Ruby: connectruby.cpp, with the        *)
(* emission code of ruby/rubyinit.cpp and the connection table of          *)
(* qtobjectmanager.cpp.                                                    *)
(*                                                                         *)
(* Everything runs in one thread and every connection is queued: emitting  *)
(* posts an event, the event loop later passes it to the connection's own  *)
(* event filter, which stores it in mcevt, and then to its router, which   *)
(* reads the arguments out of mcevt and runs the Ruby slot.  A slot may    *)
(* enter the event loop again (a dialog's exec, processEvents).            *)
(*                                                                         *)
(* Each object has one signal; emission number n stands for its arguments. *)
(***************************************************************************)
EXTENDS Naturals, Sequences

CONSTANTS
    QtObjs,    \* native objects: senders, and receivers of Qt slots
    RbObjs,    \* Ruby objects: senders of Ruby signals, slot objects, procs
    NULL,
    Methods,   \* the Qt5::*connect* methods the program calls
    Destroys,  \* may Qt delete a sender or a receiver?
    MaxConns,  \* bound: number of connections
    MaxEmits,  \* bound: number of emissions
    MaxNest    \* bound: Ruby slots running at a time, nested

ConnIds == 1 .. MaxConns
Args == 1 .. MaxEmits
Kinds == {"qtconnectrb", "qtconnectqt", "rbconnectrb"}
Conn == [kind : Kinds, sender : QtObjs \cup RbObjs, receiver : QtObjs \cup RbObjs]
Event == [conn : ConnIds, arg : Args]
Frame == [ev : Event, arg : Args]

ASSUME ConnectAssumption ==
    /\ QtObjs \cap RbObjs = {}
    /\ NULL \notin Conn /\ NULL \notin Event
    /\ Methods \subseteq Kinds \cup {"rbconnectqt", "rbdisconnectrb"}
    /\ Destroys \in BOOLEAN
    /\ MaxConns \in Nat /\ MaxEmits \in Nat /\ MaxNest \in Nat

VARIABLES
    conns,     \* the ConnectAny objects; the live code deletes none
    nconns,    \* how many there are
    links,     \* each Qt sender's list of connections, in connect order
    conns5,    \* rbconnections5: each Ruby sender's connections
    alive,     \* native objects that exist
    collected, \* Ruby objects the garbage collector has taken
    queue,     \* posted MetaCall events
    mcevt,     \* m_conn->mcevt
    filtered,  \* the event between its filter and its router
    frames,    \* the Ruby slots running now, innermost last
    nemits,    \* emissions so far
    acalled,   \* history: acall's of Ruby emissions
    runs,      \* history: what each connection's slot was run with
    aborted    \* the assertion the process died of, or "no"

connVars == <<conns, nconns, links, conns5>>
objVars == <<alive, collected>>
loopVars == <<mcevt, filtered, frames, runs>>
vars == <<connVars, objVars, queue, loopVars, nemits, acalled, aborted>>

TypeOK ==
    /\ conns \in [ConnIds -> Conn \cup {NULL}]
    /\ nconns \in 0 .. MaxConns
    /\ links \in [QtObjs -> Seq(ConnIds)]
    /\ conns5 \in [RbObjs -> Seq(ConnIds)]
    /\ alive \subseteq QtObjs
    /\ collected \subseteq RbObjs
    /\ queue \in Seq(Event)
    /\ mcevt \in [ConnIds -> Event \cup {NULL}]
    /\ filtered \in Event \cup {NULL}
    /\ frames \in Seq(Frame)
    /\ nemits \in 0 .. MaxEmits
    /\ acalled \subseteq Event
    /\ runs \in [ConnIds -> Seq(Args)]
    /\ aborted \in {"no", "create", "mcevt", "sender"}

Init ==
    /\ conns = [c \in ConnIds |-> NULL]
    /\ nconns = 0
    /\ links = [o \in QtObjs |-> <<>>]
    /\ conns5 = [r \in RbObjs |-> <<>>]
    /\ alive = QtObjs
    /\ collected = {}
    /\ queue = <<>>
    /\ mcevt = [c \in ConnIds |-> NULL]
    /\ filtered = NULL
    /\ frames = <<>>
    /\ nemits = 0
    /\ acalled = {}
    /\ runs = [c \in ConnIds |-> <<>>]
    /\ aborted = "no"
----------------------------------------------------------------------------
(* ConnectFactory::create.  The constructor of a connection with a Ruby    *)
(* receiver registers the receiver with the garbage collector.             *)

NewConn(kind, s, r) ==
    /\ kind \in Methods
    /\ nconns < MaxConns
    /\ nconns' = nconns + 1
    /\ conns' = [conns EXCEPT ![nconns + 1] =
                    [kind |-> kind, sender |-> s, receiver |-> r]]

\* The slot a RubyConnectRuby has, and the one create_rbconnectrb connects
\* its signal to.  QObject::connect looks a slot up by name and connects
\* nothing when there is none.
RubyConnectRubySlots == {"router"}
RbRbSlot == "route"
RbRbLinked == RbRbSlot \in RubyConnectRubySlots

\* Mutant: Qt is given the connection made before this one.
create_qtconnectrb_last(s, r) ==
    /\ s \in alive /\ r \notin collected
    /\ NewConn("qtconnectrb", s, r)
    /\ links' = [links EXCEPT ![s] = Append(@, nconns)]
    /\ UNCHANGED <<conns5, objVars, queue, loopVars, nemits, acalled, aborted>>

create_qtconnectrb(s, r) ==
    /\ s \in alive /\ r \notin collected
    /\ NewConn("qtconnectrb", s, r)
    /\ links' = [links EXCEPT ![s] = Append(@, nconns + 1)]
    /\ UNCHANGED <<conns5, objVars, queue, loopVars, nemits, acalled, aborted>>

create_qtconnectqt(s, o) ==
    /\ s \in alive /\ o \in alive
    /\ NewConn("qtconnectqt", s, o)
    /\ links' = [links EXCEPT ![s] = Append(@, nconns + 1)]
    /\ UNCHANGED <<conns5, objVars, queue, loopVars, nemits, acalled, aborted>>

create_rbconnectrb(s, r) ==
    /\ s \notin collected /\ r \notin collected
    /\ NewConn("rbconnectrb", s, r)
    /\ conns5' = [conns5 EXCEPT ![s] = Append(@, nconns + 1)]
    /\ UNCHANGED <<links, objVars, queue, loopVars, nemits, acalled, aborted>>

\* rbconnectqt has an empty branch and rbdisconnectrb none:
\* assert(conn != NULL).
create_nothing ==
    /\ Methods \ Kinds # {}
    /\ aborted' = "create"
    /\ UNCHANGED <<connVars, objVars, queue, loopVars, nemits, acalled>>
----------------------------------------------------------------------------
(* Emission: an event for every connection of the sender, in order.        *)

EventsFor(cs, n) == [i \in 1 .. Len(cs) |-> [conn |-> cs[i], arg |-> n]]

QtEmit(s) ==
    /\ s \in alive
    /\ nemits < MaxEmits
    /\ nemits' = nemits + 1
    /\ queue' = queue \o EventsFor(links[s], nemits + 1)
    /\ UNCHANGED <<connVars, objVars, loopVars, acalled, aborted>>

\* The snapshot getConnections5 takes is called from end to end: acall only
\* emits invoked, which is queued as well.
RubyEmit(s) ==
    /\ s \notin collected
    /\ nemits < MaxEmits
    /\ nemits' = nemits + 1
    /\ acalled' = acalled \cup {[conn |-> conns5[s][i], arg |-> nemits + 1]
                                   : i \in 1 .. Len(conns5[s])}
    /\ queue' = IF RbRbLinked THEN queue \o EventsFor(conns5[s], nemits + 1)
                              ELSE queue
    /\ UNCHANGED <<connVars, objVars, loopVars, aborted>>
----------------------------------------------------------------------------
(* The event loop.  The outermost and a nested one take the events from    *)
(* the same queue, in order.                                               *)

IsQtSlot(e) == conns[e.conn].kind = "qtconnectqt"

\* Mutant: the filter keeps the first event it ever saw.
eventFilter_once ==
    /\ queue # <<>> /\ Len(frames) < MaxNest
    /\ LET e == Head(queue) IN
          /\ ~ IsQtSlot(e)
          /\ mcevt' = [mcevt EXCEPT ![e.conn] = IF @ = NULL THEN e ELSE @]
          /\ filtered' = e
    /\ queue' = Tail(queue)
    /\ UNCHANGED <<connVars, objVars, frames, runs, nemits, acalled, aborted>>

\* Mutant: the connection has not installed itself as its event filter.
eventFilter_missing ==
    /\ queue # <<>> /\ Len(frames) < MaxNest
    /\ LET e == Head(queue) IN
          /\ ~ IsQtSlot(e)
          /\ filtered' = e
    /\ queue' = Tail(queue)
    /\ UNCHANGED <<connVars, objVars, mcevt, frames, runs, nemits, acalled, aborted>>

\* Mutant: the filter swallows an event while its connection's slot runs.
eventFilter_notReentrant ==
    /\ queue # <<>> /\ Len(frames) < MaxNest
    /\ LET e == Head(queue)
           busy == \E i \in 1 .. Len(frames) : frames[i].ev.conn = e.conn
       IN /\ ~ IsQtSlot(e)
          /\ mcevt' = IF busy THEN mcevt ELSE [mcevt EXCEPT ![e.conn] = e]
          /\ filtered' = IF busy THEN NULL ELSE e
    /\ queue' = Tail(queue)
    /\ UNCHANGED <<connVars, objVars, frames, runs, nemits, acalled, aborted>>

eventFilter ==
    /\ queue # <<>> /\ Len(frames) < MaxNest
    /\ LET e == Head(queue) IN
          /\ ~ IsQtSlot(e)
          /\ mcevt' = [mcevt EXCEPT ![e.conn] = e]
          /\ filtered' = e
    /\ queue' = Tail(queue)
    /\ UNCHANGED <<connVars, objVars, frames, runs, nemits, acalled, aborted>>

\* router: the two assertions (sender() answers 0 once the sender is
\* gone), the arguments, the call.
router ==
    /\ filtered # NULL
    /\ LET c == filtered.conn IN
          IF mcevt[c] = NULL
          THEN /\ aborted' = "mcevt"
               /\ UNCHANGED <<filtered, frames, runs>>
          ELSE IF conns[c].kind = "qtconnectrb" /\ conns[c].sender \notin alive
          THEN /\ aborted' = "sender"
               /\ UNCHANGED <<filtered, frames, runs>>
          ELSE /\ frames' = Append(frames, [ev |-> filtered, arg |-> mcevt[c].arg])
               /\ runs' = [runs EXCEPT ![c] = Append(@, mcevt[c].arg)]
               /\ filtered' = NULL
               /\ UNCHANGED aborted
    /\ UNCHANGED <<connVars, objVars, queue, mcevt, nemits, acalled>>

\* The Ruby slot returns and the event is deleted; mcevt is left pointing
\* at it.
SlotReturns ==
    /\ frames # <<>>
    /\ frames' = SubSeq(frames, 1, Len(frames) - 1)
    /\ UNCHANGED <<connVars, objVars, queue, mcevt, filtered, runs, nemits,
                   acalled, aborted>>

\* A Qt slot; an event whose receiver is gone has left the queue with it.
QtSlot ==
    /\ queue # <<>>
    /\ LET c == Head(queue).conn IN
          /\ IsQtSlot(Head(queue))
          /\ runs' = IF conns[c].receiver \in alive
                     THEN [runs EXCEPT ![c] = Append(@, Head(queue).arg)]
                     ELSE runs
    /\ queue' = Tail(queue)
    /\ UNCHANGED <<connVars, objVars, mcevt, filtered, frames, nemits, acalled,
                   aborted>>
----------------------------------------------------------------------------
(* Objects go away: deleteLater, a parent's destructor; garbage            *)
(* collection of what neither the program nor a connection holds.          *)

QtDestroy(o) ==
    /\ Destroys
    /\ o \in alive
    /\ alive' = alive \ {o}
    /\ UNCHANGED <<connVars, collected, queue, loopVars, nemits, acalled, aborted>>

\* Mutant: the two-argument constructor forgets rb_gc_register_address.
Registered_rbrbOnly(r) ==
    \E c \in 1 .. nconns :
        conns[c].kind = "rbconnectrb" /\ conns[c].receiver = r

Registered(r) ==
    \E c \in 1 .. nconns :
        conns[c].kind # "qtconnectqt" /\ conns[c].receiver = r

Collect(r) ==
    /\ r \notin collected
    /\ ~ Registered(r)
    /\ collected' = collected \cup {r}
    /\ UNCHANGED <<connVars, alive, queue, loopVars, nemits, acalled, aborted>>
----------------------------------------------------------------------------
\* A filter and its router run back to back.
Program ==
    /\ filtered = NULL
    /\ \/ \E s \in QtObjs : QtEmit(s) \/ QtDestroy(s)
       \/ \E s \in QtObjs, r \in RbObjs : create_qtconnectrb(s, r)
       \/ \E s, o \in QtObjs : create_qtconnectqt(s, o)
       \/ \E s, r \in RbObjs : create_rbconnectrb(s, r)
       \/ create_nothing
       \/ \E r \in RbObjs : RubyEmit(r) \/ Collect(r)

EventLoop ==
    \/ router
    \/ filtered = NULL /\ (eventFilter \/ QtSlot \/ SlotReturns)

Next == aborted = "no" /\ (Program \/ EventLoop)

Spec == Init /\ [][Next]_vars

\* app.exec keeps taking events, and slots return.
FairSpec ==
    /\ Spec
    /\ WF_vars(aborted = "no" /\ (router \/ (filtered = NULL /\ (eventFilter \/ QtSlot))))
    /\ WF_vars(aborted = "no" /\ filtered = NULL /\ SlotReturns)
----------------------------------------------------------------------------
(* Every Ruby slot that runs was given the arguments of its own event,     *)
(* although its connection has a single mcevt, which events delivered in   *)
(* nested loops overwrite and which dangles once a slot has returned.      *)
OwnArguments == \A i \in 1 .. Len(frames) : frames[i].arg = frames[i].ev.arg

(* assert(mcevt != NULL) never fires, and assert(m_sender == sender())     *)
(* fires only when Qt deletes senders.                                     *)
RouterAsserts == aborted # "mcevt" /\ (aborted = "sender" => Destroys)

(* A Ruby receiver is not collected while an event for it is waiting or    *)
(* its slot runs: the connection holds it, nothing else has to.            *)
ReceiverKept ==
    \A c \in 1 .. nconns :
        (\/ \E i \in 1 .. Len(queue) : queue[i].conn = c
         \/ \E i \in 1 .. Len(frames) : frames[i].ev.conn = c)
        => conns[c].receiver \notin collected

(* The assertion of QtConnectRuby::router: the sender is still there when  *)
(* the queued event is delivered.                                          *)
SenderThere == aborted # "sender"

(* Every event posted to a connection runs its slot some day, although     *)
(* slots enter event loops of their own; unless the process has died of an *)
(* assertion, or Qt has deleted the object whose slot it was.              *)
EventuallyRuns ==
    \A c \in ConnIds, n \in Args :
        (\E i \in 1 .. Len(queue) : queue[i] = [conn |-> c, arg |-> n])
            ~> \/ \E i \in 1 .. Len(runs[c]) : runs[c][i] = n
               \/ aborted # "no"
               \/ c \in 1 .. nconns /\ conns[c].receiver \in QtObjs \ alive

(* A Ruby signal that is emitted while a Ruby slot is connected to it runs *)
(* that slot some day ("Bidirector Singal/Slot between Ruby and Qt").      *)
RubySlotRuns ==
    \A c \in ConnIds, n \in Args :
        ([conn |-> c, arg |-> n] \in acalled)
            ~> (\E i \in 1 .. Len(runs[c]) : runs[c][i] = n)

\* The emissions on their way to connection c's slot.
Held == {queue[i] : i \in 1 .. Len(queue)} \cup ({filtered} \ {NULL})
Waiting(c) == {n \in Args : [conn |-> c, arg |-> n] \in Held}

Delivery == INSTANCE SignalDelivery WITH
    pending <- [c \in ConnIds |-> Waiting(c)]

(* Queued delivery through one mcevt per connection implements             *)
(* SignalDelivery: in order, once, with the right arguments.               *)
ImplementsDelivery == Delivery!Spec
=============================================================================
