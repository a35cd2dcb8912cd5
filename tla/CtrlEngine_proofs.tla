-------------------------- MODULE CtrlEngine_proofs --------------------------
(***************************************************************************)
(* Proofs about the calls of Qt functions, for any functions, arguments,   *)
(* storage layout, number and nesting of calls, exceptions included.       *)
(***************************************************************************)
EXTENDS CtrlEngine, TLAPS

(* A function is in the cache exactly with the module compiled for it, and *)
(* only past calls have compiled one.                                      *)
Compiled ==
    /\ \A s \in Symbols : modules[s] # NULL => symOf[modules[s]] = s
    /\ \A n \in Calls : symOf[n] # NULL => n <= ncalls /\ modules[symOf[n]] = n

(* Running calls have remods of their own, those of past calls; what was   *)
(* cut short does not run.                                                 *)
RemodsOwn ==
    /\ \A n \in cut : n <= ncalls
    /\ \A i \in 1 .. Len(stack) : stack[i].remod \notin cut
    /\ \A i \in 1 .. Len(stack) : stack[i].remod <= ncalls
    /\ \A i, j \in 1 .. Len(stack) : i # j => stack[i].remod # stack[j].remod

CallInv == TypeOK /\ CachesAgree /\ Compiled /\ RemodsOwn /\ EnginesClean

----------------------------------------------------------------------------
(* What one call finds: its function's module, an engine that holds it, an *)
(* entry and an argument of its own.                                       *)
LEMMA CallFinds ==
    ASSUME CallInv, NEW s \in Symbols, NEW a \in Args, vm_call(s, a)
    PROVE  LET n == ncalls + 1
               m == QtmodFor(s, n)
           IN /\ n \in Calls /\ m \in Calls
              /\ EngineFor(s, m) = m
              /\ symOf'[m] = s
              /\ Passed(m) = a
              /\ modules'[s] = m /\ ees'[s] = m
              /\ (m = n <=> modules[s] = NULL)
<1> USE CallAssumption DEF CallInv, TypeOK
<1> DEFINE n == ncalls + 1
           m == QtmodFor(s, n)
<1>1. n \in Calls /\ n # NULL
  BY DEF vm_call, Calls
<1>2. m \in Calls /\ (m = n <=> modules[s] = NULL)
  <2>1. CASE modules[s] = NULL
    BY <2>1, <1>1 DEF QtmodFor
  <2>2. CASE modules[s] # NULL
    <3>1. modules[s] \in Calls /\ symOf[modules[s]] = s /\ s # NULL
      BY <2>2 DEF Compiled
    <3>2. modules[s] <= ncalls
      BY <3>1 DEF Compiled
    <3> QED
      BY <2>2, <3>1, <3>2 DEF QtmodFor, Calls
  <2> QED
    BY <2>1, <2>2
<1>3. EngineFor(s, m) = m /\ modules'[s] = m /\ ees'[s] = m
  <2>1. modules[s] = ees[s]
    BY DEF CachesAgree
  <2>2. Add(s, m) /\ AddEE(s, EngineFor(s, m))
    BY DEF vm_call
  <2> QED
    BY <1>2, <2>1, <2>2 DEF QtmodFor, EngineFor, Add, AddEE
<1>4. symOf'[m] = s
  <2>1. symOf' = IF m = n THEN [symOf EXCEPT ![n] = s] ELSE symOf
    BY DEF vm_call
  <2>2. CASE m = n
    BY <2>1, <2>2, <1>1
  <2>3. CASE m # n
    BY <2>1, <2>3, <1>2 DEF Compiled, QtmodFor
  <2> QED
    BY <2>2, <2>3
<1>5. Passed(m) = a
  <2>1. Bind(s, a, n) /\ Link(m, n)
    BY <1>3 DEF vm_call
  <2>2. entry'[m] = n /\ argOf'[n] = a
    BY <2>1, <1>1, <1>2 DEF Bind, ConvertToCallArgs, Link
  <2>3. SlotOf[s] # NULL => gis2'[SlotOf[s]] = a
    BY <2>1 DEF Bind, ConvertToCallArgs
  <2> QED
    BY <1>4, <2>2, <2>3 DEF Passed
<1> QED
  BY <1>1, <1>2, <1>3, <1>4, <1>5

(* The frame a call pushes.                                                *)
LEMMA CallPushes ==
    ASSUME CallInv, NEW s \in Symbols, NEW a \in Args, vm_call(s, a)
    PROVE  LET n == ncalls + 1
               m == QtmodFor(s, n)
               f == [sym |-> s, arg |-> a, qtmod |-> m, ee |-> m,
                     remod |-> n, ran |-> s, got |-> a]
           IN f \in Frame /\ stack' = Append(stack, f)
BY CallFinds DEF vm_call, Frame
----------------------------------------------------------------------------
THEOREM InitCallInv == Init => CallInv
BY CallAssumption
   DEF Init, CallInv, TypeOK, CachesAgree, Compiled, RemodsOwn, EnginesClean, Calls

LEMMA CallStep ==
    ASSUME CallInv, NEW s \in Symbols, NEW a \in Args, vm_call(s, a)
    PROVE  CallInv'
<1> USE CallAssumption
<1> DEFINE n == ncalls + 1
           m == QtmodFor(s, n)
           f == [sym |-> s, arg |-> a, qtmod |-> m, ee |-> m,
                 remod |-> n, ran |-> s, got |-> a]
<1>1. /\ n \in Calls /\ m \in Calls
      /\ EngineFor(s, m) = m
      /\ modules'[s] = m /\ ees'[s] = m /\ symOf'[m] = s
      /\ (m = n <=> modules[s] = NULL)
  BY CallFinds
<1>2. f \in Frame /\ stack' = Append(stack, f)
  BY CallPushes
<1>3. /\ symOf' = IF m = n THEN [symOf EXCEPT ![n] = s] ELSE symOf
      /\ Bind(s, a, n) /\ Add(s, m) /\ AddEE(s, m) /\ Link(m, n)
      /\ ncalls' = n /\ cut' = cut
  BY <1>1 DEF vm_call
<1>4. stack \in Seq(Frame) /\ ncalls \in Nat
  BY DEF CallInv, TypeOK
<1>5. /\ Len(stack') = Len(stack) + 1
      /\ stack'[Len(stack) + 1] = f
      /\ \A i \in 1 .. Len(stack) : stack'[i] = stack[i] /\ stack[i] \in Frame
  BY <1>2, <1>4
<1>6. TypeOK'
  <2>1. modules' \in [Symbols -> Calls \cup {NULL}] /\ mee' \subseteq Calls
    BY <1>1, <1>3 DEF Add, CallInv, TypeOK
  <2>2. ees' \in [Symbols -> Calls \cup {NULL}]
    BY <1>1, <1>3 DEF AddEE, CallInv, TypeOK
  <2>3. /\ remods' \in [Calls -> SUBSET Calls]
        /\ entry' \in [Calls -> Calls \cup {NULL}]
    BY <1>1, <1>3 DEF Link, CallInv, TypeOK
  <2>4. gis2' \in [Slots -> Args \cup {NULL}] /\ argOf' \in [Calls -> Args \cup {NULL}]
    BY <1>1, <1>3 DEF Bind, ConvertToCallArgs, CallInv, TypeOK
  <2>5. symOf' \in [Calls -> Symbols \cup {NULL}]
    BY <1>1, <1>3 DEF CallInv, TypeOK
  <2>6. stack' \in Seq(Frame) /\ ncalls' \in 0 .. MaxCalls /\ cut' \subseteq Calls
    BY <1>1, <1>2, <1>3, <1>4 DEF Calls, CallInv, TypeOK
  <2> QED
    BY <2>1, <2>2, <2>3, <2>4, <2>5, <2>6 DEF TypeOK
<1>7. \A t \in Symbols : modules[t] # NULL => modules'[t] = modules[t]
  BY <1>3 DEF Add, CallInv, TypeOK
<1>8. \A t \in Symbols \ {s} : modules'[t] = modules[t] /\ ees'[t] = ees[t]
  BY <1>3 DEF Add, AddEE, CallInv, TypeOK
<1>9. Compiled'
  <2>1. ASSUME NEW t \in Symbols, modules'[t] # NULL PROVE symOf'[modules'[t]] = t
    <3>1. CASE t = s
      BY <3>1, <1>1
    <3>2. CASE t # s
      <4>1. modules'[t] = modules[t] /\ modules[t] \in Calls /\ symOf[modules[t]] = t
        BY <2>1, <3>2, <1>8 DEF CallInv, TypeOK, Compiled
      <4>2. modules[t] <= ncalls
        BY <4>1 DEF CallInv, Compiled
      <4>3. modules[t] # n
        BY <4>2, <1>4
      <4> QED
        BY <4>1, <4>3, <1>3 DEF CallInv, TypeOK
    <3> QED
      BY <3>1, <3>2
  <2>2. ASSUME NEW k \in Calls, symOf'[k] # NULL
        PROVE  k <= ncalls' /\ modules'[symOf'[k]] = k
    <3>1. CASE k = m
      BY <3>1, <1>1, <1>3, <1>4, <2>2 DEF CallInv, TypeOK, Compiled, Calls
    <3>2. CASE k # m
      <4>1. symOf'[k] = symOf[k]
        BY <3>2, <1>3 DEF CallInv, TypeOK
      <4>2. k <= ncalls /\ modules[symOf[k]] = k /\ symOf[k] \in Symbols
        BY <4>1, <2>2 DEF CallInv, TypeOK, Compiled
      <4>3. modules'[symOf[k]] = k
        BY <4>2, <1>7
      <4> QED
        BY <4>1, <4>2, <4>3, <1>3, <1>4 DEF Calls
    <3> QED
      BY <3>1, <3>2
  <2> QED
    BY <2>1, <2>2 DEF Compiled
<1>10. CachesAgree'
  <2>1. \A t \in Symbols : modules'[t] = ees'[t]
    BY <1>1, <1>8 DEF CallInv, CachesAgree
  <2>2. \A k, l \in Calls : symOf'[k] # NULL /\ symOf'[k] = symOf'[l] => k = l
    BY <1>9 DEF Compiled
  <2>3. ASSUME NEW i \in 1 .. Len(stack')
        PROVE  stack'[i].qtmod = modules'[stack'[i].sym] /\ stack'[i].ee = stack'[i].qtmod
    <3>1. CASE i = Len(stack) + 1
      BY <3>1, <1>1, <1>5
    <3>2. CASE i \in 1 .. Len(stack)
      <4>1. /\ stack[i].qtmod = modules[stack[i].sym] /\ stack[i].ee = stack[i].qtmod
            /\ stack[i].sym \in Symbols /\ stack[i].qtmod \in Calls
        BY <3>2, <1>5 DEF CallInv, CachesAgree, Frame
      <4> QED
        BY <4>1, <3>2, <1>5, <1>7
    <3> QED
      BY <2>3, <3>1, <3>2, <1>4, <1>5
  <2> QED
    BY <2>1, <2>2, <2>3 DEF CachesAgree
<1>11. RemodsOwn'
  <2>1. \A i \in 1 .. Len(stack) : stack[i].remod <= ncalls /\ stack[i].remod \in Nat
    BY <1>5 DEF CallInv, RemodsOwn, Frame, Calls
  <2>2. f.remod = n
    OBVIOUS
  <2>3. \A i \in 1 .. Len(stack') : stack'[i].remod <= ncalls'
    BY <2>1, <2>2, <1>3, <1>4, <1>5
  <2>4. ASSUME NEW i \in 1 .. Len(stack'), NEW j \in 1 .. Len(stack'), i # j
        PROVE  stack'[i].remod # stack'[j].remod
    <3>1. CASE i \in 1 .. Len(stack) /\ j \in 1 .. Len(stack)
      BY <2>4, <3>1, <1>5 DEF CallInv, RemodsOwn
    <3>2. CASE i = Len(stack) + 1 /\ j \in 1 .. Len(stack)
      BY <3>2, <2>1, <2>2, <1>4, <1>5
    <3>3. CASE j = Len(stack) + 1 /\ i \in 1 .. Len(stack)
      BY <3>3, <2>1, <2>2, <1>4, <1>5
    <3> QED
      BY <2>4, <3>1, <3>2, <3>3, <1>4, <1>5
  <2>5. (\A k \in cut' : k <= ncalls') /\ n \notin cut'
    BY <1>3, <1>4 DEF CallInv, TypeOK, RemodsOwn, Calls
  <2>6. \A i \in 1 .. Len(stack') : stack'[i].remod \notin cut'
    <3>1. \A i \in 1 .. Len(stack) : stack[i].remod \notin cut
      BY DEF CallInv, RemodsOwn
    <3>2. \A i \in 1 .. Len(stack') : i \in 1 .. Len(stack) \/ i = Len(stack) + 1
      BY <1>4, <1>5
    <3> QED
      BY <3>1, <3>2, <2>2, <2>5, <1>3, <1>5
  <2> QED
    BY <2>3, <2>4, <2>5, <2>6 DEF RemodsOwn
<1>12. EnginesClean'
  <2> SUFFICES ASSUME NEW e \in Calls
               PROVE  remods'[e] \ cut' = {stack'[i].remod :
                          i \in {j \in 1 .. Len(stack') : stack'[j].ee = e}}
    BY DEF EnginesClean
  <2>1. remods[e] \ cut = {stack[i].remod : i \in {j \in 1 .. Len(stack) : stack[j].ee = e}}
    BY DEF CallInv, EnginesClean
  <2>2. remods'[e] = IF e = m THEN remods[e] \cup {n} ELSE remods[e]
    BY <1>1, <1>3 DEF Link, CallInv, TypeOK
  <2>3. 1 .. Len(stack') = (1 .. Len(stack)) \cup {Len(stack) + 1}
    BY <1>4, <1>5
  <2>4. f.ee = m /\ f.remod = n
    OBVIOUS
  <2>5. cut' = cut /\ n \notin cut
    BY <1>3, <1>4 DEF CallInv, TypeOK, RemodsOwn, Calls
  <2> HIDE DEF f, m, n
  <2> QED
    BY <2>1, <2>2, <2>3, <2>4, <2>5, <1>5
<1> QED
  BY <1>6, <1>9, <1>10, <1>11, <1>12 DEF CallInv

(* Ending the innermost call, or all calls above k.                        *)
LEMMA PopStack ==
    ASSUME CallInv, NEW k \in Nat, k < Len(stack), stack' = SubSeq(stack, 1, k)
    PROVE  /\ stack' \in Seq(Frame) /\ Len(stack') = k
           /\ \A i \in 1 .. k : stack'[i] = stack[i]
BY DEF CallInv, TypeOK

LEMMA ReturnStep == CallInv /\ execute3_returns => CallInv'
<1> SUFFICES ASSUME CallInv, execute3_returns PROVE CallInv'
  OBVIOUS
<1> DEFINE top == Len(stack)
           k == top - 1
<1>1. stack \in Seq(Frame) /\ top \in 1 .. top /\ k \in Nat /\ k < Len(stack)
      /\ stack[top] \in Frame
  BY DEF execute3_returns, CallInv, TypeOK
<1>2. /\ remods' = [remods EXCEPT ![stack[top].ee] = @ \ {stack[top].remod}]
      /\ stack' = SubSeq(stack, 1, k)
      /\ UNCHANGED <<cacheVars, entry, gis2, argOf, ncalls, cut>>
  BY DEF execute3_returns
<1>3. stack' \in Seq(Frame) /\ Len(stack') = k /\ \A i \in 1 .. k : stack'[i] = stack[i]
  BY <1>1, <1>2, PopStack
<1>4. TypeOK'
  BY <1>1, <1>2, <1>3 DEF CallInv, TypeOK, cacheVars, Frame
<1>5. CachesAgree' /\ Compiled' /\ RemodsOwn'
  BY <1>1, <1>2, <1>3 DEF CallInv, CachesAgree, Compiled, RemodsOwn, cacheVars
<1>6. EnginesClean'
  <2> SUFFICES ASSUME NEW e \in Calls
               PROVE  remods'[e] \ cut' = {stack'[i].remod :
                          i \in {j \in 1 .. Len(stack') : stack'[j].ee = e}}
    BY DEF EnginesClean
  <2>1. remods[e] \ cut = {stack[i].remod : i \in {j \in 1 .. top : stack[j].ee = e}}
    BY DEF CallInv, EnginesClean
  <2>2. remods'[e] = IF e = stack[top].ee THEN remods[e] \ {stack[top].remod} ELSE remods[e]
    BY <1>1, <1>2 DEF CallInv, TypeOK
  <2>3. \A i \in 1 .. k : stack[i].remod # stack[top].remod
    BY <1>1 DEF CallInv, RemodsOwn
  <2>4. 1 .. top = (1 .. k) \cup {top} /\ top \notin 1 .. k
    BY <1>1
  <2>5. cut' = cut /\ stack[top].remod \notin cut
    BY <1>1, <1>2 DEF CallInv, RemodsOwn
  <2> HIDE DEF top, k
  <2> QED
    BY <2>1, <2>2, <2>3, <2>4, <2>5, <1>3
<1> QED
  BY <1>4, <1>5, <1>6 DEF CallInv

LEMMA RaiseStep ==
    ASSUME CallInv, NEW k \in 0 .. MaxNest, call_ruby_raises(k)
    PROVE  CallInv'
<1> DEFINE gone == {stack[i].remod : i \in (k + 1) .. Len(stack)}
<1>1. /\ k \in Nat /\ k < Len(stack) /\ stack' = SubSeq(stack, 1, k)
      /\ cut' = cut \cup gone
      /\ UNCHANGED <<cacheVars, remods, entry, gis2, argOf, ncalls>>
  BY CallAssumption DEF call_ruby_raises
<1>2. stack' \in Seq(Frame) /\ Len(stack') = k /\ \A i \in 1 .. k : stack'[i] = stack[i]
  BY <1>1, PopStack
<1>3. 1 .. Len(stack) = (1 .. k) \cup ((k + 1) .. Len(stack))
  BY <1>1 DEF CallInv, TypeOK
<1>4. gone \subseteq Calls /\ \A n \in gone : n <= ncalls
  <2>1. \A i \in 1 .. Len(stack) : stack[i] \in Frame
    BY DEF CallInv, TypeOK
  <2>2. \A i \in 1 .. Len(stack) : stack[i].remod \in Calls /\ stack[i].remod <= ncalls
    BY <2>1 DEF Frame, CallInv, RemodsOwn
  <2> QED
    BY <2>2, <1>3
<1>5. TypeOK'
  BY <1>1, <1>2, <1>4 DEF CallInv, TypeOK, cacheVars
<1>6. CachesAgree' /\ Compiled'
  BY <1>1, <1>2, <1>3 DEF CallInv, CachesAgree, Compiled, cacheVars
<1>7. \A i \in 1 .. k : stack[i].remod \notin gone
  <2>1. \A i \in 1 .. k, j \in (k + 1) .. Len(stack) : i # j
    BY <1>1
  <2> QED
    BY <2>1, <1>3 DEF CallInv, RemodsOwn
<1>8. RemodsOwn'
  BY <1>1, <1>2, <1>3, <1>4, <1>7 DEF CallInv, RemodsOwn
<1>9. EnginesClean'
  <2> SUFFICES ASSUME NEW e \in Calls
               PROVE  remods'[e] \ cut' = {stack'[i].remod :
                          i \in {j \in 1 .. Len(stack') : stack'[j].ee = e}}
    BY DEF EnginesClean
  <2>1. remods[e] \ cut = {stack[i].remod : i \in {j \in 1 .. Len(stack) : stack[j].ee = e}}
    BY DEF CallInv, EnginesClean
  <2>2. ASSUME NEW n, n \in remods'[e] \ cut'
        PROVE  \E i \in 1 .. k : n = stack[i].remod /\ stack[i].ee = e
    <3>1. n \in remods[e] \ cut /\ n \notin gone
      BY <1>1, <2>2
    <3>2. PICK i \in 1 .. Len(stack) : n = stack[i].remod /\ stack[i].ee = e
      BY <2>1, <3>1
    <3>3. i \notin (k + 1) .. Len(stack)
      BY <3>1, <3>2
    <3> QED
      BY <1>3, <3>2, <3>3
  <2>3. ASSUME NEW i \in 1 .. k, stack[i].ee = e
        PROVE  stack[i].remod \in remods'[e] \ cut'
    <3>1. stack[i].remod \in remods[e] \ cut
      BY <2>1, <2>3, <1>3
    <3> QED
      BY <3>1, <1>1, <1>7
  <2> HIDE DEF gone
  <2> QED
    BY <2>2, <2>3, <1>2
<1> QED
  BY <1>5, <1>6, <1>8, <1>9 DEF CallInv
----------------------------------------------------------------------------
LEMMA NextCallInv == CallInv /\ [Next]_vars => CallInv'
<1> SUFFICES ASSUME CallInv, [Next]_vars PROVE CallInv'
  OBVIOUS
<1>1. CASE \E s \in Symbols, a \in Args : vm_call(s, a)
  BY <1>1, CallStep
<1>2. CASE execute3_returns
  BY <1>2, ReturnStep
<1>3. CASE \E k \in 0 .. MaxNest : call_ruby_raises(k)
  BY <1>3, RaiseStep
<1>4. CASE UNCHANGED vars
  <2>1. UNCHANGED <<modules, ees, mee, symOf, remods, entry, gis2, argOf, stack, ncalls, cut>>
    BY <1>4 DEF vars, cacheVars
  <2>2. TypeOK' /\ CachesAgree' /\ Compiled'
    BY <2>1 DEF CallInv, TypeOK, CachesAgree, Compiled
  <2>3. RemodsOwn' /\ EnginesClean'
    BY <2>1 DEF CallInv, RemodsOwn, EnginesClean
  <2> QED
    BY <2>2, <2>3 DEF CallInv
<1> QED
  BY <1>1, <1>2, <1>3, <1>4 DEF Next

(* The inductive invariant of calls (execute3 and its callers).            *)
THEOREM CallInvariant == Spec => []CallInv
BY InitCallInv, NextCallInv, PTL DEF Spec

(* Type correctness of calls: vm_new, vm_call, vm_static_call, execute3.   *)
THEOREM CallTypeCorrect == Spec => []TypeOK
<1>1. CallInv => TypeOK
  BY DEF CallInv
<1> QED
  BY <1>1, CallInvariant, PTL

(* The caches agree and every function is compiled once: ModuleManager and *)
(* the lookups of vm_new, vm_call and vm_static_call.                      *)
THEOREM CachesAgreeHolds == Spec => []CachesAgree
<1>1. CallInv => CachesAgree
  BY DEF CallInv
<1> QED
  BY <1>1, CallInvariant, PTL

(* An engine gives back what execute3 added to it.                         *)
THEOREM EnginesCleanHolds == Spec => []EnginesClean
<1>1. CallInv => EnginesClean
  BY DEF CallInv
<1> QED
  BY <1>1, CallInvariant, PTL
----------------------------------------------------------------------------
LEMMA JitStep == CallInv /\ [Next]_vars => [JC!Next]_(JC!vars)
<1> SUFFICES ASSUME CallInv, [Next]_vars PROVE [JC!Next]_(JC!vars)
  OBVIOUS
<1> DEFINE Inv(fr) == [asked |-> [fn |-> fr.sym, arg |-> fr.arg],
                       runs |-> [fn |-> fr.ran, arg |-> fr.got]]
           run == [i \in 1 .. Len(stack) |-> Inv(stack[i])]
           done == {s \in Symbols : modules[s] # NULL}
<1>1. stack \in Seq(Frame) /\ Len(run) = Len(stack)
  BY DEF CallInv, TypeOK
<1>2. run \in Seq([asked : JC!Invocation, runs : JC!Invocation])
  <2>1. ASSUME NEW i \in 1 .. Len(stack)
        PROVE  Inv(stack[i]) \in [asked : JC!Invocation, runs : JC!Invocation]
    <3>1. stack[i] \in Frame
      BY <1>1
    <3>2. \A fr \in Frame : Inv(fr) \in [asked : JC!Invocation, runs : JC!Invocation]
      BY DEF Frame, JC!Invocation
    <3> QED
      BY <3>1, <3>2
  <2>2. Len(stack) \in Nat
    BY <1>1
  <2>3. run \in [1 .. Len(stack) -> [asked : JC!Invocation, runs : JC!Invocation]]
    BY <2>1
  <2> QED
    BY <2>2, <2>3
<1>3. ASSUME NEW s \in Symbols, NEW a \in Args, vm_call(s, a) PROVE JC!Call([fn |-> s, arg |-> a])
  <2> DEFINE m == QtmodFor(s, ncalls + 1)
             inv == [fn |-> s, arg |-> a]
             f == [sym |-> s, arg |-> a, qtmod |-> m, ee |-> m,
                   remod |-> ncalls + 1, ran |-> s, got |-> a]
  <2>1. f \in Frame /\ stack' = Append(stack, f) /\ Inv(f) = [asked |-> inv, runs |-> inv]
    BY <1>3, CallPushes
  <2>2. run' = Append(run, [asked |-> inv, runs |-> inv])
    BY <1>1, <1>2, <2>1
  <2>3. Len(run) < MaxNest
    BY <1>1, <1>3 DEF vm_call
  <2>4. modules'[s] = m /\ m \in Calls /\ m # NULL
    BY <1>3, CallFinds, CallAssumption
  <2>5. \A t \in Symbols \ {s} : modules'[t] = modules[t]
    BY <1>3 DEF vm_call, Add, CallInv, TypeOK
  <2>6. done' = done \cup {inv.fn}
    BY <2>4, <2>5
  <2> QED
    BY <2>2, <2>3, <2>6 DEF JC!Call
<1>4. ASSUME NEW k \in Nat, k < Len(stack), stack' = SubSeq(stack, 1, k)
      PROVE  run' = SubSeq(run, 1, k)
  <2>1. Len(stack') = k /\ \A i \in 1 .. k : stack'[i] = stack[i]
    BY <1>4, PopStack
  <2>2. 1 .. k \subseteq 1 .. Len(stack)
    BY <1>1, <1>4
  <2> QED
    BY <1>1, <1>2, <1>4, <2>1, <2>2
<1>5. ASSUME execute3_returns PROVE JC!Return
  <2>1. Len(stack) - 1 \in Nat /\ Len(stack) - 1 < Len(stack) /\ run # <<>>
        /\ stack' = SubSeq(stack, 1, Len(stack) - 1)
    BY <1>1, <1>5 DEF execute3_returns
  <2>2. run' = SubSeq(run, 1, Len(run) - 1)
    BY <2>1, <1>1, <1>4
  <2>3. done' = done
    BY <1>5 DEF execute3_returns, cacheVars
  <2> QED
    BY <2>1, <2>2, <2>3 DEF JC!Return
<1>6. ASSUME NEW k \in 0 .. MaxNest, call_ruby_raises(k) PROVE JC!Raise(k)
  <2>1. k \in Nat /\ k < Len(stack) /\ stack' = SubSeq(stack, 1, k)
        /\ modules' = modules
    BY <1>6, CallAssumption DEF call_ruby_raises, cacheVars
  <2>2. run' = SubSeq(run, 1, k)
    BY <2>1, <1>4
  <2> QED
    BY <2>1, <2>2, <1>1 DEF JC!Raise
<1>7. CASE UNCHANGED vars
  BY <1>7 DEF vars, cacheVars, JC!vars
<1> QED
  BY <1>3, <1>5, <1>6, <1>7 DEF Next, JC!Next, JC!Invocation

(* CtrlEngine, ModuleManager, OperatorEngine and execute3 together do what *)
(* JitCalls promises: every call runs its own function with its own        *)
(* arguments, whatever its engine ran before and whatever runs around it.  *)
THEOREM ImplementsCallsHolds == Spec => ImplementsCalls
<1>1. Init => JC!Init
  BY DEF Init, JC!Init
<1>2. CallInv /\ [Next]_vars => [JC!Next]_(JC!vars)
  BY JitStep
<1> QED
  BY <1>1, <1>2, CallInvariant, PTL DEF Spec, ImplementsCalls, JC!Spec
=============================================================================
