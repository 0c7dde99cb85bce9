-------------------------- MODULE Interrupts_proofs --------------------------
(***************************************************************************)
(* Proofs about interrupts and context switches, for every program, every  *)
(* device and any depth of nesting: as long as the software keeps to the   *)
(* rules the processor leaves to it, the links in memory are the stack of  *)
(* the contexts that wait.                                                 *)
(***************************************************************************)
EXTENDS Interrupts, Tms9900_proofs

Contexts == [pc : Word, wp : Word, st : Word]

SavedContexts == [ctx : Contexts, level : Levels \cup {NoLevel}]

IntTypes ==
  /\ TypeOK
  /\ saved \in Seq(SavedContexts)
  /\ raised \in Nat

(* The mask of the running context, and of those that wait behind it. *)
MaskOf(i) == IF i = 1 THEN IntMask(cpu) ELSE saved[i - 1].ctx.st % 16

(* Whatever has run since an interrupt was taken has a mask below its      *)
(* level, so the masks RTWP will restore are low enough too.               *)
MasksNested ==
  \A j \in 1 .. Len(saved) : saved[j].level # NoLevel =>
    \A i \in 1 .. j : MaskOf(i) < saved[j].level /\ (i < j => saved[i].level < saved[j].level)

IntInv == IntTypes /\ ContextChain /\ MasksNested

-----------------------------------------------------------------------------
(* Stacks *)

LEMMA Pushed ==
  ASSUME NEW S, NEW s \in Seq(S), NEW x \in S
  PROVE  LET t == <<x>> \o s
         IN  /\ t \in Seq(S) /\ Len(t) = Len(s) + 1 /\ t[1] = x /\ t # <<>>
             /\ \A i \in 1 .. Len(s) : t[i + 1] = s[i]
             /\ \A i \in 2 .. Len(s) + 1 : t[i] = s[i - 1]
             /\ Head(t) = x /\ Tail(t) = s
<1> DEFINE t == <<x>> \o s
<1>1. /\ t \in Seq(S) /\ Len(t) = Len(s) + 1 /\ t[1] = x
      /\ \A i \in 2 .. Len(s) + 1 : t[i] = s[i - 1]
  OBVIOUS
<1> HIDE DEF t
<1>2. \A i \in 1 .. Len(s) : t[i + 1] = s[i]
  <2> SUFFICES ASSUME NEW i \in 1 .. Len(s) PROVE t[i + 1] = s[i]
    OBVIOUS
  <2>1. i + 1 \in 2 .. Len(s) + 1 /\ (i + 1) - 1 = i
    OBVIOUS
  <2> QED BY <1>1, <2>1
<1>3. Head(t) = x /\ t # <<>>
  BY <1>1
<1>4. Tail(t) = s
  <2>1. Tail(t) \in Seq(S) /\ Len(Tail(t)) = Len(s)
    BY <1>1
  <2>2. \A i \in 1 .. Len(s) : Tail(t)[i] = s[i]
    BY <1>1, <1>2
  <2> QED BY <2>1, <2>2
<1> QED BY <1>1, <1>2, <1>3, <1>4 DEF t

LEMMA Popped ==
  ASSUME NEW S, NEW s \in Seq(S), s # <<>>
  PROVE  /\ Tail(s) \in Seq(S) /\ Len(Tail(s)) = Len(s) - 1 /\ Len(s) \in Nat \ {0}
         /\ \A i \in 1 .. Len(s) - 1 : Tail(s)[i] = s[i + 1]
OBVIOUS

-----------------------------------------------------------------------------
(* The links in the memory of a machine *)

LEMMA LinkAtWorkspace ==
  ASSUME NEW m, IsMachine(m)
  PROVE  Link(m, m.wp) = [wp |-> Reg(m, 13), pc |-> Reg(m, 14), st |-> Reg(m, 15)]
<1>1. [m EXCEPT !.wp = m.wp] = m
  BY DEF IsMachine
<1> QED BY <1>1 DEF Link

LEMMA ContextOK == ASSUME NEW m, IsMachine(m) PROVE Context(m) \in Contexts
BY Parts DEF Context, Contexts

(* What a context switch at the address a does to a machine. *)
LEMMA SwitchFacts ==
  ASSUME NEW m, IsMachine(m), NEW a, NEW n, n = Blwp(m, a)
  PROVE  IsMachine(n) /\ n.st = m.st /\ Link(n, n.wp) = Context(m)
<1>1. IsMachine(n)
  BY BlwpOK
<1>2. Reg(n, 13) = m.wp /\ Reg(n, 14) = m.pc /\ Reg(n, 15) = m.st /\ n.st = m.st
  BY BlwpLinks
<1> QED BY <1>1, <1>2, LinkAtWorkspace DEF Context

(* A link is in memory, whatever the processor's registers are. *)
LEMMA LinkInMemory ==
  ASSUME NEW m, IsMachine(m), NEW st \in Word, NEW wp
  PROVE  Link([m EXCEPT !.st = st], wp) = Link(m, wp)
<1> DEFINE n == [[m EXCEPT !.st = st] EXCEPT !.wp = wp]
           w == [m EXCEPT !.wp = wp]
<1>1. n.mem = w.mem /\ n.wp = w.wp
  BY DEF IsMachine
<1>2. \A r : Reg(n, r) = Reg(w, r)
  <2> HIDE DEF n, w
  <2> QED BY <1>1 DEF Reg, RegAddr, ReadW
<1> QED BY <1>2 DEF Link

LEMMA InterruptFacts ==
  ASSUME NEW m, IsMachine(m), NEW l \in 1 .. 15, NEW n, n = Interrupted(m, l)
  PROVE  /\ IsMachine(n) /\ Link(n, n.wp) = Context(m)
         /\ n.st % 16 = l - 1 /\ n.st \div 16 = m.st \div 16
<1> DEFINE b == Blwp(m, 4 * l)
           st == b.st - (b.st % 16) + (l - 1)
<1>1. IsMachine(b) /\ b.st = m.st /\ Link(b, b.wp) = Context(m)
  BY SwitchFacts
<1>2. m.st \in Word
  BY Parts
<1>3. n = [b EXCEPT !.st = st]
  BY DEF Interrupted, SetIntMask
<1> HIDE DEF b
<1>4. st \in Word /\ st % 16 = l - 1 /\ st \div 16 = m.st \div 16
  BY <1>1, <1>2 DEF Word
<1> HIDE DEF st
<1>5. n.st = st /\ n.wp = b.wp
  BY <1>1, <1>3 DEF IsMachine
<1>6. IsMachine(n)
  <2>1. IsMachine([b EXCEPT !.st = st])
    BY <1>1, <1>4, Replace
  <2> QED BY <1>3, <2>1
<1>7. Link(n, b.wp) = Link(b, b.wp)
  BY <1>1, <1>3, <1>4, LinkInMemory
<1> QED BY <1>1, <1>4, <1>5, <1>6, <1>7

-----------------------------------------------------------------------------
(* The steps *)

(* BLWP: the operand is decoded in the running context, then it waits.     *)
LEMMA BlwpStepFacts ==
  ASSUME TypeOK, BlwpStep
  PROVE  LET m == OperandDone(cpu, SMode(ir), SReg(ir), 2)
         IN  /\ IsMachine(m) /\ m.wp = cpu.wp /\ m.st = cpu.st
             /\ IsMachine(cpu') /\ cpu'.st = cpu.st /\ Link(cpu', cpu'.wp) = Context(m)
             /\ mode' = "check" /\ ir' = ir /\ frames' = frames
<1> DEFINE m == OperandDone(cpu, SMode(ir), SReg(ir), 2)
           a == OperandAddr(cpu, SMode(ir), SReg(ir))
<1>1. IsMachine(cpu) /\ ir \in Word
  BY DEF TypeOK
<1>2. IsMachine(m)
  BY <1>1, OneOperandOK
<1>3. m.wp = cpu.wp /\ m.st = cpu.st
  <2>1. SMode(ir) \in 0 .. 3
    BY <1>1, Fields
  <2>2. Fetched(cpu).wp = cpu.wp /\ Fetched(cpu).st = cpu.st
    BY <1>1 DEF Fetched, IsMachine
  <2>3. \A v : SetReg(cpu, SReg(ir), v).wp = cpu.wp /\ SetReg(cpu, SReg(ir), v).st = cpu.st
    BY <1>1, SetRegKeeps
  <2> QED BY <2>1, <2>2, <2>3 DEF OperandDone
<1>4. cpu' = Blwp(m, a) /\ mode' = "check" /\ ir' = ir /\ frames' = frames
  <2>1. Op(ir) = "BLWP" /\ cpu' = OneOperand(cpu, Op(ir), ir)
    BY DEF BlwpStep, ExecuteSingle, Execute
  <2>2. cpu' = Single(m, "BLWP", a)
    BY <2>1 DEF OneOperand
  <2> HIDE DEF m, a
  <2> QED BY <2>2 DEF Single, BlwpStep, ExecuteSingle, Execute
<1> HIDE DEF m, a
<1>5. IsMachine(cpu') /\ cpu'.st = m.st /\ Link(cpu', cpu'.wp) = Context(m)
  BY <1>2, <1>4, SwitchFacts
<1> QED BY <1>2, <1>3, <1>4, <1>5 DEF m

LEMMA RtwpStepFacts ==
  ASSUME TypeOK, RtwpStep
  PROVE  /\ IsMachine(cpu') /\ Context(cpu') = Link(cpu, cpu.wp)
         /\ mode' = "check" /\ ir' = ir /\ frames' = frames
<1>1. IsMachine(cpu) /\ ir \in Word
  BY DEF TypeOK
<1>2. cpu' = Immediate(cpu, "RTWP", SReg(ir)) /\ mode' = "check" /\ ir' = ir /\ frames' = frames
  BY DEF RtwpStep, ExecuteImmediate, Execute
<1>3. cpu' = Rtwp(cpu)
  BY <1>2 DEF Immediate
<1>4. IsMachine(cpu')
  BY <1>1, <1>3, RtwpOK
<1>5. cpu'.pc = Reg(cpu, 14) /\ cpu'.st = Reg(cpu, 15) /\ cpu'.wp = Reg(cpu, 13)
  BY <1>1, <1>3 DEF Rtwp, IsMachine
<1>6. Context(cpu') = Link(cpu, cpu.wp)
  BY <1>1, <1>5, LinkAtWorkspace DEF Context
<1> QED BY <1>2, <1>4, <1>6

LEMMA ServiceFacts ==
  ASSUME TypeOK, 0 \notin Levels, NEW l \in Levels, Service(l)
  PROVE  /\ l \in 1 .. 15 /\ l <= IntMask(cpu)
         /\ IsMachine(cpu') /\ Link(cpu', cpu'.wp) = Context(cpu)
         /\ cpu'.st % 16 = l - 1 /\ cpu'.st \div 16 = cpu.st \div 16
<1>1. l \in 1 .. 15
  BY BoundAssumption
<1>2. cpu' = Interrupted(cpu, l) /\ l <= IntMask(cpu)
  BY DEF Service, TakeInterrupt
<1> QED BY <1>1, <1>2, InterruptFacts DEF TypeOK

LEMMA IntTypesKept ==
  ASSUME IntTypes, 0 \notin Levels, [IntNext]_intVars
  PROVE  IntTypes'
<1> USE DEF IntTypes
<1>1. CASE Step
  BY <1>1, RunTypeOK DEF Step
<1>2. CASE BlwpStep
  <2> DEFINE m == OperandDone(cpu, SMode(ir), SReg(ir), 2)
             x == [ctx |-> Context(m), level |-> NoLevel]
  <2>1. IsMachine(m) /\ IsMachine(cpu') /\ mode' = "check" /\ ir' = ir /\ frames' = frames
    BY <1>2, BlwpStepFacts
  <2>2. x \in SavedContexts
    BY <2>1, ContextOK DEF SavedContexts
  <2>3. saved' = <<x>> \o saved /\ raised' = raised
    BY <1>2 DEF BlwpStep, Suspend
  <2> HIDE DEF x
  <2>4. saved' \in Seq(SavedContexts)
    BY <2>2, <2>3, Pushed
  <2> QED BY <2>1, <2>3, <2>4 DEF TypeOK
<1>3. CASE RtwpStep
  <2>1. IsMachine(cpu') /\ mode' = "check" /\ ir' = ir /\ frames' = frames
    BY <1>3, RtwpStepFacts
  <2>2. saved' \in Seq(SavedContexts) /\ raised' = raised
    BY <1>3, Popped DEF RtwpStep
  <2> QED BY <2>1, <2>2 DEF TypeOK
<1>4. ASSUME NEW l \in Levels, Service(l) PROVE IntTypes'
  <2> DEFINE x == [ctx |-> Context(cpu), level |-> l]
  <2>1. TypeOK'
    BY <1>4, TakeInterruptTypeOK DEF Service
  <2>2. x \in SavedContexts
    BY ContextOK DEF SavedContexts, TypeOK
  <2>3. saved' = <<x>> \o saved /\ raised' = raised + 1
    BY <1>4 DEF Service, Suspend
  <2> HIDE DEF x
  <2>4. saved' \in Seq(SavedContexts)
    BY <2>2, <2>3, Pushed
  <2> QED BY <2>1, <2>3, <2>4
<1>5. CASE UNCHANGED intVars
  BY <1>5 DEF intVars, vars, TypeOK
<1> QED BY <1>1, <1>2, <1>3, <1>4, <1>5 DEF IntNext

-----------------------------------------------------------------------------
(* The chain of links *)

(* A context suspended by a step takes the first place of the stack, and   *)
(* its workspace is the one the processor ran in.                          *)
LEMMA WorkspacesPushed ==
  ASSUME IntTypes, NEW c \in SavedContexts, saved' = <<c>> \o saved, c.ctx.wp = cpu.wp
  PROVE  /\ Len(saved') = Len(saved) + 1 /\ saved'[1] = c
         /\ \A i \in 2 .. Len(saved') : saved'[i] = saved[i - 1]
         /\ \A i \in 2 .. Len(saved') : Workspace(i)' = Workspace(i - 1)
<1>1. /\ Len(saved') = Len(saved) + 1 /\ saved'[1] = c
      /\ \A i \in 2 .. Len(saved) + 1 : saved'[i] = saved[i - 1]
  BY Pushed DEF IntTypes
<1>2. \A i \in 2 .. Len(saved') : saved'[i] = saved[i - 1]
  BY <1>1
<1>3. ASSUME NEW i \in 2 .. Len(saved') PROVE Workspace(i)' = Workspace(i - 1)
  <2>1. Workspace(i)' = saved'[i - 1].ctx.wp
    BY DEF Workspace
  <2>2. Len(saved) \in Nat
    BY DEF IntTypes
  <2>3. CASE i = 2
    BY <1>1, <2>1, <2>3 DEF Workspace
  <2>4. CASE i # 2
    <3>1. i - 1 \in 2 .. Len(saved') /\ i - 1 # 1
      BY <1>1, <2>2, <2>4
    <3>2. saved'[i - 1] = saved[(i - 1) - 1]
      BY <1>2, <3>1
    <3> QED BY <2>1, <3>1, <3>2 DEF Workspace
  <2> QED BY <2>3, <2>4
<1> QED BY <1>1, <1>2, <1>3

(* A link pushed right, over links that are kept, leaves a chain.          *)
LEMMA ChainPushed ==
  ASSUME IntTypes, ContextChain, KeepsTheRules,
         NEW c \in SavedContexts, saved' = <<c>> \o saved, c.ctx.wp = cpu.wp,
         Link(cpu', cpu'.wp) = c.ctx
  PROVE  ContextChain'
<1> SUFFICES ASSUME NEW i \in 1 .. Len(saved')
             PROVE  Link(cpu', Workspace(i)') = saved'[i].ctx
  BY DEF ContextChain
<1>1. /\ Len(saved') = Len(saved) + 1 /\ saved'[1] = c
      /\ \A k \in 2 .. Len(saved') : saved'[k] = saved[k - 1]
      /\ \A k \in 2 .. Len(saved') : Workspace(k)' = Workspace(k - 1)
  BY WorkspacesPushed
<1>2. CASE i = 1
  <2>1. Workspace(i)' = cpu'.wp
    BY <1>2 DEF Workspace
  <2> QED BY <1>1, <1>2, <2>1
<1>3. CASE i # 1
  <2>1. Len(saved) \in Nat
    BY DEF IntTypes
  <2>2. i \in 2 .. Len(saved') /\ i - 1 \in 1 .. Len(saved)
    BY <1>1, <1>3, <2>1
  <2>3. Link(cpu', Workspace(i - 1)) = Link(cpu, Workspace(i - 1))
    BY <2>2 DEF KeepsTheRules
  <2>4. Link(cpu, Workspace(i - 1)) = saved[i - 1].ctx
    BY <2>2 DEF ContextChain
  <2> QED BY <1>1, <2>2, <2>3, <2>4
<1> QED BY <1>2, <1>3

(* The same for RTWP, which takes the first link off.                      *)
LEMMA WorkspacesPopped ==
  ASSUME IntTypes, ContextChain, RtwpStep
  PROVE  /\ saved # <<>> /\ saved' = Tail(saved) /\ Len(saved) \in Nat \ {0}
         /\ Len(saved') = Len(saved) - 1
         /\ \A i \in 1 .. Len(saved) - 1 : saved'[i] = saved[i + 1]
         /\ Context(cpu') = saved[1].ctx
         /\ \A i \in 1 .. Len(saved) : Workspace(i)' = Workspace(i + 1)
<1>1. saved # <<>> /\ saved' = Tail(saved)
  BY DEF RtwpStep
<1>2. /\ Len(saved) \in Nat \ {0} /\ Len(saved') = Len(saved) - 1
      /\ \A i \in 1 .. Len(saved) - 1 : saved'[i] = saved[i + 1]
  BY <1>1, Popped DEF IntTypes
<1>3. Context(cpu') = saved[1].ctx
  <2>1. Link(cpu, cpu.wp) = saved[1].ctx
    <3>1. 1 \in 1 .. Len(saved) /\ Workspace(1) = cpu.wp
      BY <1>2 DEF Workspace
    <3> QED BY <3>1 DEF ContextChain
  <2> QED BY <2>1, RtwpStepFacts DEF IntTypes
<1>4. ASSUME NEW i \in 1 .. Len(saved) PROVE Workspace(i)' = Workspace(i + 1)
  <2>1. Workspace(i + 1) = saved[i].ctx.wp
    BY <1>2 DEF Workspace
  <2>2. CASE i = 1
    BY <1>3, <2>1, <2>2 DEF Workspace, Context
  <2>3. CASE i # 1
    <3>1. i - 1 \in 1 .. Len(saved) - 1 /\ (i - 1) + 1 = i
      BY <1>2, <2>3
    <3>2. saved'[i - 1] = saved[i]
      BY <1>2, <3>1
    <3> QED BY <2>1, <2>3, <3>2 DEF Workspace
  <2> QED BY <2>2, <2>3
<1> QED BY <1>1, <1>2, <1>3, <1>4

LEMMA ChainKept ==
  ASSUME IntTypes, ContextChain, 0 \notin Levels, [IntNext]_intVars, [KeepsTheRules]_intVars
  PROVE  ContextChain'
<1>1. ASSUME saved' = saved, saved # <<>> => cpu'.wp = cpu.wp, KeepsTheRules
      PROVE  ContextChain'
  <2> SUFFICES ASSUME NEW i \in 1 .. Len(saved)
               PROVE  Link(cpu', Workspace(i)') = saved[i].ctx
    BY <1>1 DEF ContextChain
  <2>1. cpu'.wp = cpu.wp
    BY <1>1 DEF IntTypes
  <2>2. Workspace(i)' = Workspace(i)
    BY <1>1, <2>1 DEF Workspace
  <2>3. Link(cpu', Workspace(i)) = Link(cpu, Workspace(i))
    BY <1>1 DEF KeepsTheRules
  <2> QED BY <2>2, <2>3 DEF ContextChain
<1>2. CASE UNCHANGED intVars
  <2>1. cpu' = cpu /\ saved' = saved
    BY <1>2 DEF intVars, vars
  <2> QED BY <2>1 DEF ContextChain, Workspace
<1> SUFFICES ASSUME IntNext, KeepsTheRules PROVE ContextChain'
  BY <1>2
<1>3. CASE Step
  <2>1. saved' = saved
    BY <1>3 DEF Step
  <2>2. saved # <<>> => cpu'.wp = cpu.wp
    BY <1>3 DEF KeepsTheRules
  <2> QED BY <1>1, <2>1, <2>2
<1>4. CASE BlwpStep
  <2> DEFINE m == OperandDone(cpu, SMode(ir), SReg(ir), 2)
             c == [ctx |-> Context(m), level |-> NoLevel]
  <2>1. IsMachine(m) /\ m.wp = cpu.wp /\ Link(cpu', cpu'.wp) = Context(m)
    BY <1>4, BlwpStepFacts DEF IntTypes
  <2>2. saved' = <<c>> \o saved
    BY <1>4 DEF BlwpStep, Suspend
  <2> HIDE DEF m
  <2>3. c \in SavedContexts /\ c.ctx.wp = cpu.wp /\ c.ctx = Context(m)
    BY <2>1, ContextOK DEF SavedContexts, Context
  <2> HIDE DEF c
  <2> QED BY <2>1, <2>2, <2>3, ChainPushed
<1>5. CASE RtwpStep
  <2> SUFFICES ASSUME NEW i \in 1 .. Len(saved')
               PROVE  Link(cpu', Workspace(i)') = saved'[i].ctx
    BY DEF ContextChain
  <2>1. /\ Len(saved) \in Nat \ {0} /\ Len(saved') = Len(saved) - 1
        /\ \A k \in 1 .. Len(saved) - 1 : saved'[k] = saved[k + 1]
        /\ \A k \in 1 .. Len(saved) : Workspace(k)' = Workspace(k + 1)
    BY <1>5, WorkspacesPopped
  <2>2. i \in 1 .. Len(saved) - 1 /\ i \in 1 .. Len(saved) /\ i + 1 \in 1 .. Len(saved)
    BY <2>1
  <2>3. Link(cpu', Workspace(i + 1)) = Link(cpu, Workspace(i + 1))
    BY <2>2 DEF KeepsTheRules
  <2>4. Link(cpu, Workspace(i + 1)) = saved[i + 1].ctx
    BY <2>2 DEF ContextChain
  <2> QED BY <2>1, <2>2, <2>3, <2>4
<1>6. ASSUME NEW l \in Levels, Service(l) PROVE ContextChain'
  <2> DEFINE c == [ctx |-> Context(cpu), level |-> l]
  <2>1. Link(cpu', cpu'.wp) = Context(cpu)
    BY <1>6, ServiceFacts DEF IntTypes
  <2>2. saved' = <<c>> \o saved
    BY <1>6 DEF Service, Suspend
  <2>3. c \in SavedContexts /\ c.ctx.wp = cpu.wp /\ c.ctx = Context(cpu)
    BY ContextOK DEF SavedContexts, Context, IntTypes, TypeOK
  <2> HIDE DEF c
  <2> QED BY <2>1, <2>2, <2>3, ChainPushed
<1> QED BY <1>3, <1>4, <1>5, <1>6 DEF IntNext

-----------------------------------------------------------------------------
(* The masks *)

LEMMA MaskRange == ASSUME NEW m, IsMachine(m) PROVE IntMask(m) \in 0 .. 15
<1>1. m.st \in Word
  BY Parts
<1>2. \A x \in Word : x % 16 \in 0 .. 15
  BY DEF Word
<1> QED BY <1>1, <1>2 DEF IntMask

LEMMA LevelInt == ASSUME NEW c \in SavedContexts PROVE c.level \in Int
<1>1. c.level \in Levels \cup {NoLevel}
  BY DEF SavedContexts
<1>2. \A l \in Levels : l \in Int
  BY BoundAssumption
<1> QED BY <1>1, <1>2 DEF NoLevel

LEMMA LevelsAndMasks ==
  ASSUME IntTypes
  PROVE  IntMask(cpu) \in 0 .. 15 /\ \A i \in 1 .. Len(saved) : saved[i].level \in Int
<1>1. \A i \in 1 .. Len(saved) : saved[i] \in SavedContexts
  BY DEF IntTypes
<1> QED BY <1>1, MaskRange, LevelInt DEF IntTypes, TypeOK

(* The context suspended was interruptible at its level, and the one that  *)
(* runs instead no longer is.                                              *)
LEMMA MasksPushed ==
  ASSUME IntTypes, IntTypes', MasksNested,
         NEW c \in SavedContexts, saved' = <<c>> \o saved,
         c.ctx.wp = cpu.wp, c.ctx.st = cpu.st,
         IntMask(cpu') <= IntMask(cpu), c.level <= IntMask(cpu),
         c.level # NoLevel => IntMask(cpu') < c.level
  PROVE  MasksNested'
<1> SUFFICES ASSUME NEW j \in 1 .. Len(saved'), saved'[j].level # NoLevel, NEW i \in 1 .. j
             PROVE  /\ MaskOf(i)' < saved'[j].level
                    /\ i < j => saved'[i].level < saved'[j].level
  BY DEF MasksNested
<1>1. /\ Len(saved) \in Nat /\ Len(saved') = Len(saved) + 1 /\ saved'[1] = c
      /\ \A k \in 2 .. Len(saved') : saved'[k] = saved[k - 1]
  BY WorkspacesPushed DEF IntTypes
<1>2. MaskOf(1)' = IntMask(cpu') /\ MaskOf(1) = IntMask(cpu)
  BY DEF MaskOf
<1>3. CASE j = 1
  BY <1>1, <1>2, <1>3
<1>4. CASE j # 1
  <2>1. PICK k \in 1 .. Len(saved) : j = k + 1
    <3>1. j - 1 \in 1 .. Len(saved) /\ j = (j - 1) + 1
      BY <1>1, <1>4
    <3> QED BY <3>1
  <2>2. saved'[j] = saved[k] /\ saved[k].level # NoLevel
    <3>1. j \in 2 .. Len(saved') /\ j - 1 = k
      BY <1>1, <2>1
    <3> QED BY <1>1, <3>1
  <2>3. ASSUME NEW n \in 1 .. k
        PROVE  MaskOf(n) < saved[k].level /\ (n < k => saved[n].level < saved[k].level)
    BY <2>1, <2>2 DEF MasksNested
  <2>4. /\ IntMask(cpu) \in Int /\ IntMask(cpu') \in Int
        /\ c.level \in Int /\ saved[k].level \in Int
    <3>1. IntMask(cpu) \in 0 .. 15 /\ IntMask(cpu') \in 0 .. 15
      BY MaskRange DEF IntTypes, TypeOK
    <3>2. IntMask(cpu) \in Int /\ IntMask(cpu') \in Int
      BY ONLY <3>1
    <3> QED BY <2>1, <3>2, LevelsAndMasks, LevelInt
  <2>5. IntMask(cpu) < saved[k].level
    <3>1. 1 \in 1 .. k
      BY <2>1
    <3> QED BY <1>2, <2>3, <3>1
  <2>6. CASE i = 1
    <3>1. MaskOf(i)' = IntMask(cpu')
      BY <2>6 DEF MaskOf
    <3>2. saved'[i] = c
      BY <1>1, <2>6
    <3>3. IntMask(cpu') < saved[k].level /\ c.level < saved[k].level
      <4>1. \A a, b, d \in Int : a <= b /\ b < d => a < d
        OBVIOUS
      <4> QED BY <2>4, <2>5, <4>1
    <3> QED BY <2>2, <3>1, <3>2, <3>3
  <2>7. CASE i # 1
    <3>1. i - 1 \in 1 .. k /\ i \in 2 .. Len(saved') /\ (i < j <=> i - 1 < k)
      BY <1>1, <2>1, <2>7
    <3>2. saved'[i] = saved[i - 1]
      BY <1>1, <3>1
    <3>3. MaskOf(i)' = MaskOf(i - 1)
      <4>1. MaskOf(i)' = saved'[i - 1].ctx.st % 16
        BY <2>7 DEF MaskOf
      <4>2. CASE i = 2
        BY <1>1, <1>2, <4>1, <4>2 DEF IntMask
      <4>3. CASE i # 2
        <5>1. i - 1 \in 2 .. Len(saved') /\ i - 1 # 1
          BY <1>1, <3>1, <4>3
        <5>2. saved'[i - 1] = saved[(i - 1) - 1]
          BY <1>1, <5>1
        <5> QED BY <4>1, <5>1, <5>2 DEF MaskOf
      <4> QED BY <4>2, <4>3
    <3>4. /\ MaskOf(i - 1) < saved[k].level
          /\ i - 1 < k => saved[i - 1].level < saved[k].level
      BY <2>3, <3>1
    <3> QED BY <2>2, <3>1, <3>2, <3>3, <3>4
  <2> QED BY <2>6, <2>7
<1> QED BY <1>3, <1>4

LEMMA MasksKept ==
  ASSUME IntTypes, IntTypes', ContextChain, MasksNested, 0 \notin Levels,
         [IntNext]_intVars, [KeepsTheRules]_intVars
  PROVE  MasksNested'
<1>1. CASE UNCHANGED intVars
  <2>1. cpu' = cpu /\ saved' = saved
    BY <1>1 DEF intVars, vars
  <2> QED BY <2>1 DEF MasksNested, MaskOf
<1> SUFFICES ASSUME IntNext, KeepsTheRules PROVE MasksNested'
  BY <1>1
<1>2. CASE Step
  <2>1. saved' = saved
    BY <1>2 DEF Step
  <2> SUFFICES ASSUME NEW j \in 1 .. Len(saved), saved[j].level # NoLevel, NEW i \in 1 .. j
               PROVE  /\ MaskOf(i)' < saved[j].level
                      /\ i < j => saved[i].level < saved[j].level
    BY <2>1 DEF MasksNested
  <2>2. MaskOf(i) < saved[j].level /\ (i < j => saved[i].level < saved[j].level)
    BY DEF MasksNested
  <2>3. CASE i = 1
    <3>1. MaskOf(i)' = IntMask(cpu') /\ MaskOf(i) = IntMask(cpu)
      BY <2>3 DEF MaskOf
    <3>2. IntMask(cpu') <= IntMask(cpu)
      BY <1>2 DEF KeepsTheRules
    <3>3. IntMask(cpu) \in 0 .. 15 /\ IntMask(cpu') \in 0 .. 15 /\ saved[j].level \in Int
      BY LevelsAndMasks, MaskRange DEF IntTypes, TypeOK
    <3>4. MaskOf(i)' < saved[j].level
      <4>1. IntMask(cpu) < saved[j].level
        BY ONLY <2>2, <3>1
      <4>2. \A x, y, z \in Int : x <= y /\ y < z => x < z
        OBVIOUS
      <4>3. IntMask(cpu) \in Int /\ IntMask(cpu') \in Int /\ saved[j].level \in Int
        BY ONLY <3>3
      <4>4. IntMask(cpu') < saved[j].level
        BY ONLY <3>2, <4>1, <4>2, <4>3
      <4> QED BY ONLY <3>1, <4>4
    <3> QED BY <2>2, <3>4
  <2>4. CASE i # 1
    BY <2>1, <2>2, <2>4 DEF MaskOf
  <2> QED BY <2>3, <2>4
<1>3. CASE BlwpStep
  <2> DEFINE m == OperandDone(cpu, SMode(ir), SReg(ir), 2)
             c == [ctx |-> Context(m), level |-> NoLevel]
  <2>1. IsMachine(m) /\ m.wp = cpu.wp /\ m.st = cpu.st /\ cpu'.st = cpu.st
    BY <1>3, BlwpStepFacts DEF IntTypes
  <2>2. saved' = <<c>> \o saved
    BY <1>3 DEF BlwpStep, Suspend
  <2> HIDE DEF m
  <2>3. c \in SavedContexts /\ c.ctx.wp = cpu.wp /\ c.ctx.st = cpu.st /\ c.level = NoLevel
    BY <2>1, ContextOK DEF SavedContexts, Context
  <2> HIDE DEF c
  <2>4. IntMask(cpu') = IntMask(cpu) /\ IntMask(cpu) \in 0 .. 15
    BY <2>1, LevelsAndMasks DEF IntMask
  <2>5. IntMask(cpu') <= IntMask(cpu) /\ c.level <= IntMask(cpu)
    BY <2>3, <2>4 DEF NoLevel
  <2> QED BY <2>2, <2>3, <2>5, MasksPushed
<1>4. CASE RtwpStep
  <2>1. /\ Len(saved) \in Nat \ {0} /\ Len(saved') = Len(saved) - 1
        /\ \A k \in 1 .. Len(saved) - 1 : saved'[k] = saved[k + 1]
        /\ Context(cpu') = saved[1].ctx
    BY <1>4, WorkspacesPopped
  <2> SUFFICES ASSUME NEW j \in 1 .. Len(saved'), saved'[j].level # NoLevel, NEW i \in 1 .. j
               PROVE  /\ MaskOf(i)' < saved'[j].level
                      /\ i < j => saved'[i].level < saved'[j].level
    BY DEF MasksNested
  <2>2. /\ i \in 1 .. Len(saved) - 1 /\ j \in 1 .. Len(saved) - 1
        /\ j + 1 \in 1 .. Len(saved) /\ i + 1 \in 1 .. j + 1 /\ (i < j <=> i + 1 < j + 1)
    BY <2>1
  <2>3. saved'[i] = saved[i + 1] /\ saved'[j] = saved[j + 1]
    BY <2>1, <2>2
  <2>4. MaskOf(i + 1) < saved[j + 1].level /\ (i < j => saved[i + 1].level < saved[j + 1].level)
    BY <2>2, <2>3 DEF MasksNested
  <2>5. MaskOf(i)' = MaskOf(i + 1)
    <3>1. MaskOf(i + 1) = saved[i].ctx.st % 16
      BY <2>2 DEF MaskOf
    <3>2. CASE i = 1
      BY <2>1, <3>1, <3>2 DEF MaskOf, Context, IntMask
    <3>3. CASE i # 1
      <4>1. i - 1 \in 1 .. Len(saved) - 1 /\ (i - 1) + 1 = i
        BY <2>1, <2>2, <3>3
      <4>2. saved'[i - 1] = saved[i]
        BY <2>1, <4>1
      <4> QED BY <3>1, <3>3, <4>2 DEF MaskOf
    <3> QED BY <3>2, <3>3
  <2> QED BY <2>3, <2>4, <2>5
<1>5. ASSUME NEW l \in Levels, Service(l) PROVE MasksNested'
  <2> DEFINE c == [ctx |-> Context(cpu), level |-> l]
  <2>1. l \in 1 .. 15 /\ l <= IntMask(cpu) /\ IntMask(cpu') = l - 1
    BY <1>5, ServiceFacts DEF IntTypes, IntMask
  <2>2. saved' = <<c>> \o saved
    BY <1>5 DEF Service, Suspend
  <2>3. c \in SavedContexts /\ c.ctx.wp = cpu.wp /\ c.ctx.st = cpu.st /\ c.level = l
    BY ContextOK DEF SavedContexts, Context, IntTypes, TypeOK
  <2> HIDE DEF c
  <2>4. IntMask(cpu) \in 0 .. 15
    BY LevelsAndMasks
  <2>5. IntMask(cpu') <= IntMask(cpu) /\ c.level <= IntMask(cpu) /\ IntMask(cpu') < c.level
    BY <2>1, <2>3, <2>4
  <2> QED BY <2>2, <2>3, <2>5, MasksPushed
<1> QED BY <1>2, <1>3, <1>4, <1>5 DEF IntNext

-----------------------------------------------------------------------------
(* The theorems.  Level 0 is the reset of the processor, which no mask     *)
(* keeps out and after which nothing is resumed; it is no device's.        *)

LEMMA IntInitially == ASSUME IntInit PROVE IntInv
<1>1. saved = <<>> /\ raised = 0
  BY DEF IntInit
<1>2. TypeOK
  BY InitTypeOK DEF IntInit
<1>3. Len(saved) = 0 /\ saved \in Seq(SavedContexts)
  BY <1>1
<1>4. ContextChain /\ MasksNested
  BY <1>3 DEF ContextChain, MasksNested
<1> QED BY <1>1, <1>2, <1>3, <1>4 DEF IntInv, IntTypes

LEMMA IntInvKept ==
  ASSUME IntInv, 0 \notin Levels, [IntNext]_intVars, [KeepsTheRules]_intVars
  PROVE  IntInv'
BY IntTypesKept, ChainKept, MasksKept DEF IntInv

LEMMA AlwaysIntInv == 0 \notin Levels /\ IntSpec /\ RulesKept => []IntInv
<1> SUFFICES ASSUME 0 \notin Levels PROVE IntSpec /\ RulesKept => []IntInv
  OBVIOUS
<1>1. IntInit => IntInv
  BY IntInitially
<1>2. IntInv /\ [IntNext]_intVars /\ [KeepsTheRules]_intVars => IntInv'
  BY IntInvKept
<1> QED BY <1>1, <1>2, PTL DEF IntSpec, RulesKept

(* Whatever devices, subroutines and programs do within the rules, each    *)
(* suspended context is linked, intact, in R13, R14 and R15 of the         *)
(* workspace that runs in its place (_blwp, _rtwp).                        *)
THEOREM ChainCorrect == 0 \notin Levels /\ IntSpec /\ RulesKept => []ContextChain
<1>1. IntInv => ContextChain
  BY DEF IntInv
<1> QED BY <1>1, AlwaysIntInv, PTL

(* "only higher priority interrupts can interrupt this ISR" (cpu.cc:1005), *)
(* across BLWPs and returns: RTWP restores a status only of a context      *)
(* whose mask is below every interrupt that is still being serviced.       *)
THEOREM PriorityCorrect == 0 \notin Levels /\ IntSpec /\ RulesKept => []PriorityOrder
<1>1. IntInv => PriorityOrder
  <2> SUFFICES ASSUME IntInv, NEW i \in 1 .. Len(saved), saved[i].level # NoLevel
               PROVE  /\ IntMask(cpu) < saved[i].level
                      /\ \A j \in 1 .. i - 1 : saved[j].level < saved[i].level
    BY DEF PriorityOrder
  <2>1. \A k \in 1 .. i : MaskOf(k) < saved[i].level /\ (k < i => saved[k].level < saved[i].level)
    BY DEF IntInv, MasksNested
  <2>2. 1 \in 1 .. i /\ MaskOf(1) = IntMask(cpu) /\ \A j \in 1 .. i - 1 : j \in 1 .. i /\ j < i
    BY DEF MaskOf, IntInv, IntTypes
  <2> QED BY <2>1, <2>2
<1> QED BY <1>1, AlwaysIntInv, PTL

(* The links in memory implement the stack of contexts: BLWP and an        *)
(* interrupt push the context that ran, an interrupt leaves the flags and  *)
(* lowers the mask, and RTWP resumes the context that was suspended last.  *)
THEOREM Implements == 0 \notin Levels /\ IntSpec /\ RulesKept => ImplementsContextStack
<1> SUFFICES ASSUME 0 \notin Levels PROVE IntSpec /\ RulesKept => ImplementsContextStack
  OBVIOUS
<1> DEFINE stack == [i \in 1 .. Len(saved) |-> saved[i].ctx]
<1>1. IntInit => Abstract!Init
  <2> SUFFICES ASSUME IntInit PROVE stack = <<>>
    BY DEF Abstract!Init
  <2>1. Len(saved) = 0
    BY DEF IntInit
  <2> QED BY <2>1
<1>2. ASSUME IntInv, [IntNext]_intVars, [KeepsTheRules]_intVars
      PROVE  [Abstract!Next]_<<Context(cpu), stack>>
  <2>1. IntTypes /\ ContextChain
    BY <1>2 DEF IntInv
  <2>2. Len(stack) = Len(saved) /\ (stack = <<>> <=> saved = <<>>)
    BY <2>1 DEF IntTypes
  <2>3. ASSUME NEW c \in SavedContexts, saved' = <<c>> \o saved
        PROVE  stack' = <<c.ctx>> \o stack
    <3>1. /\ Len(saved') = Len(saved) + 1 /\ Len(saved) \in Nat /\ saved'[1] = c
          /\ \A i \in 2 .. Len(saved) + 1 : saved'[i] = saved[i - 1]
      BY <2>1, <2>3, Pushed DEF IntTypes
    <3> DEFINE pushed == <<c.ctx>> \o stack
    <3>2. /\ pushed = [i \in 1 .. Len(saved) + 1 |-> pushed[i]] /\ pushed[1] = c.ctx
          /\ \A i \in 2 .. Len(saved) + 1 : pushed[i] = stack[i - 1]
      BY <3>1
    <3>3. \A i \in 1 .. Len(saved) + 1 : pushed[i] = saved'[i].ctx
      BY <3>1, <3>2
    <3> QED BY <3>1, <3>2, <3>3
  <2>4. ASSUME NEW c \in SavedContexts, saved' = <<c>> \o saved
        PROVE  stack' # <<>> /\ Head(stack') = c.ctx /\ Tail(stack') = stack
    <3>1. stack \in Seq(Contexts) /\ c.ctx \in Contexts
      <4>1. \A d \in SavedContexts : d.ctx \in Contexts
        BY DEF SavedContexts
      <4>2. \A i \in 1 .. Len(saved) : saved[i] \in SavedContexts
        BY <2>1 DEF IntTypes
      <4>3. Len(saved) \in Nat
        BY <2>1 DEF IntTypes
      <4> QED BY <4>1, <4>2, <4>3
    <3>2. stack' = <<c.ctx>> \o stack
      BY <2>3, <2>4
    <3> HIDE DEF stack
    <3> QED BY <3>1, <3>2, Pushed
  <2>5. CASE Step
    BY <2>5 DEF Step, Abstract!Next, Abstract!Compute
  <2>6. CASE BlwpStep
    <3> DEFINE m == OperandDone(cpu, SMode(ir), SReg(ir), 2)
               c == [ctx |-> Context(m), level |-> NoLevel]
    <3>1. IsMachine(m) /\ m.wp = cpu.wp /\ m.st = cpu.st /\ cpu'.st = cpu.st
      BY <2>1, <2>6, BlwpStepFacts DEF IntTypes
    <3>2. saved' = <<c>> \o saved
      BY <2>6 DEF BlwpStep, Suspend
    <3> HIDE DEF m
    <3>3. c \in SavedContexts /\ c.ctx.wp = cpu.wp /\ c.ctx.st = cpu.st
      BY <3>1, ContextOK DEF SavedContexts, Context
    <3> HIDE DEF c
    <3>4. stack' # <<>> /\ Head(stack') = c.ctx /\ Tail(stack') = stack
      BY <2>4, <3>2, <3>3
    <3> HIDE DEF stack
    <3>5. Abstract!Call
      BY <3>1, <3>3, <3>4 DEF Abstract!Call, Context, stack
    <3> QED BY <3>5 DEF Abstract!Next
  <2>7. CASE RtwpStep
    <3>1. /\ Len(saved) \in Nat \ {0} /\ Len(saved') = Len(saved) - 1
          /\ \A i \in 1 .. Len(saved) - 1 : saved'[i] = saved[i + 1]
          /\ Context(cpu') = saved[1].ctx
      BY <2>1, <2>7, WorkspacesPopped
    <3>2. stack # <<>> /\ Head(stack) = saved[1].ctx
      BY <3>1
    <3>3. stack' = Tail(stack)
      <4>1. Tail(stack) = [i \in 1 .. Len(saved) - 1 |-> stack[i + 1]]
        BY <3>1
      <4> QED BY <3>1, <4>1
    <3>4. Abstract!Resume
      BY <3>1, <3>2, <3>3 DEF Abstract!Resume
    <3> QED BY <3>4 DEF Abstract!Next
  <2>8. ASSUME NEW l \in Levels, Service(l) PROVE Abstract!Next
    <3> DEFINE c == [ctx |-> Context(cpu), level |-> l]
    <3>1. /\ l \in 1 .. 15 /\ l <= IntMask(cpu)
          /\ cpu'.st % 16 = l - 1 /\ cpu'.st \div 16 = cpu.st \div 16
      BY <2>1, <2>8, ServiceFacts DEF IntTypes
    <3>2. saved' = <<c>> \o saved
      BY <2>8 DEF Service, Suspend
    <3>3. c \in SavedContexts /\ c.ctx = Context(cpu)
      BY <2>1, ContextOK DEF SavedContexts, IntTypes, TypeOK
    <3> HIDE DEF c
    <3>4. stack' = <<Context(cpu)>> \o stack
      BY <2>3, <3>2, <3>3
    <3>5. Abstract!Flags(Context(cpu)') = Abstract!Flags(Context(cpu))
      BY <3>1 DEF Abstract!Flags, Context
    <3>6. Abstract!Mask(Context(cpu)') < Abstract!Mask(Context(cpu))
      <4>1. IntMask(cpu) \in 0 .. 15
        BY <2>1, LevelsAndMasks
      <4>2. Abstract!Mask(Context(cpu)') = l - 1 /\ Abstract!Mask(Context(cpu)) = IntMask(cpu)
        BY <3>1 DEF Abstract!Mask, Context, IntMask
      <4> QED BY <3>1, <4>1, <4>2
    <3>7. Abstract!Interrupt
      BY <3>4, <3>5, <3>6 DEF Abstract!Interrupt
    <3> QED BY <3>7 DEF Abstract!Next
  <2>9. CASE UNCHANGED intVars
    BY <2>9 DEF intVars, vars, Context
  <2> QED BY <1>2, <2>5, <2>6, <2>7, <2>8, <2>9 DEF IntNext
<1> QED BY <1>1, <1>2, AlwaysIntInv, PTL DEF ImplementsContextStack, IntSpec, RulesKept, Abstract!Spec
=============================================================================
