--------------------------- MODULE InterruptsProofs ----------------------------
(***************************************************************************)
(* Theorems about Interrupts, for every number of terminals, every number  *)
(* of handlers of a device on one stack, and also for a user who switches  *)
(* terminals while the kernel boots.                                       *)
(***************************************************************************)
EXTENDS Interrupts, FiniteSetTheorems, SequenceTheorems, TLAPS

USE InterruptsAssumption

-----------------------------------------------------------------------------
(* Stacks of frames.                                                       *)

\* Dropping the last element of a sequence.
LEMMA LastDropped ==
  ASSUME NEW F, NEW q \in Seq(F), q # <<>>
  PROVE  /\ Front(q) \in Seq(F)
         /\ Len(q) \in Nat \ {0}
         /\ Len(Front(q)) = Len(q) - 1
         /\ \A i \in 1..(Len(q) - 1) : Front(q)[i] = q[i]
<1>1. Len(q) \in Nat \ {0}
  OBVIOUS
<1>2. \A i \in 1..(Len(q) - 1) : q[i] \in F
  BY <1>1
<1>3. /\ SubSeq(q, 1, Len(q) - 1) \in Seq(F)
      /\ Len(SubSeq(q, 1, Len(q) - 1)) = IF 1 <= Len(q) - 1 THEN Len(q) - 1 - 1 + 1 ELSE 0
      /\ \A i \in 1..(Len(q) - 1 - 1 + 1) : SubSeq(q, 1, Len(q) - 1)[i] = q[1 + i - 1]
  BY <1>1, <1>2, SubSeqProperties
<1>4. ASSUME NEW i \in 1..(Len(q) - 1) PROVE SubSeq(q, 1, Len(q) - 1)[i] = q[i]
  <2>1. i \in 1..(Len(q) - 1 - 1 + 1) /\ 1 + i - 1 = i
    BY <1>1
  <2> QED
    BY <1>3, <2>1
<1>5. Len(SubSeq(q, 1, Len(q) - 1)) = Len(q) - 1
  <2>1. ASSUME NEW n \in Nat \ {0} PROVE (IF 1 <= n - 1 THEN n - 1 - 1 + 1 ELSE 0) = n - 1
    OBVIOUS
  <2> QED
    BY <1>1, <1>3, <2>1, Zenon
<1> QED
  BY <1>1, <1>3, <1>4, <1>5 DEF Front

\* Replacing it.
LEMMA LastReplaced ==
  ASSUME NEW F, NEW q \in Seq(F), q # <<>>, NEW f \in F
  PROVE  /\ Append(Front(q), f) \in Seq(F)
         /\ Len(q) \in Nat \ {0}
         /\ Len(Append(Front(q), f)) = Len(q)
         /\ \A i \in 1..(Len(q) - 1) : Append(Front(q), f)[i] = q[i]
         /\ Append(Front(q), f)[Len(q)] = f
<1>1. /\ Front(q) \in Seq(F)
      /\ Len(q) \in Nat \ {0}
      /\ Len(Front(q)) = Len(q) - 1
      /\ \A i \in 1..(Len(q) - 1) : Front(q)[i] = q[i]
  BY LastDropped
<1> QED
  BY <1>1

\* Adding one.
LEMMA LastAdded ==
  ASSUME NEW F, NEW q \in Seq(F), NEW f \in F
  PROVE  /\ Append(q, f) \in Seq(F)
         /\ Len(q) \in Nat
         /\ Len(Append(q, f)) = Len(q) + 1
         /\ \A i \in 1..Len(q) : Append(q, f)[i] = q[i]
         /\ Append(q, f)[Len(q) + 1] = f
OBVIOUS

-----------------------------------------------------------------------------
(* The inductive invariant.                                                *)

FrameType ==
  [line : Devices, at : {"entry", "switched", "window", "switch", "suspended", "return"}]

Types ==
  /\ interrupts \in BOOLEAN
  /\ thread \in [Terminals -> {"none", "user", "kernel", "critical", "fault"}]
  /\ frames \in [KernelStacks -> Seq(FrameType)]
  /\ sp \in KernelStacks
  /\ scheduled \in Terminals

\* BodiesRunThrough, and that a stack the processor has left was left by a tick.
StacksInv ==
  /\ \A s \in KernelStacks : \A i \in 1..Len(frames[s]) :
       frames[s][i].at = "entry" => s = sp /\ i = Len(frames[s]) /\ ~interrupts
  /\ \A t \in Terminals :
       thread[t] = "critical" => t = sp /\ frames[t] = <<>> /\ ~interrupts
  /\ \A s \in KernelStacks \ {sp} :
       frames[s] # <<>> => frames[s][Len(frames[s])] = Frame(TIMER, "suspended")
  /\ booting # "done" =>
       ~interrupts /\ sp = BootStack /\ \A s \in KernelStacks : frames[s] = <<>>

\* InServiceIsOwed without counting: where the one handler that owes is.
OwedAt(s, i, line) == i \in 1..Len(frames[s]) /\ Owes(frames[s][i], line)
ServiceInv ==
  booting # "pic" =>
    /\ \A line \in Devices :
         /\ line \in isr => \E s \in KernelStacks : \E i \in Nat :
              /\ OwedAt(s, i, line)
              /\ \A r \in KernelStacks : \A j \in Nat : OwedAt(r, j, line) => r = s /\ j = i
         /\ line \notin isr => \A s \in KernelStacks : \A i \in Nat : ~OwedAt(s, i, line)
    /\ CASCADE \in isr <=> RTC \in isr

IInv == Types /\ StacksInv /\ ServiceInv

LEMMA FramesAreRecords ==
  /\ \A f \in FrameType : f = Frame(f.line, f.at)
  /\ \A line \in Devices : \A at \in {"entry", "switched", "window", "switch", "suspended", "return"} :
       /\ Frame(line, at) \in FrameType
       /\ Frame(line, at).line = line /\ Frame(line, at).at = at
BY DEF FrameType, Frame

LEMMA TypesGiveBounds ==
  ASSUME Types
  PROVE  /\ \A s \in KernelStacks : frames[s] \in Seq(FrameType)
         /\ \A s \in KernelStacks : DOMAIN frames[s] = 1..Len(frames[s]) /\ Len(frames[s]) \in Nat
         /\ \A s \in KernelStacks : frames[s] # <<>> => Len(frames[s]) \in 1..Len(frames[s])
         /\ \A t \in Terminals : t \in KernelStacks /\ t # BootStack
         /\ BootStack \in KernelStacks
<1>1. \A s \in KernelStacks : frames[s] \in Seq(FrameType)
  BY DEF Types
<1>2. \A q \in Seq(FrameType) :
        /\ DOMAIN q = 1..Len(q) /\ Len(q) \in Nat
        /\ q # <<>> => Len(q) \in 1..Len(q)
  OBVIOUS
<1> QED
  BY <1>1, <1>2 DEF Terminals, KernelStacks, BootStack

\* What the invariant says in the terms of the properties.
LEMMA IInvGivesBodies == IInv => BodiesRunThrough
BY TypesGiveBounds DEF IInv, StacksInv, BodiesRunThrough

LEMMA IInvGivesService == IInv => InServiceIsOwed
<1> SUFFICES ASSUME IInv, booting # "pic" PROVE
      /\ \A line \in Devices : Cardinality(Owing(line)) = IF line \in isr THEN 1 ELSE 0
      /\ CASCADE \in isr <=> RTC \in isr
  BY DEF InServiceIsOwed
<1>1. ASSUME NEW line \in Devices
      PROVE  \A p : p \in Owing(line) <=>
               \E s \in KernelStacks : \E i \in Nat : p = <<s, i>> /\ OwedAt(s, i, line)
  BY TypesGiveBounds DEF IInv, Owing, OwedAt
<1>2. ASSUME NEW line \in Devices
      PROVE  Cardinality(Owing(line)) = IF line \in isr THEN 1 ELSE 0
  <2>1. CASE line \in isr
    <3>1. PICK s \in KernelStacks, i \in Nat :
            /\ OwedAt(s, i, line)
            /\ \A r \in KernelStacks : \A j \in Nat : OwedAt(r, j, line) => r = s /\ j = i
      BY <2>1 DEF IInv, ServiceInv
    <3>2. Owing(line) = {<<s, i>>}
      BY <1>1, <3>1
    <3> QED
      BY <2>1, <3>2, FS_Singleton
  <2>2. CASE line \notin isr
    <3>1. \A s \in KernelStacks : \A i \in Nat : ~OwedAt(s, i, line)
      BY <2>2 DEF IInv, ServiceInv
    <3>2. Owing(line) = {}
      BY <1>1, <3>1
    <3> QED
      BY <2>2, <3>2, FS_EmptySet
  <2> QED
    BY <2>1, <2>2
<1> QED
  BY <1>2 DEF IInv, ServiceInv

-----------------------------------------------------------------------------
(* The steps a handler may take on the stack the processor is on.          *)

\* The top frame moves on to another point of its handler.
LEMMA TopAtMoves ==
  ASSUME Types, frames[sp] # <<>>,
         NEW at \in {"entry", "switched", "window", "switch", "suspended", "return"}
  PROVE  /\ TopAt(at) \in [KernelStacks -> Seq(FrameType)]
         /\ \A s \in KernelStacks \ {sp} : TopAt(at)[s] = frames[s]
         /\ Len(frames[sp]) \in Nat \ {0}
         /\ Len(TopAt(at)[sp]) = Len(frames[sp])
         /\ \A i \in 1..(Len(frames[sp]) - 1) : TopAt(at)[sp][i] = frames[sp][i]
         /\ TopAt(at)[sp][Len(frames[sp])] = Frame(Top.line, at)
         /\ Top \in FrameType
<1>1. sp \in KernelStacks /\ frames[sp] \in Seq(FrameType)
  BY DEF Types
<1>2. Top \in FrameType
  BY <1>1, TypesGiveBounds DEF Top
<1>3. [Top EXCEPT !.at = at] = Frame(Top.line, at) /\ Frame(Top.line, at) \in FrameType
  BY <1>2 DEF FrameType, Frame
<1>4. TopAt(at) = [frames EXCEPT ![sp] = Append(Front(frames[sp]), Frame(Top.line, at))]
  BY <1>3 DEF TopAt
<1>5. PICK q \in Seq(FrameType) : q = Append(Front(frames[sp]), Frame(Top.line, at))
  BY <1>1, <1>3, LastReplaced
<1>6. /\ Len(frames[sp]) \in Nat \ {0}
      /\ Len(q) = Len(frames[sp])
      /\ \A i \in 1..(Len(frames[sp]) - 1) : q[i] = frames[sp][i]
      /\ q[Len(frames[sp])] = Frame(Top.line, at)
  BY <1>1, <1>3, <1>5, LastReplaced
<1>7. TopAt(at) = [frames EXCEPT ![sp] = q]
  BY <1>4, <1>5
<1> HIDE DEF Top
<1> QED
  BY <1>1, <1>2, <1>6, <1>7 DEF Types

\* Then no body and no section between cli and sti is under way, and whatever
\* was true of the frames below, and of the other stacks, is still true.
LEMMA TopMoveKeepsStacks ==
  ASSUME Types, StacksInv, frames[sp] # <<>>,
         NEW at \in {"switched", "window", "switch", "return"},
         frames' = TopAt(at), interrupts' = TRUE, scheduled' \in Terminals,
         UNCHANGED <<booting, thread, sp>>
  PROVE  Types' /\ StacksInv'
<1>1. /\ frames' \in [KernelStacks -> Seq(FrameType)]
      /\ \A s \in KernelStacks \ {sp} : frames'[s] = frames[s]
      /\ Len(frames[sp]) \in Nat \ {0}
      /\ Len(frames'[sp]) = Len(frames[sp])
      /\ \A i \in 1..(Len(frames[sp]) - 1) : frames'[sp][i] = frames[sp][i]
      /\ frames'[sp][Len(frames[sp])] = Frame(Top.line, at)
  <2>1. at \in {"entry", "switched", "window", "switch", "suspended", "return"}
    OBVIOUS
  <2>2. PICK after : after = TopAt(at)
    OBVIOUS
  <2>3. /\ after \in [KernelStacks -> Seq(FrameType)]
        /\ \A s \in KernelStacks \ {sp} : after[s] = frames[s]
        /\ Len(frames[sp]) \in Nat \ {0}
        /\ Len(after[sp]) = Len(frames[sp])
        /\ \A i \in 1..(Len(frames[sp]) - 1) : after[sp][i] = frames[sp][i]
        /\ after[sp][Len(frames[sp])] = Frame(Top.line, at)
    BY <2>1, <2>2, TopAtMoves
  <2>4. frames' = after
    BY <2>2
  <2> QED
    BY <2>3, <2>4
<1>2. Types'
  <2>1. interrupts' \in BOOLEAN /\ scheduled' \in Terminals
    OBVIOUS
  <2> QED
    BY <1>1, <2>1 DEF Types
<1>3. ASSUME NEW s \in KernelStacks, NEW i \in 1..Len(frames'[s])
      PROVE  frames'[s][i].at # "entry"
  <2>1. CASE s = sp /\ i = Len(frames[sp])
    BY <1>1, <2>1 DEF Frame
  <2>2. CASE s = sp /\ i # Len(frames[sp])
    BY <1>1, <1>3, <2>2 DEF StacksInv
  <2>3. CASE s # sp
    BY <1>1, <1>3, <2>3 DEF StacksInv
  <2> QED
    BY <2>1, <2>2, <2>3
<1>4. \A t \in Terminals : thread'[t] # "critical"
  BY DEF StacksInv
<1>5. \A s \in KernelStacks \ {sp'} :
        frames'[s] # <<>> => frames'[s][Len(frames'[s])] = Frame(TIMER, "suspended")
  BY <1>1 DEF StacksInv
<1>6. booting' = "done"
  BY DEF StacksInv, Types
<1> QED
  BY <1>2, <1>3, <1>4, <1>5, <1>6 DEF StacksInv

\* Which handlers owe their signal after that, by the new point of the top one.
LEMMA TopMoveOwes ==
  ASSUME Types, frames[sp] # <<>>, Types', UNCHANGED sp,
         NEW at \in {"entry", "switched", "window", "switch", "suspended", "return"},
         frames' = TopAt(at),
         NEW s \in KernelStacks, NEW i \in Nat, NEW line \in Devices
  PROVE  OwedAt(s, i, line)' <=>
           IF s = sp /\ i = Len(frames[sp])
           THEN Top.line = line /\ at \in {"entry", "switched"}
           ELSE OwedAt(s, i, line)
<1>1. /\ \A r \in KernelStacks \ {sp} : frames'[r] = frames[r]
      /\ Len(frames[sp]) \in Nat \ {0}
      /\ Len(frames'[sp]) = Len(frames[sp])
      /\ \A j \in 1..(Len(frames[sp]) - 1) : frames'[sp][j] = frames[sp][j]
      /\ frames'[sp][Len(frames[sp])] = Frame(Top.line, at)
  BY TopAtMoves
<1>2. CASE s = sp /\ i = Len(frames[sp])
  BY <1>1, <1>2 DEF OwedAt, Owes, Frame
<1>3. CASE s = sp /\ i # Len(frames[sp])
  BY <1>1, <1>3 DEF OwedAt, Owes
<1>4. CASE s # sp
  BY <1>1, <1>4 DEF OwedAt, Owes
<1> QED
  BY <1>2, <1>3, <1>4

\* send_eoi by the handler on top ends the service of its own line.
LEMMA EoiKeepsService ==
  ASSUME IInv, frames[sp] # <<>>, Types', UNCHANGED <<sp, booting>>,
         Top.at \in {"entry", "switched"}, NEW at \in {"window", "return"},
         frames' = TopAt(at), SendEoi(Top.line)
  PROVE  ServiceInv'
<1> DEFINE n == Len(frames[sp])
<1>1. Types /\ ServiceInv /\ Top \in FrameType /\ Top.line \in Devices /\ sp \in KernelStacks
  BY TopAtMoves DEF IInv, Types, FrameType
<1>0. PICK own \in Devices : own = Top.line
  BY <1>1
<1>2. n \in Nat /\ n \in 1..Len(frames[sp])
  BY <1>1, TypesGiveBounds
<1>3. OwedAt(sp, n, own)
  BY <1>0, <1>1, <1>2 DEF OwedAt, Owes, Top
<1>4. booting # "pic"
  BY DEF IInv, StacksInv, Types
<1>5. ASSUME NEW s \in KernelStacks, NEW i \in Nat, NEW line \in Devices
      PROVE  OwedAt(s, i, line)' <=> (~(s = sp /\ i = n) /\ OwedAt(s, i, line))
  BY <1>0, <1>1, <1>3, TopMoveOwes DEF OwedAt, Owes
<1>6. ASSUME NEW line \in Devices, line # own
      PROVE  \A s \in KernelStacks : \A i \in Nat : OwedAt(s, i, line)' <=> OwedAt(s, i, line)
  <2>1. ~OwedAt(sp, n, line)
    BY <1>3, <1>6 DEF OwedAt, Owes
  <2> QED
    BY <1>5, <2>1
<1>7. own \in isr
  BY <1>1, <1>2, <1>3, <1>4 DEF ServiceInv
<1>8. \A s \in KernelStacks : \A i \in Nat : ~OwedAt(s, i, own)'
  <2>1. PICK r \in KernelStacks, j \in Nat :
          \A s \in KernelStacks : \A i \in Nat : OwedAt(s, i, own) => s = r /\ i = j
    BY <1>1, <1>4, <1>7 DEF ServiceInv
  <2>2. sp = r /\ n = j
    BY <1>1, <1>2, <1>3, <2>1
  <2> QED
    BY <1>1, <1>5, <2>1, <2>2
<1>9. /\ isr' = isr \ Ended(own)
      /\ \A line \in Devices : line \in isr' <=> line \in isr /\ line # own
      /\ CASCADE \in isr' <=> RTC \in isr'
  BY <1>0, <1>1, <1>4 DEF SendEoi, Ended, IsSlave, Devices, CASCADE, TIMER, KEYBOARD, RTC, ServiceInv
<1>10. ASSUME NEW line \in Devices
       PROVE  /\ line \in isr' => \E s \in KernelStacks : \E i \in Nat :
                   /\ OwedAt(s, i, line)'
                   /\ \A r \in KernelStacks : \A j \in Nat : OwedAt(r, j, line)' => r = s /\ j = i
              /\ line \notin isr' => \A s \in KernelStacks : \A i \in Nat : ~OwedAt(s, i, line)'
  <2>1. CASE line = own
    BY <1>8, <1>9, <2>1
  <2>2. CASE line # own
    BY <1>1, <1>4, <1>6, <1>9, <2>2 DEF ServiceInv
  <2> QED
    BY <2>1, <2>2
<1> QED
  BY <1>9, <1>10 DEF ServiceInv

\* While no handler starts or ends to owe, nothing of that changes.
LEMMA SameOwersKeepService ==
  ASSUME ServiceInv, UNCHANGED isr, booting # "pic" \/ UNCHANGED booting,
         \A line \in Devices : \A s \in KernelStacks : \A i \in Nat :
           OwedAt(s, i, line)' <=> OwedAt(s, i, line)
  PROVE  ServiceInv'
BY DEF ServiceInv

-----------------------------------------------------------------------------
(* The actions.                                                            *)

LEMMA IInvInit == Init => IInv
<1> SUFFICES ASSUME Init PROVE IInv
  OBVIOUS
<1>1. NTerminals - 1 \in Terminals /\ BootStack \in KernelStacks
  BY DEF Terminals, BootStack, KernelStacks
<1>2. <<>> \in Seq(FrameType) /\ Len(<<>>) = 0
  OBVIOUS
<1>3. Types
  BY <1>1, <1>2 DEF Init, Types
<1>4. \A s \in KernelStacks : frames[s] = <<>>
  BY DEF Init
<1>5. \A t \in Terminals : thread[t] = "none"
  BY DEF Init
<1>6. StacksInv
  BY <1>2, <1>4, <1>5 DEF Init, StacksInv
<1>7. ServiceInv
  BY DEF Init, ServiceInv
<1> QED
  BY <1>3, <1>6, <1>7 DEF IInv

\* entry: no handler is under way before its sti, and the first word for the
\* controllers forgets what the boot loader left in service.
LEMMA IInvBoot == IInv /\ BootStep => IInv'
<1> SUFFICES ASSUME IInv, BootStep PROVE IInv'
  OBVIOUS
<1>1. /\ booting # "done" /\ UNCHANGED <<thread, stackVars>>
      /\ booting' # "pic"
      /\ interrupts' \in BOOLEAN
      /\ booting' # "done" => interrupts' = interrupts
  BY DEF IInv, Types, BootStep, BootPic, BootDevices, BootEnable, BootMemory, BootSti
<1>2. /\ ~interrupts /\ sp = BootStack
      /\ \A s \in KernelStacks : frames[s] = <<>> /\ Len(frames[s]) = 0
  BY <1>1 DEF IInv, StacksInv
<1>3. \A t \in Terminals : thread[t] # "critical"
  BY <1>2, TypesGiveBounds DEF IInv, StacksInv
<1>4. Types'
  BY <1>1 DEF IInv, Types, stackVars
<1>5. StacksInv'
  BY <1>1, <1>2, <1>3 DEF StacksInv, stackVars
<1>6. \A line \in Devices : \A s \in KernelStacks : \A i \in Nat :
        ~OwedAt(s, i, line) /\ ~OwedAt(s, i, line)'
  BY <1>1, <1>2 DEF OwedAt, stackVars
<1>7. ServiceInv'
  <2>1. CASE BootPic
    BY <1>6, <2>1 DEF BootPic, ServiceInv
  <2>2. CASE booting # "pic" /\ isr' = isr
    BY <1>6, <2>2, SameOwersKeepService DEF IInv
  <2> QED
    BY <2>1, <2>2 DEF BootStep, BootDevices, BootEnable, BootMemory, BootSti, picVars
<1> QED
  BY <1>4, <1>5, <1>7 DEF IInv

LEMMA IInvRequest ==
  ASSUME IInv, NEW line \in Devices, Request(line)
  PROVE  IInv'
<1>1. UNCHANGED <<booting, masks, isr, interrupts, thread, stackVars>>
  BY DEF Request
<1>2. \A d \in Devices : \A s \in KernelStacks : \A i \in Nat :
        OwedAt(s, i, d)' <=> OwedAt(s, i, d)
  BY <1>1 DEF OwedAt, stackVars
<1>3. Types' /\ StacksInv'
  BY <1>1 DEF IInv, Types, StacksInv, stackVars
<1> QED
  BY <1>1, <1>2, <1>3, SameOwersKeepService DEF IInv

\* A request that is taken: its gate turns interrupts off, its line was not in
\* service, so that no handler owed it.
LEMMA IInvDeliver ==
  ASSUME IInv, NEW line \in Devices, Deliver(line)
  PROVE  IInv'
<1> DEFINE n == Len(frames[sp]) + 1
<1>1. /\ interrupts /\ Deliverable(line)
      /\ isr' = isr \cup InServiceBy(line)
      /\ UNCHANGED <<booting, sp, scheduled>>
      /\ Enter(Vector(line))
  BY DEF Deliver
<1>2. /\ ~interrupts' /\ interrupts' \in BOOLEAN
      /\ frames' = [frames EXCEPT ![sp] = Append(frames[sp], Frame(line, "entry"))]
      /\ UNCHANGED thread
  <2>1. \A other \in Devices : Vector(other) = Vector(line) => other = line
    BY DEF Vector, Devices, IsSlave, TIMER, KEYBOARD, RTC
  <2>2. Gate(Vector(line)).turnsOff = TRUE
    BY DEF Gate, Vector, Devices, IsSlave, TIMER, KEYBOARD, RTC, SYSCALL, InterruptGate
  <2> QED
    BY <1>1, <2>1, <2>2 DEF Enter
<1>3. booting = "done" /\ sp \in KernelStacks /\ frames[sp] \in Seq(FrameType)
  BY <1>1 DEF IInv, StacksInv, Types
<1>4. Frame(line, "entry") \in FrameType
  BY FramesAreRecords
<1>5. PICK q \in Seq(FrameType) : q = Append(frames[sp], Frame(line, "entry"))
  BY <1>3, <1>4, LastAdded
<1>6. /\ Len(frames[sp]) \in Nat
      /\ Len(q) = n
      /\ \A i \in 1..Len(frames[sp]) : q[i] = frames[sp][i]
      /\ q[n] = Frame(line, "entry")
  BY <1>3, <1>4, <1>5, LastAdded
<1>7. /\ frames' = [frames EXCEPT ![sp] = q]
      /\ frames' \in [KernelStacks -> Seq(FrameType)]
      /\ frames'[sp] = q
      /\ \A s \in KernelStacks \ {sp} : frames'[s] = frames[s]
  BY <1>2, <1>3, <1>5 DEF IInv, Types
<1>8. Types'
  BY <1>1, <1>2, <1>7 DEF IInv, Types
<1>9. StacksInv'
  <2>1. ASSUME NEW s \in KernelStacks, NEW i \in 1..Len(frames'[s]), frames'[s][i].at = "entry"
        PROVE  s = sp /\ i = Len(frames'[s])
    BY <1>1, <1>6, <1>7, <2>1 DEF IInv, StacksInv
  <2>2. \A t \in Terminals : thread'[t] # "critical"
    BY <1>1, <1>2 DEF IInv, StacksInv
  <2>3. \A s \in KernelStacks \ {sp'} :
          frames'[s] # <<>> => frames'[s][Len(frames'[s])] = Frame(TIMER, "suspended")
    BY <1>1, <1>7 DEF IInv, StacksInv
  <2> QED
    BY <1>1, <1>2, <1>3, <2>1, <2>2, <2>3 DEF StacksInv
<1>10. ASSUME NEW d \in Devices, NEW s \in KernelStacks, NEW i \in Nat
       PROVE  OwedAt(s, i, d)' <=> (OwedAt(s, i, d) \/ (s = sp /\ i = n /\ d = line))
  <2>1. CASE s = sp /\ i = n
    BY <1>6, <1>7, <2>1 DEF OwedAt, Owes, Frame
  <2>2. CASE s = sp /\ i # n
    BY <1>6, <1>7, <2>2 DEF OwedAt, Owes
  <2>3. CASE s # sp
    BY <1>7, <2>3 DEF OwedAt, Owes
  <2> QED
    BY <2>1, <2>2, <2>3
<1>11. line \notin isr
  <2>1. \A served \in isr : Priority(line) < Priority(served)
    BY <1>1 DEF Deliverable
  <2>2. Priority(line) \in 0..2
    BY DEF Priority, Devices, IsSlave, TIMER, KEYBOARD, RTC, CASCADE
  <2> HIDE DEF Priority
  <2> QED
    BY <2>1, <2>2
<1>12. \A s \in KernelStacks : \A i \in Nat : ~OwedAt(s, i, line)
  BY <1>3, <1>11 DEF IInv, ServiceInv
<1>13. /\ \A d \in Devices : d \in isr' <=> d \in isr \/ d = line
       /\ CASCADE \in isr' <=> RTC \in isr'
  BY <1>1, <1>3 DEF IInv, ServiceInv, InServiceBy, IsSlave, Devices, TIMER, KEYBOARD, RTC, CASCADE
<1>14. ASSUME NEW d \in Devices
       PROVE  /\ d \in isr' => \E s \in KernelStacks : \E i \in Nat :
                   /\ OwedAt(s, i, d)'
                   /\ \A r \in KernelStacks : \A j \in Nat : OwedAt(r, j, d)' => r = s /\ j = i
              /\ d \notin isr' => \A s \in KernelStacks : \A i \in Nat : ~OwedAt(s, i, d)'
  <2>1. CASE d = line
    <3>1. \A s \in KernelStacks : \A i \in Nat : OwedAt(s, i, d)' <=> s = sp /\ i = n
      BY <1>10, <1>12, <2>1
    <3>2. n \in Nat
      BY <1>6
    <3> QED
      BY <1>3, <1>13, <2>1, <3>1, <3>2
  <2>2. CASE d # line
    <3>1. \A s \in KernelStacks : \A i \in Nat : OwedAt(s, i, d)' <=> OwedAt(s, i, d)
      BY <1>10, <2>2
    <3> QED
      BY <1>3, <1>13, <2>2, <3>1 DEF IInv, ServiceInv
  <2> QED
    BY <2>1, <2>2
<1>15. ServiceInv'
  BY <1>13, <1>14 DEF ServiceInv
<1> QED
  BY <1>8, <1>9, <1>15 DEF IInv

\* The three handlers signal the end of their own interrupt.
LEMMA IInvEoi == IInv /\ (TimerEoi \/ KeyboardEoi \/ RtcEoi) => IInv'
<1> SUFFICES ASSUME IInv, TimerEoi \/ KeyboardEoi \/ RtcEoi PROVE IInv'
  OBVIOUS
<1>1. PICK at \in {"window", "return"} :
        /\ frames[sp] # <<>>
        /\ Top.at \in {"entry", "switched"}
        /\ SendEoi(Top.line)
        /\ frames' = TopAt(at)
        /\ UNCHANGED <<booting, thread, sp, scheduled>>
  BY DEF TimerEoi, KeyboardEoi, RtcEoi, TopIs, Frame
<1>2. interrupts' = TRUE
  BY <1>1 DEF SendEoi
<1>3. Types' /\ StacksInv'
  BY <1>1, <1>2, TopMoveKeepsStacks DEF IInv, Types
<1>4. ServiceInv'
  BY <1>1, <1>3, EoiKeepsService
<1> QED
  BY <1>3, <1>4 DEF IInv

\* The timer before it leaves the stack, and the keyboard when it switches.
LEMMA IInvMoveOn == IInv /\ (Scheduler \/ KeyboardSwitches) => IInv'
<1> SUFFICES ASSUME IInv, Scheduler \/ KeyboardSwitches PROVE IInv'
  OBVIOUS
<1>1. NextTerminal \in Terminals
  BY DEF NextTerminal, Terminals, IInv, Types
<1>2. frames[sp] # <<>> /\ interrupts' = TRUE /\ UNCHANGED <<booting, isr, thread, sp>>
  BY DEF Scheduler, KeyboardSwitches, TopIs, picVars
<1>3. PICK at \in {"switched", "switch"} :
        /\ frames' = TopAt(at)
        /\ at \in {"entry", "switched"} <=> Top.at \in {"entry", "switched"}
  BY DEF Scheduler, KeyboardSwitches, TopIs, Frame
<1>4. scheduled' \in Terminals
  BY <1>1 DEF Scheduler, KeyboardSwitches, IInv, Types
<1>5. Types' /\ StacksInv'
  BY <1>2, <1>3, <1>4, TopMoveKeepsStacks DEF IInv
<1>6. ASSUME NEW d \in Devices, NEW s \in KernelStacks, NEW i \in Nat
      PROVE  OwedAt(s, i, d)' <=> OwedAt(s, i, d)
  <2>1. CASE s = sp /\ i = Len(frames[sp])
    <3>1. i \in 1..Len(frames[s]) /\ frames[s][i] = Top
      BY <1>2, <2>1, TypesGiveBounds DEF IInv, Top
    <3> QED
      BY <1>2, <1>3, <1>5, <2>1, <3>1, TopMoveOwes DEF IInv, OwedAt, Owes
  <2>2. CASE ~(s = sp /\ i = Len(frames[sp]))
    BY <1>2, <1>3, <1>5, <2>2, TopMoveOwes DEF IInv
  <2> QED
    BY <2>1, <2>2
<1> QED
  BY <1>2, <1>5, <1>6, SameOwersKeepService DEF IInv

\* schedule_switch: the tick's frame stays on the stack it leaves, and the stack
\* it goes to was left by a tick, whose frame owes nothing.
LEMMA IInvSwitchStack == IInv /\ SwitchStack => IInv'
<1> SUFFICES ASSUME IInv, SwitchStack PROVE IInv'
  OBVIOUS
<1> DEFINE left == TopAt("suspended")
           n == Len(frames[sp])
<1>1. /\ frames[sp] # <<>> /\ Top = Frame(TIMER, "switch")
      /\ sp' = scheduled /\ sp' \in KernelStacks
      /\ UNCHANGED <<booting, isr, interrupts, scheduled>>
  BY TypesGiveBounds DEF SwitchStack, TopIs, picVars, IInv, Types
<1>2. TIMER \in Devices /\ Frame(TIMER, "return") \in FrameType
  BY FramesAreRecords DEF Devices
<1>3. /\ left \in [KernelStacks -> Seq(FrameType)]
      /\ \A s \in KernelStacks \ {sp} : left[s] = frames[s]
      /\ n \in Nat \ {0}
      /\ Len(left[sp]) = n
      /\ \A i \in 1..(n - 1) : left[sp][i] = frames[sp][i]
      /\ left[sp][n] = Frame(TIMER, "suspended")
  BY <1>1, TopAtMoves DEF IInv, Frame
<1>4. booting = "done"
  BY <1>1 DEF IInv, StacksInv, Types
<1>5. \A s \in KernelStacks : \A i \in 1..Len(frames[s]) : frames[s][i].at # "entry"
  BY <1>1, <1>3 DEF IInv, StacksInv, Frame, Top
<1>6. \A t \in Terminals : thread[t] # "critical"
  BY <1>1 DEF IInv, StacksInv
<1>7. /\ \A s \in KernelStacks : left[s] # <<>> => s = sp \/ frames[s] # <<>>
      /\ \A s \in KernelStacks : left[s] # <<>> => left[s][Len(left[s])] = Frame(TIMER, "suspended")
  BY <1>3 DEF IInv, StacksInv
<1>8. \A s \in KernelStacks : Len(left[s]) = Len(frames[s]) /\ Len(frames[s]) \in Nat
  BY <1>3, TypesGiveBounds DEF IInv
<1>9. ASSUME NEW s \in KernelStacks, NEW i \in 1..Len(left[s])
      PROVE  /\ left[s][i].at # "entry"
             /\ \A line \in Devices : Owes(left[s][i], line) <=> Owes(frames[s][i], line)
  <2>1. CASE s = sp /\ i = n
    BY <1>1, <1>3, <2>1 DEF Frame, Owes, Top
  <2>2. CASE ~(s = sp /\ i = n)
    BY <1>3, <1>5, <1>8, <2>2
  <2> QED
    BY <2>1, <2>2
<1>10. CASE frames[scheduled] = <<>>
  <2>1. /\ frames' = left
        /\ thread' = [thread EXCEPT ![scheduled] = "user"]
    BY <1>10 DEF SwitchStack
  <2> HIDE DEF left
  <2>2. Types'
    BY <1>1, <1>3, <2>1 DEF IInv, Types
  <2>3. \A t \in Terminals : thread'[t] # "critical"
    BY <1>6, <2>1 DEF IInv, Types
  <2>4. StacksInv'
    BY <1>1, <1>4, <1>7, <1>9, <2>1, <2>3 DEF StacksInv
  <2>5. \A d \in Devices : \A s \in KernelStacks : \A i \in Nat :
          OwedAt(s, i, d)' <=> OwedAt(s, i, d)
    BY <1>8, <1>9, <2>1 DEF OwedAt
  <2> QED
    BY <1>1, <2>2, <2>4, <2>5, SameOwersKeepService DEF IInv
<1>11. CASE frames[scheduled] # <<>>
  <2> DEFINE m == Len(frames[scheduled])
  <2>1. /\ frames' = [left EXCEPT ![scheduled] = Append(Front(left[scheduled]), Frame(TIMER, "return"))]
        /\ UNCHANGED thread
    BY <1>11 DEF SwitchStack
  <2>2. left[scheduled] \in Seq(FrameType) /\ left[scheduled] # <<>> /\ scheduled \in KernelStacks
    <3>1. scheduled \in KernelStacks /\ frames[scheduled] \in Seq(FrameType)
      BY <1>1, TypesGiveBounds DEF IInv
    <3>2. Len(frames[scheduled]) # 0
      BY <1>11, <3>1
    <3>3. left[scheduled] \in Seq(FrameType)
      BY <1>3, <3>1
    <3>4. Len(left[scheduled]) # 0
      BY <1>8, <3>1, <3>2
    <3> HIDE DEF left
    <3> QED
      BY <3>1, <3>3, <3>4
  <2> HIDE DEF left
  <2>3. PICK q \in Seq(FrameType) : q = Append(Front(left[scheduled]), Frame(TIMER, "return"))
    BY <1>2, <2>2, LastReplaced
  <2>4. /\ Len(q) = m /\ m \in Nat \ {0}
        /\ \A i \in 1..(m - 1) : q[i] = left[scheduled][i]
        /\ q[m] = Frame(TIMER, "return")
    BY <1>2, <1>8, <2>2, <2>3, LastReplaced
  <2>5. /\ frames' \in [KernelStacks -> Seq(FrameType)]
        /\ frames'[scheduled] = q
        /\ \A s \in KernelStacks \ {scheduled} : frames'[s] = left[s]
    BY <1>3, <2>1, <2>2, <2>3
  <2>6. Types'
    BY <1>1, <2>1, <2>5 DEF IInv, Types
  <2>7. ASSUME NEW s \in KernelStacks, NEW i \in 1..Len(frames'[s])
        PROVE  /\ i \in 1..Len(left[s])
               /\ frames'[s][i].at # "entry"
               /\ \A line \in Devices : Owes(frames'[s][i], line) <=> Owes(left[s][i], line)
    <3>1. CASE s = scheduled /\ i = m
      <4>1. left[s][i] = Frame(TIMER, "suspended") /\ i \in 1..Len(left[s])
        BY <1>7, <1>8, <2>2, <2>4, <3>1
      <4> QED
        BY <2>4, <2>5, <3>1, <4>1 DEF Frame, Owes
    <3>2. CASE s = scheduled /\ i # m
      BY <1>8, <1>9, <2>4, <2>5, <3>2
    <3>3. CASE s # scheduled
      BY <1>9, <2>5, <3>3
    <3> QED
      BY <3>1, <3>2, <3>3
  <2>8. \A s \in KernelStacks : Len(frames'[s]) = Len(frames[s])
    BY <1>8, <2>4, <2>5
  <2>9. StacksInv'
    BY <1>1, <1>4, <1>6, <1>7, <2>1, <2>5, <2>7 DEF StacksInv
  <2>10. \A d \in Devices : \A s \in KernelStacks : \A i \in Nat :
           OwedAt(s, i, d)' <=> OwedAt(s, i, d)
    BY <1>9, <2>7, <2>8 DEF OwedAt
  <2> QED
    BY <1>1, <2>6, <2>9, <2>10, SameOwersKeepService DEF IInv
<1> QED
  BY <1>10, <1>11

\* The way back to what was interrupted.
LEMMA IInvReturn == IInv /\ Return => IInv'
<1> SUFFICES ASSUME IInv, Return PROVE IInv'
  OBVIOUS
<1> DEFINE n == Len(frames[sp])
<1>1. /\ frames[sp] # <<>> /\ Top.at = "return" /\ interrupts' = TRUE
      /\ frames' = [frames EXCEPT ![sp] = Front(frames[sp])]
      /\ UNCHANGED <<booting, isr, thread, sp, scheduled>>
  BY DEF Return, picVars
<1>2. sp \in KernelStacks /\ frames[sp] \in Seq(FrameType)
  BY DEF IInv, Types
<1>3. PICK q \in Seq(FrameType) : q = Front(frames[sp])
  BY <1>1, <1>2, LastDropped
<1>4. n \in Nat \ {0} /\ Len(q) = n - 1 /\ \A i \in 1..(n - 1) : q[i] = frames[sp][i]
  BY <1>1, <1>2, <1>3, LastDropped
<1>5. /\ frames' \in [KernelStacks -> Seq(FrameType)]
      /\ frames'[sp] = q
      /\ \A s \in KernelStacks \ {sp} : frames'[s] = frames[s]
  BY <1>1, <1>2, <1>3 DEF IInv, Types
<1>6. Types'
  BY <1>1, <1>5 DEF IInv, Types
<1>7. ASSUME NEW s \in KernelStacks, NEW i \in 1..Len(frames'[s])
      PROVE  /\ frames'[s][i] = frames[s][i] /\ i \in 1..Len(frames[s])
             /\ ~(s = sp /\ i = n)
  BY <1>4, <1>5
<1>8. \A s \in KernelStacks : \A i \in 1..Len(frames[s]) : frames[s][i].at # "entry"
  BY <1>1, <1>4 DEF IInv, StacksInv, Top
<1>9. booting = "done" /\ \A t \in Terminals : thread[t] # "critical"
  BY <1>1 DEF IInv, StacksInv, Types
<1>10. StacksInv'
  BY <1>1, <1>5, <1>7, <1>8, <1>9 DEF IInv, StacksInv
<1>11. ASSUME NEW d \in Devices, NEW s \in KernelStacks, NEW i \in Nat
       PROVE  OwedAt(s, i, d)' <=> OwedAt(s, i, d)
  <2>1. CASE s = sp /\ i = n
    BY <1>1, <1>4, <1>5, <2>1 DEF OwedAt, Owes, Top
  <2>2. CASE s = sp /\ i # n
    BY <1>4, <1>5, <2>2 DEF OwedAt
  <2>3. CASE s # sp
    BY <1>5, <2>3 DEF OwedAt
  <2> QED
    BY <2>1, <2>2, <2>3
<1> QED
  BY <1>1, <1>6, <1>10, <1>11, SameOwersKeepService DEF IInv

\* The program's own traps, and what a system call or an exception handler does
\* with the interrupt flag, happen with no handler on its stack.
LEMMA ThreadKeepsIInv ==
  ASSUME IInv, sp \in Terminals, frames[sp] = <<>>,
         NEW where \in {"user", "kernel", "critical", "fault"},
         thread' = [thread EXCEPT ![sp] = where],
         interrupts' \in BOOLEAN, where = "critical" => ~interrupts',
         UNCHANGED <<booting, picVars, stackVars>>
  PROVE  IInv'
<1>1. sp \in KernelStacks /\ booting = "done"
  BY TypesGiveBounds DEF IInv, StacksInv
<1>2. Types'
  BY DEF IInv, Types, stackVars
<1>3. \A t \in Terminals : thread'[t] = IF t = sp THEN where ELSE thread[t]
  BY DEF IInv, Types
<1>4. \A t \in Terminals : thread'[t] = "critical" => t = sp /\ ~interrupts'
  BY <1>3 DEF IInv, StacksInv
<1>5. \A s \in KernelStacks : \A i \in 1..Len(frames[s]) : frames[s][i].at # "entry"
  BY DEF IInv, StacksInv
<1>6. StacksInv'
  BY <1>1, <1>4, <1>5 DEF IInv, StacksInv, stackVars
<1>7. \A d \in Devices : \A s \in KernelStacks : \A i \in Nat :
        OwedAt(s, i, d)' <=> OwedAt(s, i, d)
  BY DEF OwedAt, stackVars
<1> QED
  BY <1>2, <1>6, <1>7, SameOwersKeepService DEF IInv, picVars

LEMMA IInvThread ==
  ASSUME IInv,
         \/ \E v \in Vectors : SoftwareInterrupt(v)
         \/ \E v \in Exceptions : Fault(v)
         \/ Cli \/ FaultCli \/ Sti \/ SyscallReturn
  PROVE  IInv'
<1>1. CASE \/ \E v \in Vectors : SoftwareInterrupt(v)
           \/ \E v \in Exceptions : Fault(v)
  <2>1. PICK v \in Exceptions \cup {SYSCALL} :
          /\ Runs("user") /\ Enter(v)
          /\ UNCHANGED <<booting, picVars, sp, scheduled, settled>>
    <3>1. 13 \in Exceptions
      BY DEF Exceptions
    <3>2. \A v \in Vectors : Gate(v).dpl = 3 => v = SYSCALL
      BY DEF Gate, SyscallGate, InterruptGate, TrapGate
    <3>3. CASE \E v \in Vectors : SoftwareInterrupt(v)
      <4>1. PICK v \in Vectors : SoftwareInterrupt(v)
        BY <3>3
      <4>2. CASE Gate(v).dpl = 3
        BY <3>2, <4>1, <4>2 DEF SoftwareInterrupt
      <4>3. CASE Gate(v).dpl # 3
        BY <3>1, <4>1, <4>3 DEF SoftwareInterrupt
      <4> QED
        BY <4>2, <4>3
    <3>4. CASE \E v \in Exceptions : Fault(v)
      BY <3>4 DEF Fault
    <3> QED
      BY <1>1, <3>3, <3>4
  <2>2. ~\E line \in Devices : Vector(line) = v
    BY DEF Exceptions, SYSCALL, Devices, Vector, IsSlave, TIMER, KEYBOARD, RTC
  <2>3. PICK where \in {"kernel", "fault"} : thread' = [thread EXCEPT ![sp] = where]
    BY <2>1, <2>2 DEF Enter
  <2>4. UNCHANGED frames /\ interrupts' = (interrupts /\ ~Gate(v).turnsOff)
    BY <2>1, <2>2 DEF Enter
  <2>5. interrupts' \in BOOLEAN
    BY <2>4
  <2> QED
    BY <2>1, <2>3, <2>4, <2>5, ThreadKeepsIInv DEF Runs, stackVars
<1>2. CASE Cli \/ FaultCli \/ Sti \/ SyscallReturn
  BY <1>2, ThreadKeepsIInv DEF Cli, FaultCli, Sti, SyscallReturn, Move, Runs
<1> QED
  BY <1>1, <1>2

LEMMA IInvNext == IInv /\ [Next]_vars => IInv'
<1> SUFFICES ASSUME IInv, [Next]_vars PROVE IInv'
  OBVIOUS
<1>1. CASE \E line \in Devices : Request(line) \/ Deliver(line)
  BY <1>1, IInvRequest, IInvDeliver
<1>2. CASE Handler
  BY <1>2, IInvEoi, IInvMoveOn, IInvSwitchStack, IInvReturn DEF Handler
<1>3. CASE UNCHANGED vars
  <2>1. \A d \in Devices : \A s \in KernelStacks : \A i \in Nat :
          OwedAt(s, i, d)' <=> OwedAt(s, i, d)
    BY <1>3 DEF OwedAt, vars, stackVars
  <2>2. Types' /\ StacksInv'
    BY <1>3 DEF IInv, Types, StacksInv, vars, stackVars
  <2> QED
    BY <1>3, <2>1, <2>2, SameOwersKeepService DEF IInv, vars, picVars
<1> QED
  BY <1>1, <1>2, <1>3, IInvBoot, IInvMoveOn, IInvThread DEF Next

-----------------------------------------------------------------------------
\* The body of a handler, from its gate to its end-of-interrupt signal, and a
\* section between cli and sti of a system call or an exception handler, run
\* through: no other handler, no other stack, no boot step comes in between.
THEOREM BodiesAlwaysRunThrough == Spec => []BodiesRunThrough
<1> QED
  BY IInvInit, IInvNext, IInvGivesBodies, PTL DEF Spec

\* Every line in service has exactly one handler that is still to signal its
\* end, however ticks interleave with the keyboard's and the clock's handlers
\* over the stacks, and a line out of service has none.
THEOREM ServiceAlwaysOwed == Spec => []InServiceIsOwed
<1> QED
  BY IInvInit, IInvNext, IInvGivesService, PTL DEF Spec
=============================================================================
