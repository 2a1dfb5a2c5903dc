-------------------------- MODULE ContextSwitchProofs --------------------------
(***************************************************************************)
(* Theorems about ContextSwitch, for every number of terminals and of pids *)
(* and a timer that interrupts user code and launches only, the windows in *)
(* which it comes on the machine.                                          *)
(*                                                                         *)
(* The invariant has three parts.  The pids in use are a tree: one path    *)
(* for each terminal, from its base shell down to the program on its       *)
(* record.  The context of a terminal that waits is on the kernel stack of *)
(* that program or of its caller, and on top of it.  A caller's frame is   *)
(* at the bottom of its own stack, with at most a context above it.        *)
(*                                                                         *)
(* The path of a terminal is the stack that TerminalStacks has for it,     *)
(* which makes each step one of TerminalStacks (StacksImplemented).        *)
(***************************************************************************)
EXTENDS ContextSwitch, SequenceTheorems, FiniteSetTheorems, NaturalsInduction,
        WellFoundedInduction, TLAPS

\* The timer comes in user code and in launches.
TimerIsOrderly == TickIn \subseteq {"user", "launch"}

-----------------------------------------------------------------------------
(* The invariant.                                                          *)

WithShell == {t \in Terminals : shell_exists[t]}

\* A shell that restarts has freed its pid and has it still.
InUse ==
  {p \in Pids : pid_array[p] = 1} \cup (IF pc = "restart" THEN {current_pid} ELSE {})

Tree(used, parent, leaf, shells, owner) ==
  /\ \A t \in shells : /\ leaf[t] \in used /\ owner[leaf[t]] = t
                       /\ t + 1 \in used /\ parent[t + 1] = 0
  /\ \A p \in used : parent[p] = 0 => p = owner[p] + 1
  /\ \A p \in used : parent[p] # 0 => parent[p] \in used /\ owner[parent[p]] = owner[p]
  /\ \A p \in used, t \in shells : parent[p] # leaf[t]
  /\ \A p, q \in used : parent[p] # 0 /\ parent[p] = parent[q] => p = q

\* What is on a kernel stack.
Empty == <<>>
Idle == <<TickFrame("idle")>>
InUser == <<TickFrame("user")>>
Called == <<ExecuteFrame>>
CalledInLaunch == <<ExecuteFrame, TickFrame("launch")>>
Halting == <<HaltFrame>>
HaltingInLaunch == <<HaltFrame, TickFrame("launch")>>
KernelStacks == {Empty, Idle, InUser, Called, CalledInLaunch, Halting, HaltingInLaunch}
Places == PidOrNone \X Nat

\* The context of a program was saved at a place.
Saved(p, q, place, stacks) ==
  \/ place = <<p, 1>> /\ stacks[p] = InUser
  \/ q # 0 /\ place = <<q, 2>> /\ stacks[q] = CalledInLaunch
  \/ q = 0 /\ place = <<p, 2>> /\ stacks[p] = HaltingInLaunch

\* A caller's frame of execute.
CallOpen(q, place, stacks) == place = <<q, 1>> /\ stacks[q] \in {Called, CalledInLaunch}

\* The stack a program is launched on: its caller's, or its own if it restarts.
Launching(p, q, s, stacks) ==
  \/ q # 0 /\ s = q /\ stacks[s] = Called
  \/ q = 0 /\ s = p /\ stacks[s] = Halting

TypeInv ==
  /\ pid_array \in [PidOrNone -> {0, 1}] /\ pid_array[0] = 1
  /\ parent_pid \in [Pids -> PidOrNone]
  /\ ebp \in [Pids -> Places]
  /\ ebp_switch \in [Pids -> Places]
  /\ current_pid \in PidOrNone
  /\ cur_term_pid \in [Terminals -> PidOrNone]
  /\ scheduled \in Terminals
  /\ shell_exists \in [Terminals -> BOOLEAN]
  /\ frames \in [Pids -> KernelStacks]
  /\ sp \in Pids
  /\ pc \in {"idle", "user", "launch", "boot", "halt", "restart"}
  /\ crashed = FALSE
  /\ current_pid = cur_term_pid[scheduled]

\* The shells come up in the order of the terminals and of the pids.
BootInv ==
  IF pc = "idle"
  THEN current_pid = 0 /\ scheduled = NTerminals - 1 /\ WithShell = {} /\ InUse = {}
  ELSE /\ scheduled \in WithShell
       /\ \/ Booted
          \/ pc \in {"boot", "user"} /\ WithShell = 0..scheduled /\ InUse = 1..(scheduled + 1)

TreeInv ==
  \E owner \in [Pids -> Terminals] : Tree(InUse, parent_pid, cur_term_pid, WithShell, owner)

StackInv ==
  /\ \A t \in WithShell \ {scheduled} :
       Saved(cur_term_pid[t], parent_pid[cur_term_pid[t]], ebp_switch[cur_term_pid[t]], frames)
  /\ \A p \in InUse : parent_pid[p] # 0 => CallOpen(parent_pid[p], ebp[parent_pid[p]], frames)
  /\ pc = "launch" => Launching(current_pid, parent_pid[current_pid], sp, frames)
  /\ pc = "halt" => CallOpen(current_pid, ebp[current_pid], frames)
  /\ pc = "restart" => /\ parent_pid[current_pid] = 0 /\ pid_array[current_pid] = 0
                       /\ sp = current_pid /\ frames[sp] = Halting

Inv == TypeInv /\ BootInv /\ TreeInv /\ StackInv

\* What a step that starts and ends no program leaves alone.
SamePrograms ==
  /\ InUse' = InUse /\ WithShell' = WithShell
  /\ parent_pid' = parent_pid /\ cur_term_pid' = cur_term_pid

USE ContextSwitchAssumption

-----------------------------------------------------------------------------
(* Stacks of one or two frames, and the return through a saved place.      *)

LEMMA Tops ==
  ASSUME NEW a, NEW b
  PROVE  /\ SubSeq(<<a>>, 1, 0) = <<>>
         /\ SubSeq(<<a, b>>, 1, 1) = <<a>>
         /\ Append(<<a>>, b) = <<a, b>>
<1>1. SubSeq(<<a>>, 1, 0) = <<>>
  BY SubSeqEmpty
<1>2. SubSeq(<<a, b>>, 1, 1) = <<a>>
  <2>1. \A i \in 1..1 : <<a, b>>[i] \in {a, b}
    OBVIOUS
  <2>2. /\ SubSeq(<<a, b>>, 1, 1) \in Seq({a, b})
        /\ Len(SubSeq(<<a, b>>, 1, 1)) = 1
        /\ SubSeq(<<a, b>>, 1, 1)[1] = a
    BY <2>1, SubSeqProperties
  <2>3. PICK s \in Seq({a, b}) : s = SubSeq(<<a, b>>, 1, 1)
    BY <2>2
  <2>4. /\ <<a>> \in Seq({a, b}) /\ Len(s) = Len(<<a>>)
        /\ \A i \in 1..Len(s) : s[i] = <<a>>[i]
    BY <2>2, <2>3
  <2>5. s = <<a>>
    BY <2>4, SeqEqual
  <2> QED
    BY <2>3, <2>5
<1>3. Append(<<a>>, b) = <<a, b>>
  <2>1. <<a>> \in Seq({a, b}) /\ Len(<<a>>) = 1 /\ <<a>>[1] = a
    OBVIOUS
  <2>2. /\ Append(<<a>>, b) \in Seq({a, b})
        /\ Len(Append(<<a>>, b)) = Len(<<a>>) + 1
        /\ \A i \in 1..Len(<<a>>) : Append(<<a>>, b)[i] = <<a>>[i]
        /\ Append(<<a>>, b)[Len(<<a>>) + 1] = b
    BY <2>1, AppendProperties
  <2>3. PICK s \in Seq({a, b}) : s = Append(<<a>>, b)
    BY <2>2
  <2>4. Len(s) = 2 /\ s[1] = a /\ s[2] = b
    BY <2>1, <2>2, <2>3
  <2>5. <<a, b>> \in Seq({a, b}) /\ Len(<<a, b>>) = 2 /\ <<a, b>>[1] = a /\ <<a, b>>[2] = b
    OBVIOUS
  <2>6. \A i \in 1..Len(s) : s[i] = <<a, b>>[i]
    BY <2>4, <2>5
  <2>7. s = <<a, b>>
    BY <2>4, <2>5, <2>6, SeqEqual
  <2> QED
    BY <2>3, <2>7
<1> QED
  BY <1>1, <1>2, <1>3

\* A stack has a frame at depth k, and "below" under it.
FrameAt(stack, k, top, below) ==
  k <= Len(stack) /\ stack[k] = top /\ SubSeq(stack, 1, k - 1) = below

LEMMA ReturnsTo ==
  ASSUME NEW stacks \in [Pids -> KernelStacks], NEW s \in Pids, NEW k \in {1, 2}, NEW top, NEW kind,
         NEW below, FrameAt(stacks[s], k, top, below), top.kind = kind
  PROVE  /\ Reaches(<<s, k>>, kind, stacks)
         /\ ReturnThrough(<<s, k>>, kind, stacks) =>
              /\ frames' = [stacks EXCEPT ![s] = below]
              /\ sp' = s /\ pc' = top.window /\ UNCHANGED crashed
<1>1. s # 0
  BY DEF Pids
<1>2. PICK place : place = <<s, k>>
  OBVIOUS
<1>3. place[1] = s /\ place[2] = k /\ place # NoFrame
  BY <1>1, <1>2 DEF NoFrame
<1>4. Reaches(place, kind, stacks)
  BY <1>3 DEF Reaches, FrameAt
<1>5. ASSUME ReturnThrough(place, kind, stacks)
      PROVE  /\ frames' = [stacks EXCEPT ![s] = below]
             /\ sp' = s /\ pc' = top.window /\ UNCHANGED crashed
  <2>1. /\ frames' = [stacks EXCEPT ![s] = SubSeq(stacks[s], 1, k - 1)]
        /\ sp' = s /\ pc' = stacks[s][k].window /\ UNCHANGED crashed
    BY <1>3, <1>4, <1>5 DEF ReturnThrough
  <2> QED
    BY <2>1 DEF FrameAt
<1> QED
  BY <1>2, <1>4, <1>5

LEMMA ReturnsToUser ==
  ASSUME NEW stacks \in [Pids -> KernelStacks], NEW s \in Pids, stacks[s] = InUser
  PROVE  /\ Reaches(<<s, 1>>, "tick", stacks)
         /\ ReturnThrough(<<s, 1>>, "tick", stacks) =>
              /\ frames' = [stacks EXCEPT ![s] = Empty]
              /\ sp' = s /\ pc' = "user" /\ UNCHANGED crashed
<1>1. TickFrame("user").kind = "tick" /\ TickFrame("user").window = "user"
  BY DEF TickFrame
<1>2. PICK top : top = TickFrame("user")
  OBVIOUS
<1>3. FrameAt(stacks[s], 1, top, Empty)
  BY <1>2, Tops DEF InUser, Empty, FrameAt
<1>4. /\ Reaches(<<s, 1>>, "tick", stacks)
      /\ ReturnThrough(<<s, 1>>, "tick", stacks) =>
           /\ frames' = [stacks EXCEPT ![s] = Empty]
           /\ sp' = s /\ pc' = top.window /\ UNCHANGED crashed
  BY <1>1, <1>2, <1>3, ReturnsTo
<1> QED
  BY <1>1, <1>2, <1>4

LEMMA ReturnsToLaunch ==
  ASSUME NEW stacks \in [Pids -> KernelStacks], NEW s \in Pids, NEW below,
         \/ stacks[s] = CalledInLaunch /\ below = Called
         \/ stacks[s] = HaltingInLaunch /\ below = Halting
  PROVE  /\ Reaches(<<s, 2>>, "tick", stacks)
         /\ ReturnThrough(<<s, 2>>, "tick", stacks) =>
              /\ frames' = [stacks EXCEPT ![s] = below]
              /\ sp' = s /\ pc' = "launch" /\ UNCHANGED crashed
<1>1. TickFrame("launch").kind = "tick" /\ TickFrame("launch").window = "launch"
  BY DEF TickFrame
<1>2. PICK top : top = TickFrame("launch")
  OBVIOUS
<1>3. FrameAt(stacks[s], 2, top, below)
  BY <1>2, Tops DEF FrameAt, CalledInLaunch, Called, HaltingInLaunch, Halting
<1>4. /\ Reaches(<<s, 2>>, "tick", stacks)
      /\ ReturnThrough(<<s, 2>>, "tick", stacks) =>
           /\ frames' = [stacks EXCEPT ![s] = below]
           /\ sp' = s /\ pc' = top.window /\ UNCHANGED crashed
  BY <1>1, <1>2, <1>3, ReturnsTo
<1> QED
  BY <1>1, <1>2, <1>4

LEMMA ReturnsToCaller ==
  ASSUME NEW stacks \in [Pids -> KernelStacks], NEW s \in Pids, stacks[s] \in {Called, CalledInLaunch}
  PROVE  /\ Reaches(<<s, 1>>, "execute", stacks)
         /\ ReturnThrough(<<s, 1>>, "execute", stacks) =>
              /\ frames' = [stacks EXCEPT ![s] = Empty]
              /\ sp' = s /\ pc' = "user" /\ UNCHANGED crashed
<1>1. ExecuteFrame.kind = "execute" /\ ExecuteFrame.window = "user"
  BY DEF ExecuteFrame
<1>2. PICK top : top = ExecuteFrame
  OBVIOUS
<1>3. FrameAt(stacks[s], 1, top, Empty)
  <2>1. SubSeq(stacks[s], 1, 0) = <<>>
    BY SubSeqEmpty
  <2>2. 1 <= Len(stacks[s]) /\ stacks[s][1] = top
    BY <1>2 DEF Called, CalledInLaunch
  <2> QED
    BY <2>1, <2>2 DEF Empty, FrameAt
<1>4. /\ Reaches(<<s, 1>>, "execute", stacks)
      /\ ReturnThrough(<<s, 1>>, "execute", stacks) =>
           /\ frames' = [stacks EXCEPT ![s] = Empty]
           /\ sp' = s /\ pc' = top.window /\ UNCHANGED crashed
  BY <1>1, <1>2, <1>3, ReturnsTo
<1> QED
  BY <1>1, <1>2, <1>4

-----------------------------------------------------------------------------
(* What execute_help does, for a base shell and for a program with a parent. *)

LEMMA StartsBase ==
  ASSUME NEW table, NEW file, NEW n, NEW t, NEW s, NEW on, NEW window,
         ParentOf(file, n) = 0, StartProgram(table, file, n, t, s, on, window)
  PROVE  /\ pid_array' = [table EXCEPT ![n] = 1]
         /\ parent_pid' = [parent_pid EXCEPT ![n] = 0]
         /\ ebp' = ebp /\ current_pid' = n
         /\ cur_term_pid' = [cur_term_pid EXCEPT ![t] = n]
         /\ frames' = [frames EXCEPT ![s] = on]
         /\ sp' = s /\ pc' = window
<1>1. PICK parent : parent = ParentOf(file, n)
  OBVIOUS
<1>2. parent = 0 /\ ~(parent >= 1)
  BY <1>1
<1>3. /\ pid_array' = [table EXCEPT ![n] = 1]
      /\ parent_pid' = [parent_pid EXCEPT ![n] = parent]
      /\ ebp' = ebp /\ current_pid' = n
      /\ cur_term_pid' = [cur_term_pid EXCEPT ![t] = n]
      /\ sp' = s /\ pc' = window
  BY <1>1, <1>2, Zenon DEF StartProgram
<1>4. frames' = [frames EXCEPT ![s] = on]
  BY <1>1, <1>2, Zenon DEF StartProgram
<1> QED
  BY <1>2, <1>3, <1>4

LEMMA StartsChild ==
  ASSUME NEW table, NEW file, NEW n, NEW t, NEW s, NEW on, NEW window, NEW parent \in Pids,
         ParentOf(file, n) = parent, StartProgram(table, file, n, t, s, on, window)
  PROVE  /\ pid_array' = [table EXCEPT ![n] = 1]
         /\ parent_pid' = [parent_pid EXCEPT ![n] = parent]
         /\ ebp' = [ebp EXCEPT ![parent] = <<s, Len(Append(on, ExecuteFrame))>>]
         /\ current_pid' = n
         /\ cur_term_pid' = [cur_term_pid EXCEPT ![t] = n]
         /\ frames' = [frames EXCEPT ![s] = Append(on, ExecuteFrame)]
         /\ sp' = s /\ pc' = window
<1>1. parent >= 1
  BY DEF Pids
<1>2. PICK below : below = Append(on, ExecuteFrame)
  OBVIOUS
<1>3. /\ pid_array' = [table EXCEPT ![n] = 1]
      /\ parent_pid' = [parent_pid EXCEPT ![n] = parent]
      /\ ebp' = [ebp EXCEPT ![parent] = <<s, Len(below)>>]
      /\ current_pid' = n
      /\ cur_term_pid' = [cur_term_pid EXCEPT ![t] = n]
      /\ frames' = [frames EXCEPT ![s] = below]
      /\ sp' = s /\ pc' = window
  BY <1>1, <1>2, Zenon DEF StartProgram
<1> QED
  BY <1>2, <1>3

-----------------------------------------------------------------------------
(* Trees.                                                                  *)

\* The paths of two terminals have nothing in common.
LEMMA Apart ==
  ASSUME NEW used, NEW parent, NEW leaf, NEW shells, NEW owner,
         Tree(used, parent, leaf, shells, owner),
         NEW t \in shells, NEW u \in shells, t # u
  PROVE  /\ leaf[t] # leaf[u]
         /\ parent[leaf[t]] # leaf[u]
         /\ parent[leaf[t]] # 0 => parent[leaf[t]] # parent[leaf[u]]
BY DEF Tree

\* A program is started from the one on the record of a terminal.
LEMMA TreeGrows ==
  ASSUME NEW used \in SUBSET Pids, NEW parent \in [Pids -> PidOrNone],
         NEW leaf \in [Terminals -> PidOrNone], NEW shells \in SUBSET Terminals,
         NEW owner \in [Pids -> Terminals],
         Tree(used, parent, leaf, shells, owner),
         NEW t \in shells, NEW n \in Pids \ used
  PROVE  Tree(used \cup {n}, [parent EXCEPT ![n] = leaf[t]], [leaf EXCEPT ![t] = n], shells,
              [owner EXCEPT ![n] = t])
<1> DEFINE used1 == used \cup {n}
           parent1 == [parent EXCEPT ![n] = leaf[t]]
           leaf1 == [leaf EXCEPT ![t] = n]
           owner1 == [owner EXCEPT ![n] = t]
<1>1. /\ leaf[t] \in used /\ leaf[t] # 0 /\ leaf[t] # n /\ owner[leaf[t]] = t
      /\ \A u \in shells : leaf[u] \in used /\ u + 1 \in used /\ leaf[u] # n /\ u + 1 # n
  <2>1. \A u \in shells : leaf[u] \in used /\ u + 1 \in used /\ owner[leaf[u]] = u
    BY DEF Tree
  <2>2. 0 \notin used
    BY DEF Pids
  <2> QED
    BY <2>1, <2>2
<1>2. /\ parent1[n] = leaf[t] /\ owner1[n] = t /\ leaf1[t] = n
      /\ \A p \in Pids \ {n} : parent1[p] = parent[p] /\ owner1[p] = owner[p]
      /\ \A u \in shells \ {t} : leaf1[u] = leaf[u]
  OBVIOUS
<1>3. \A u \in shells : /\ leaf1[u] \in used1 /\ owner1[leaf1[u]] = u
                        /\ u + 1 \in used1 /\ parent1[u + 1] = 0
  BY <1>1, <1>2 DEF Tree
<1>4. \A p \in used1 : parent1[p] = 0 => p = owner1[p] + 1
  BY <1>1, <1>2 DEF Tree
<1>5. \A p \in used1 : parent1[p] # 0 => parent1[p] \in used1 /\ owner1[parent1[p]] = owner1[p]
  BY <1>1, <1>2 DEF Tree
<1>6. \A p \in used1, u \in shells : parent1[p] # leaf1[u]
  BY <1>1, <1>2 DEF Tree, Pids
<1>7. \A p, q \in used1 : parent1[p] # 0 /\ parent1[p] = parent1[q] => p = q
  BY <1>1, <1>2 DEF Tree
<1> QED
  BY <1>3, <1>4, <1>5, <1>6, <1>7 DEF Tree

\* The program on the record of a terminal ends, and its caller is there again.
LEMMA TreeShrinks ==
  ASSUME NEW used \in SUBSET Pids, NEW parent \in [Pids -> PidOrNone],
         NEW leaf \in [Terminals -> PidOrNone], NEW shells \in SUBSET Terminals,
         NEW owner \in [Pids -> Terminals],
         Tree(used, parent, leaf, shells, owner),
         NEW t \in shells, parent[leaf[t]] # 0
  PROVE  Tree(used \ {leaf[t]}, parent, [leaf EXCEPT ![t] = parent[leaf[t]]], shells, owner)
<1> DEFINE n == leaf[t]
           used1 == used \ {n}
           leaf1 == [leaf EXCEPT ![t] = parent[n]]
<1>1. /\ n \in used /\ owner[n] = t /\ parent[n] \in used1 /\ owner[parent[n]] = t
  BY DEF Tree
<1>2. leaf1[t] = parent[n] /\ \A u \in shells \ {t} : leaf1[u] = leaf[u] /\ leaf[u] # n
  BY <1>1 DEF Tree
<1>3. \A u \in shells : /\ leaf1[u] \in used1 /\ owner[leaf1[u]] = u
                        /\ u + 1 \in used1 /\ parent[u + 1] = 0
  BY <1>1, <1>2 DEF Tree
<1>4. \A p \in used1 : parent[p] # 0 => parent[p] \in used1 /\ owner[parent[p]] = owner[p]
  BY <1>1 DEF Tree
<1>5. \A p \in used1, u \in shells : parent[p] # leaf1[u]
  BY <1>1, <1>2 DEF Tree
<1>6. /\ \A p \in used1 : parent[p] = 0 => p = owner[p] + 1
      /\ \A p, q \in used1 : parent[p] # 0 /\ parent[p] = parent[q] => p = q
  BY DEF Tree
<1> QED
  BY <1>3, <1>4, <1>5, <1>6 DEF Tree

\* A terminal gets its base shell.
LEMMA TreeBoots ==
  ASSUME NEW used \in SUBSET Pids, NEW parent \in [Pids -> PidOrNone],
         NEW leaf \in [Terminals -> PidOrNone], NEW shells \in SUBSET Terminals,
         NEW owner \in [Pids -> Terminals],
         Tree(used, parent, leaf, shells, owner),
         NEW t \in Terminals \ shells, t + 1 \in Pids \ used
  PROVE  Tree(used \cup {t + 1}, [parent EXCEPT ![t + 1] = 0], [leaf EXCEPT ![t] = t + 1],
              shells \cup {t}, [owner EXCEPT ![t + 1] = t])
<1> PICK n \in Pids \ used : n = t + 1
  OBVIOUS
<1> DEFINE used1 == used \cup {n}
           parent1 == [parent EXCEPT ![n] = 0]
           leaf1 == [leaf EXCEPT ![t] = n]
           shells1 == shells \cup {t}
           owner1 == [owner EXCEPT ![n] = t]
<1>1. \A u \in shells : leaf[u] \in used /\ u + 1 \in used /\ leaf[u] # n /\ u + 1 # n /\ u # t
  BY DEF Tree
<1>2. /\ parent1[n] = 0 /\ owner1[n] = t /\ leaf1[t] = n
      /\ \A p \in Pids \ {n} : parent1[p] = parent[p] /\ owner1[p] = owner[p]
      /\ \A u \in shells : leaf1[u] = leaf[u]
  BY <1>1
<1>3. \A u \in shells1 : /\ leaf1[u] \in used1 /\ owner1[leaf1[u]] = u
                         /\ u + 1 \in used1 /\ parent1[u + 1] = 0
  BY <1>1, <1>2 DEF Tree
<1>4. \A p \in used1 : parent1[p] = 0 => p = owner1[p] + 1
  BY <1>2 DEF Tree
<1>5. \A p \in used1 : parent1[p] # 0 => parent1[p] \in used1 /\ owner1[parent1[p]] = owner1[p]
  BY <1>2 DEF Tree
<1>6. \A p \in used1, u \in shells1 : parent1[p] # leaf1[u]
  <2>1. n # 0
    BY DEF Pids
  <2>2. \A p \in used, u \in shells : parent[p] # leaf[u]
    BY DEF Tree
  <2>3. \A p \in used : parent[p] # 0 => parent[p] \in used
    BY DEF Tree
  <2>4. \A p \in used1 : parent1[p] # n
    BY <1>2, <2>1, <2>3
  <2>5. \A p \in used1, u \in shells : parent1[p] # leaf1[u]
    <3>1. 0 \notin used
      BY DEF Pids
    <3> QED
      BY <1>1, <1>2, <2>2, <3>1
  <2> QED
    BY <1>2, <2>4, <2>5
<1>7. \A p, q \in used1 : parent1[p] # 0 /\ parent1[p] = parent1[q] => p = q
  BY <1>2 DEF Tree
<1> QED
  BY <1>3, <1>4, <1>5, <1>6, <1>7 DEF Tree

-----------------------------------------------------------------------------
(* What a tree says of the running program.                                *)

LEMMA RunningLeaf ==
  ASSUME Inv, pc # "idle"
  PROVE  /\ scheduled \in WithShell /\ current_pid = cur_term_pid[scheduled]
         /\ current_pid \in InUse /\ current_pid \in Pids /\ current_pid # 0
         /\ \A p \in InUse : parent_pid[p] # current_pid
         /\ parent_pid[current_pid] # 0 => parent_pid[current_pid] \in InUse
         /\ InUse \subseteq Pids /\ WithShell \subseteq Terminals
<1>1. PICK owner \in [Pids -> Terminals] :
        Tree(InUse, parent_pid, cur_term_pid, WithShell, owner)
  BY DEF Inv, TreeInv
<1>2. scheduled \in WithShell /\ current_pid = cur_term_pid[scheduled]
  BY DEF Inv, BootInv, TypeInv
<1>3. current_pid \in InUse /\ \A p \in InUse : parent_pid[p] # current_pid
  BY <1>1, <1>2 DEF Tree
<1>4. WithShell \subseteq Terminals
  BY DEF WithShell
<1>5. InUse \subseteq Pids
  <2>1. \A p \in InUse : p = current_pid \/ p \in Pids
    BY DEF InUse
  <2>2. current_pid \in Pids
    <3>1. current_pid # 0
      <4>1. CASE pc = "restart"
        <5>1. pid_array[current_pid] = 0 /\ pid_array[0] = 1
          BY <4>1 DEF Inv, StackInv, TypeInv
        <5> QED
          BY <5>1
      <4>2. CASE pc # "restart"
        BY <1>3, <4>2 DEF InUse, Pids
      <4> QED
        BY <4>1, <4>2
    <3> QED
      BY <3>1 DEF Inv, TypeInv, PidOrNone, Pids
  <2> QED
    BY <2>1, <2>2
<1>6. parent_pid[current_pid] # 0 => parent_pid[current_pid] \in InUse
  BY <1>1, <1>3 DEF Tree
<1> QED
  BY <1>2, <1>3, <1>4, <1>5, <1>6 DEF Pids

\* Nothing of a waiting terminal is on the stacks of the running one.
LEMMA WaitingApart ==
  ASSUME Inv, pc # "idle", NEW t \in WithShell, t # scheduled
  PROVE  /\ cur_term_pid[t] \in InUse
         /\ cur_term_pid[t] # current_pid
         /\ parent_pid[cur_term_pid[t]] # current_pid
         /\ cur_term_pid[t] # parent_pid[current_pid]
         /\ parent_pid[cur_term_pid[t]] # 0 =>
              /\ parent_pid[cur_term_pid[t]] # parent_pid[current_pid]
              /\ parent_pid[cur_term_pid[t]] \in InUse
<1>1. PICK owner \in [Pids -> Terminals] :
        Tree(InUse, parent_pid, cur_term_pid, WithShell, owner)
  BY DEF Inv, TreeInv
<1>2. scheduled \in WithShell /\ current_pid = cur_term_pid[scheduled]
  BY RunningLeaf
<1> QED
  BY <1>1, <1>2, Apart DEF Tree

-----------------------------------------------------------------------------
(* The timer saves the context of the running program on top of the stack  *)
(* the kernel is entered on.                                               *)

StacksAtTick == [frames EXCEPT ![EntryStack] = Interrupted]

LEMMA TickOnEntryStack ==
  ASSUME Inv, pc \in {"user", "launch"}
  PROVE  /\ EntryStack \in Pids /\ EntryStack \in {current_pid, parent_pid[current_pid]}
         /\ Interrupted \in KernelStacks
         /\ EntryStack = parent_pid[current_pid] => Interrupted = CalledInLaunch
         /\ Saved(current_pid, parent_pid[current_pid], <<EntryStack, Len(Interrupted)>>,
                  StacksAtTick)
<1>1. current_pid \in Pids /\ current_pid # 0 /\ parent_pid[current_pid] # current_pid
  BY RunningLeaf
<1>2. frames \in [Pids -> KernelStacks] /\ sp \in Pids /\ parent_pid[current_pid] \in PidOrNone
  BY <1>1 DEF Inv, TypeInv
<1>3. CASE pc = "user"
  <2>1. EntryStack = current_pid /\ Interrupted = InUser
    BY <1>3 DEF EntryStack, Interrupted, OnEntryStack, InUser
  <2>2. Len(Interrupted) = 1
    BY <2>1 DEF InUser
  <2>3. StacksAtTick[current_pid] = InUser
    BY <1>1, <1>2, <2>1 DEF StacksAtTick
  <2> QED
    BY <1>1, <2>1, <2>2, <2>3 DEF Saved, KernelStacks
<1>4. CASE pc = "launch"
  <2>1. EntryStack = sp /\ Interrupted = Append(frames[sp], TickFrame("launch"))
    BY <1>4 DEF EntryStack, Interrupted, OnEntryStack
  <2>2. Launching(current_pid, parent_pid[current_pid], sp, frames)
    BY <1>4 DEF Inv, StackInv
  <2>3. CASE parent_pid[current_pid] # 0 /\ sp = parent_pid[current_pid] /\ frames[sp] = Called
    <3>1. Interrupted = CalledInLaunch
      BY <2>1, <2>3, Tops DEF Called, CalledInLaunch
    <3>2. Len(Interrupted) = 2
      BY <3>1 DEF CalledInLaunch
    <3>3. StacksAtTick[sp] = CalledInLaunch
      BY <1>2, <2>1, <3>1 DEF StacksAtTick
    <3> QED
      BY <1>2, <2>1, <2>3, <3>1, <3>2, <3>3 DEF Saved, KernelStacks
  <2>4. CASE parent_pid[current_pid] = 0 /\ sp = current_pid /\ frames[sp] = Halting
    <3>1. Interrupted = HaltingInLaunch
      BY <2>1, <2>4, Tops DEF Halting, HaltingInLaunch
    <3>2. Len(Interrupted) = 2
      BY <3>1 DEF HaltingInLaunch
    <3>3. StacksAtTick[sp] = HaltingInLaunch
      BY <1>2, <2>1, <3>1 DEF StacksAtTick
    <3> QED
      BY <1>1, <1>2, <2>1, <2>4, <3>1, <3>2, <3>3 DEF Saved, KernelStacks
  <2> QED
    BY <2>2, <2>3, <2>4 DEF Launching
<1> QED
  BY <1>3, <1>4

\* Then the contexts of all terminals are saved, and no caller's frame is lost.
LEMMA TickSavesAll ==
  ASSUME Inv, pc \in {"user", "launch"}
  PROVE  /\ StacksAtTick \in [Pids -> KernelStacks]
         /\ SavedContexts \in [Pids -> Places]
         /\ \A t \in WithShell :
              Saved(cur_term_pid[t], parent_pid[cur_term_pid[t]], SavedContexts[cur_term_pid[t]],
                    StacksAtTick)
         /\ \A p \in InUse :
              parent_pid[p] # 0 => CallOpen(parent_pid[p], ebp[parent_pid[p]], StacksAtTick)
<1>1. PICK s \in Pids : s = EntryStack
  BY TickOnEntryStack
<1>2. PICK on \in KernelStacks : on = Interrupted
  BY TickOnEntryStack
<1>3. /\ s \in {current_pid, parent_pid[current_pid]}
      /\ s = parent_pid[current_pid] => on = CalledInLaunch
      /\ Saved(current_pid, parent_pid[current_pid], <<s, Len(on)>>, StacksAtTick)
  BY <1>1, <1>2, TickOnEntryStack
<1>4. /\ scheduled \in WithShell /\ current_pid = cur_term_pid[scheduled]
      /\ current_pid \in Pids /\ current_pid # 0
      /\ \A p \in InUse : parent_pid[p] # current_pid
      /\ InUse \subseteq Pids
  BY RunningLeaf
<1>5. /\ frames \in [Pids -> KernelStacks] /\ ebp_switch \in [Pids -> Places]
      /\ parent_pid \in [Pids -> PidOrNone]
  BY DEF Inv, TypeInv
<1>6. PICK stacks \in [Pids -> KernelStacks] :
        /\ stacks = StacksAtTick /\ stacks[s] = on
        /\ \A p \in Pids \ {s} : stacks[p] = frames[p]
  <2>1. StacksAtTick = [frames EXCEPT ![s] = on]
    BY <1>1, <1>2 DEF StacksAtTick
  <2>2. /\ StacksAtTick \in [Pids -> KernelStacks] /\ StacksAtTick[s] = on
        /\ \A p \in Pids \ {s} : StacksAtTick[p] = frames[p]
    BY <1>5, <2>1
  <2> QED
    BY <2>2
<1>7. Len(on) \in Nat
  <2>1. <<s, Len(on)>> \in {<<current_pid, 1>>, <<current_pid, 2>>, <<parent_pid[current_pid], 2>>}
    BY <1>3 DEF Saved
  <2> QED
    BY <2>1
<1>8. PICK saved \in [Pids -> Places] :
        /\ saved = SavedContexts /\ saved[current_pid] = <<s, Len(on)>>
        /\ \A p \in Pids \ {current_pid} : saved[p] = ebp_switch[p]
  <2>1. <<s, Len(on)>> \in Places
    BY <1>7 DEF Places, Pids, PidOrNone
  <2>2. SavedContexts = [ebp_switch EXCEPT ![current_pid] = <<s, Len(on)>>]
    BY <1>1, <1>2, <1>4 DEF SavedContexts
  <2> QED
    BY <1>4, <1>5, <2>1, <2>2
<1>9. ASSUME NEW t \in WithShell
      PROVE  Saved(cur_term_pid[t], parent_pid[cur_term_pid[t]], saved[cur_term_pid[t]], stacks)
  <2>1. CASE t = scheduled
    BY <1>3, <1>4, <1>6, <1>8, <2>1
  <2>2. CASE t # scheduled
    <3>1. PICK p \in Pids : p = cur_term_pid[t] /\ p # current_pid /\ p # parent_pid[current_pid]
      BY <1>4, <2>2, WaitingApart
    <3>2. PICK q \in PidOrNone : q = parent_pid[p]
      BY <1>5
    <3>3. q # 0 => q \in Pids /\ q # current_pid /\ q # parent_pid[current_pid]
      BY <1>4, <2>2, <3>1, <3>2, WaitingApart
    <3>4. Saved(p, q, ebp_switch[p], frames)
      BY <2>2, <3>1, <3>2 DEF Inv, StackInv
    <3>5. /\ stacks[p] = frames[p] /\ saved[p] = ebp_switch[p]
          /\ q # 0 => stacks[q] = frames[q]
      BY <1>3, <1>6, <1>8, <3>1, <3>3
    <3>6. Saved(p, q, saved[p], stacks)
      BY <3>4, <3>5 DEF Saved
    <3> QED
      BY <3>1, <3>2, <3>6
  <2> QED
    BY <2>1, <2>2
<1>10. ASSUME NEW p \in InUse, parent_pid[p] # 0
       PROVE  CallOpen(parent_pid[p], ebp[parent_pid[p]], stacks)
  <2>1. PICK q \in Pids : q = parent_pid[p] /\ q # current_pid
    BY <1>4, <1>5, <1>10 DEF Pids, PidOrNone
  <2>2. CallOpen(q, ebp[q], frames)
    BY <1>10, <2>1 DEF Inv, StackInv
  <2>3. stacks[q] = frames[q] \/ stacks[q] = CalledInLaunch
    BY <1>3, <1>6, <2>1
  <2>4. CallOpen(q, ebp[q], stacks)
    BY <2>2, <2>3 DEF CallOpen
  <2> QED
    BY <2>1, <2>4
<1> QED
  BY <1>6, <1>8, <1>9, <1>10

-----------------------------------------------------------------------------
(* The steps.  First the timer.                                            *)

LEMMA LeavesApart ==
  ASSUME Inv, NEW t \in WithShell
  PROVE  /\ cur_term_pid[t] \in InUse
         /\ parent_pid[cur_term_pid[t]] # 0 => parent_pid[cur_term_pid[t]] \in InUse
         /\ \A p \in InUse : parent_pid[p] # cur_term_pid[t]
         /\ \A u \in WithShell \ {t} :
              /\ cur_term_pid[u] # cur_term_pid[t]
              /\ parent_pid[cur_term_pid[u]] # cur_term_pid[t]
              /\ cur_term_pid[u] # parent_pid[cur_term_pid[t]]
              /\ parent_pid[cur_term_pid[u]] # 0 =>
                   parent_pid[cur_term_pid[u]] # parent_pid[cur_term_pid[t]]
<1>1. PICK owner \in [Pids -> Terminals] :
        Tree(InUse, parent_pid, cur_term_pid, WithShell, owner)
  BY DEF Inv, TreeInv
<1>2. /\ cur_term_pid[t] \in InUse
      /\ parent_pid[cur_term_pid[t]] # 0 => parent_pid[cur_term_pid[t]] \in InUse
      /\ \A p \in InUse : parent_pid[p] # cur_term_pid[t]
  BY <1>1 DEF Tree
<1>3. ASSUME NEW u \in WithShell \ {t}
      PROVE  /\ cur_term_pid[u] # cur_term_pid[t]
             /\ parent_pid[cur_term_pid[u]] # cur_term_pid[t]
             /\ cur_term_pid[u] # parent_pid[cur_term_pid[t]]
             /\ parent_pid[cur_term_pid[u]] # 0 =>
                  parent_pid[cur_term_pid[u]] # parent_pid[cur_term_pid[t]]
  BY <1>1, Apart
<1> QED
  BY <1>2, <1>3

LEMMA NextTerminalIsTerminal ==
  ASSUME scheduled \in Terminals
  PROVE  /\ NextTerminal \in Terminals
         /\ scheduled < NTerminals - 1 => NextTerminal = scheduled + 1
         /\ scheduled = NTerminals - 1 => NextTerminal = 0
<1>1. NTerminals \in Nat \ {0} /\ scheduled + 1 \in 1..NTerminals
  BY DEF Terminals
<1>2. PICK n \in 1..NTerminals : n = scheduled + 1
  BY <1>1
<1>3. /\ n % NTerminals \in 0..(NTerminals - 1)
      /\ n < NTerminals => n % NTerminals = n
      /\ n = NTerminals => n % NTerminals = 0
  BY <1>1
<1> QED
  BY <1>1, <1>2, <1>3 DEF NextTerminal, Terminals

LEMMA TreeInvSame ==
  ASSUME Inv, UNCHANGED <<parent_pid, cur_term_pid, shell_exists>>, InUse' = InUse
  PROVE  TreeInv'
<1>1. WithShell' = WithShell
  BY DEF WithShell
<1>2. PICK owner \in [Pids -> Terminals] :
        Tree(InUse, parent_pid, cur_term_pid, WithShell, owner)
  BY DEF Inv, TreeInv
<1>3. Tree(InUse', parent_pid', cur_term_pid', WithShell', owner)
  BY <1>1, <1>2
<1> QED
  BY <1>3 DEF TreeInv

LEMMA SwitchKeeps ==
  ASSUME Inv, TimerIsOrderly, TickSwitch
  PROVE  Inv' /\ SamePrograms
<1>1. pc \in {"user", "launch"}
  <2>1. pc \in TickIn
    BY DEF TickSwitch
  <2> QED
    BY <2>1 DEF TimerIsOrderly
<1>2. PICK next \in Terminals : next = NextTerminal
  BY NextTerminalIsTerminal DEF Inv, TypeInv
<1>3. next \in WithShell /\ Booted
  <2>1. shell_exists[next]
    BY <1>2 DEF TickSwitch
  <2>2. CASE WithShell = 0..scheduled
    <3>1. scheduled \in 0..(NTerminals - 1) /\ next <= scheduled
      BY <2>1, <2>2 DEF Inv, TypeInv, Terminals, WithShell
    <3>2. ~(scheduled < NTerminals - 1)
      BY <1>2, <3>1, NextTerminalIsTerminal DEF Inv, TypeInv
    <3>3. scheduled = NTerminals - 1
      BY <3>1, <3>2
    <3> QED
      BY <2>1, <2>2, <3>3 DEF Terminals, WithShell, Booted
  <2> QED
    BY <1>1, <2>1, <2>2 DEF Inv, BootInv, WithShell
<1>4. /\ \A u \in Terminals : u \in WithShell
      /\ WithShell \subseteq Terminals
  BY <1>3 DEF Booted, WithShell
<1>5. PICK stacks \in [Pids -> KernelStacks] : stacks = StacksAtTick
  BY <1>1, TickSavesAll
<1>6. PICK saved \in [Pids -> Places] : saved = SavedContexts
  BY <1>1, TickSavesAll
<1>7. /\ \A t \in WithShell :
           Saved(cur_term_pid[t], parent_pid[cur_term_pid[t]], saved[cur_term_pid[t]], stacks)
      /\ \A p \in InUse :
           parent_pid[p] # 0 => CallOpen(parent_pid[p], ebp[parent_pid[p]], stacks)
  BY <1>1, <1>5, <1>6, TickSavesAll
<1>8. PICK p \in Pids : p = cur_term_pid[next]
  BY <1>1, <1>3, LeavesApart, RunningLeaf
<1>9. PICK q \in PidOrNone : q = parent_pid[p]
  BY DEF Inv, TypeInv
<1>10. q # 0 => q \in Pids
  BY DEF PidOrNone, Pids
<1>11. PICK h \in Pids :
         \/ h = p /\ saved[p] = <<h, 1>> /\ stacks[h] = InUser
         \/ q # 0 /\ h = q /\ saved[p] = <<h, 2>> /\ stacks[h] = CalledInLaunch
         \/ q = 0 /\ h = p /\ saved[p] = <<h, 2>> /\ stacks[h] = HaltingInLaunch
  <2>1. Saved(p, q, saved[p], stacks)
    BY <1>3, <1>7, <1>8, <1>9
  <2> QED
    BY <1>10, <2>1 DEF Saved
<1>12. /\ ReturnThrough(saved[p], "tick", stacks)
       /\ ebp_switch' = saved /\ scheduled' = next /\ current_pid' = p
       /\ UNCHANGED <<pid_array, parent_pid, ebp, cur_term_pid, shell_exists>>
  BY <1>2, <1>5, <1>6, <1>8 DEF TickSwitch, StacksAtTick
<1>13. PICK below \in {Empty, Called, Halting} :
         /\ frames' = [stacks EXCEPT ![h] = below]
         /\ sp' = h /\ pc' \in {"user", "launch"} /\ crashed' = crashed
         /\ h = p \/ (h = q /\ below = Called)
         /\ pc' = "launch" => \/ q # 0 /\ h = q /\ below = Called
                              \/ q = 0 /\ h = p /\ below = Halting
  <2>1. CASE h = p /\ saved[p] = <<h, 1>> /\ stacks[h] = InUser
    <3>1. frames' = [stacks EXCEPT ![h] = Empty] /\ sp' = h /\ pc' = "user" /\ crashed' = crashed
      BY <1>12, <2>1, ReturnsToUser
    <3> QED
      BY <2>1, <3>1
  <2>2. CASE q # 0 /\ h = q /\ saved[p] = <<h, 2>> /\ stacks[h] = CalledInLaunch
    <3>1. frames' = [stacks EXCEPT ![h] = Called] /\ sp' = h /\ pc' = "launch" /\ crashed' = crashed
      BY <1>12, <2>2, ReturnsToLaunch
    <3> QED
      BY <2>2, <3>1
  <2>3. CASE q = 0 /\ h = p /\ saved[p] = <<h, 2>> /\ stacks[h] = HaltingInLaunch
    <3>1. frames' = [stacks EXCEPT ![h] = Halting] /\ sp' = h /\ pc' = "launch" /\ crashed' = crashed
      BY <1>12, <2>3, ReturnsToLaunch
    <3> QED
      BY <2>3, <3>1
  <2> QED
    BY <1>11, <2>1, <2>2, <2>3
<1>14. /\ frames' \in [Pids -> KernelStacks] /\ frames'[h] = below
       /\ \A r \in Pids \ {h} : frames'[r] = stacks[r]
  <2>1. below \in KernelStacks
    BY DEF KernelStacks
  <2> QED
    BY <1>13, <2>1
<1>15. InUse' = InUse /\ WithShell' = WithShell /\ Booted'
  BY <1>1, <1>3, <1>12, <1>13 DEF InUse, WithShell, Booted
<1>16. TypeInv'
  BY <1>8, <1>12, <1>13, <1>14 DEF Inv, TypeInv, PidOrNone, Pids
<1>17. BootInv'
  BY <1>3, <1>12, <1>13, <1>15 DEF BootInv
<1>18. TreeInv'
  BY <1>12, <1>15, TreeInvSame
<1>19. ASSUME NEW t \in WithShell \ {next}
       PROVE  Saved(cur_term_pid[t], parent_pid[cur_term_pid[t]], saved[cur_term_pid[t]], frames')
  <2>1. PICK l \in Pids : l = cur_term_pid[t] /\ l # p /\ l # q
    BY <1>1, <1>3, <1>8, <1>9, <1>19, LeavesApart, RunningLeaf
  <2>2. PICK m \in PidOrNone : m = parent_pid[l]
    BY DEF Inv, TypeInv
  <2>3. m # 0 => m \in Pids /\ m # p /\ m # q
    BY <1>1, <1>3, <1>8, <1>9, <1>19, <2>1, <2>2, LeavesApart, RunningLeaf
  <2>4. Saved(l, m, saved[l], stacks)
    BY <1>7, <1>19, <2>1, <2>2
  <2>5. frames'[l] = stacks[l] /\ (m # 0 => frames'[m] = stacks[m])
    BY <1>11, <1>14, <2>1, <2>3
  <2>6. Saved(l, m, saved[l], frames')
    BY <2>4, <2>5 DEF Saved
  <2> QED
    BY <2>1, <2>2, <2>6
<1>20. ASSUME NEW u \in InUse, parent_pid[u] # 0
       PROVE  CallOpen(parent_pid[u], ebp[parent_pid[u]], frames')
  <2>1. PICK r \in Pids : r = parent_pid[u] /\ r # p
    <3>1. u \in Pids /\ parent_pid[u] # p
      BY <1>1, <1>3, <1>8, <1>20, LeavesApart, RunningLeaf
    <3>2. parent_pid[u] \in PidOrNone
      BY <3>1 DEF Inv, TypeInv
    <3> QED
      BY <1>20, <3>1, <3>2 DEF Pids, PidOrNone
  <2>2. CallOpen(r, ebp[r], stacks)
    BY <1>7, <1>20, <2>1
  <2>3. frames'[r] = stacks[r] \/ frames'[r] = Called
    BY <1>13, <1>14, <2>1
  <2>4. CallOpen(r, ebp[r], frames')
    BY <2>2, <2>3 DEF CallOpen
  <2> QED
    BY <2>1, <2>4
<1>21. pc' = "launch" => Launching(p, q, h, frames')
  BY <1>13, <1>14 DEF Launching
<1>22. StackInv'
  BY <1>9, <1>12, <1>13, <1>15, <1>19, <1>20, <1>21 DEF StackInv
<1>23. SamePrograms
  BY <1>12, <1>15 DEF SamePrograms
<1> QED
  BY <1>16, <1>17, <1>18, <1>22, <1>23 DEF Inv

\* Pids are given out in order: the one after those in use.
LEMMA FreePidIsNext ==
  ASSUME Inv, NEW m \in 0..NPids, {p \in Pids : pid_array[p] = 1} = 1..m,
         NEW n \in Pids, IsNextPid(pid_array, n)
  PROVE  n = m + 1
<1>1. pid_array \in [PidOrNone -> {0, 1}] /\ pid_array[0] = 1
  BY DEF Inv, TypeInv
<1>2. n \in PidOrNone /\ pid_array[n] = 0 /\ \A k \in PidOrNone : pid_array[k] = 0 => n <= k
  BY DEF IsNextPid, FreePids
<1>3. n \notin 1..m
  BY <1>2
<1>4. m + 1 \in Pids
  BY <1>3 DEF Pids
<1>5. pid_array[m + 1] = 0
  <2>1. m + 1 \notin 1..m
    OBVIOUS
  <2> QED
    BY <1>1, <1>4, <2>1 DEF Pids, PidOrNone
<1>6. n <= m + 1
  BY <1>2, <1>4, <1>5 DEF Pids, PidOrNone
<1> QED
  BY <1>3, <1>6 DEF Pids

\* While the shells come up, the next terminal is the next in order and the pid
\* of its shell is the next one too.
LEMMA BootNext ==
  ASSUME Inv, TimerIsOrderly, TickBoot
  PROVE  /\ pc \in {"idle", "user"}
         /\ NextTerminal \in Terminals \ WithShell
         /\ WithShell \cup {NextTerminal} = 0..NextTerminal
         /\ InUse = 1..NextTerminal
         /\ NextTerminal + 1 \in Pids \ InUse
<1>1. scheduled \in 0..(NTerminals - 1) /\ NTerminals \in Nat \ {0}
  BY DEF Inv, TypeInv, Terminals
<1>2. PICK next \in 0..(NTerminals - 1) :
        /\ next = NextTerminal
        /\ scheduled < NTerminals - 1 => next = scheduled + 1
        /\ scheduled = NTerminals - 1 => next = 0
  <2>1. scheduled \in Terminals
    BY <1>1 DEF Terminals
  <2> QED
    BY <2>1, NextTerminalIsTerminal DEF Terminals
<1>3. next \in Terminals \ WithShell /\ ~Booted
  BY <1>2 DEF TickBoot, WithShell, Terminals, Booted
<1>4. next + 1 \in Pids
  BY <1>2 DEF Pids
<1>5. CASE pc = "idle"
  <2>1. scheduled = NTerminals - 1 /\ WithShell = {} /\ InUse = {}
    BY <1>5 DEF Inv, BootInv
  <2>2. next = 0
    BY <1>2, <2>1
  <2>3. 1..0 = {} /\ {} \cup {0} = 0..0
    OBVIOUS
  <2> QED
    BY <1>2, <1>3, <1>4, <1>5, <2>1, <2>2, <2>3
<1>6. CASE pc # "idle"
  <2>1. pc \in {"boot", "user"} /\ WithShell = 0..scheduled /\ InUse = 1..(scheduled + 1)
    BY <1>3, <1>6 DEF Inv, BootInv
  <2>2. pc = "user"
    <3>1. pc \in TickIn
      BY <1>6 DEF TickBoot
    <3> QED
      BY <2>1, <3>1 DEF TimerIsOrderly
  <2>3. scheduled < NTerminals - 1
    <3>1. CASE scheduled = NTerminals - 1
      BY <1>2, <1>3, <2>1, <3>1
    <3> QED
      BY <1>1, <3>1
  <2>4. next = scheduled + 1
    BY <1>2, <2>3
  <2>5. (0..scheduled) \cup {next} = 0..next /\ next + 1 \notin 1..next
    BY <1>1, <1>2, <2>4
  <2> QED
    BY <1>2, <1>3, <1>4, <2>1, <2>2, <2>4, <2>5
<1> QED
  BY <1>5, <1>6

LEMMA BootStarts ==
  ASSUME Inv, TimerIsOrderly, TickBoot
  PROVE  \E next \in Terminals, n \in Pids, s \in Pids, on \in KernelStacks :
           /\ pc \in {"idle", "user"} /\ next = NextTerminal
           /\ next \notin WithShell /\ WithShell \cup {next} = 0..next
           /\ InUse = 1..next /\ next \in 0..(NTerminals - 1)
           /\ n = next + 1 /\ n \notin InUse /\ n # 0
           /\ s = EntryStack /\ on = Interrupted
           /\ ebp_switch' = SavedContexts /\ scheduled' = next
           /\ shell_exists' = [shell_exists EXCEPT ![next] = TRUE]
           /\ pid_array' = [pid_array EXCEPT ![n] = 1]
           /\ parent_pid' = [parent_pid EXCEPT ![n] = 0]
           /\ ebp' = ebp /\ current_pid' = n
           /\ cur_term_pid' = [cur_term_pid EXCEPT ![next] = n]
           /\ frames' = [frames EXCEPT ![s] = on]
           /\ sp' = s /\ pc' = "boot" /\ crashed' = crashed /\ answer' = answer
           /\ WithShell' = WithShell \cup {next} /\ InUse' = InUse \cup {n}
<1>1. PICK next \in Terminals : next = NextTerminal
  BY BootNext
<1>2. /\ pc \in {"idle", "user"}
      /\ next \notin WithShell /\ WithShell \cup {next} = 0..next
      /\ InUse = 1..next /\ next \in 0..(NTerminals - 1)
  BY <1>1, BootNext DEF Terminals
<1>3. PICK n \in Pids : n = next + 1 /\ n \notin InUse /\ n # 0
  BY <1>1, BootNext DEF Pids
<1>4. /\ parent_pid \in [Pids -> PidOrNone] /\ cur_term_pid \in [Terminals -> PidOrNone]
      /\ frames \in [Pids -> KernelStacks] /\ ebp \in [Pids -> Places]
      /\ pid_array \in [PidOrNone -> {0, 1}] /\ pid_array[0] = 1 /\ crashed = FALSE
      /\ shell_exists \in [Terminals -> BOOLEAN] /\ ebp_switch \in [Pids -> Places]
  BY DEF Inv, TypeInv
<1>5. InUse = {p \in Pids : pid_array[p] = 1}
  BY <1>2 DEF InUse
<1>6. PICK s \in Pids : s = EntryStack
  <2>1. CASE pc = "idle"
    BY <2>1 DEF EntryStack, Inv, TypeInv
  <2>2. CASE pc = "user"
    BY <2>2, TickOnEntryStack
  <2> QED
    BY <1>2, <2>1, <2>2
<1>7. PICK on \in KernelStacks : on = Interrupted
  <2>1. CASE pc = "idle"
    <3>1. Interrupted = Idle
      BY <2>1 DEF Interrupted, OnEntryStack, Idle
    <3> QED
      BY <3>1 DEF KernelStacks
  <2>2. CASE pc = "user"
    BY <2>2, TickOnEntryStack
  <2> QED
    BY <1>2, <2>1, <2>2
<1>8. /\ ebp_switch' = SavedContexts /\ scheduled' = next
      /\ shell_exists' = [shell_exists EXCEPT ![next] = TRUE]
      /\ pid_array' = [pid_array EXCEPT ![n] = 1]
      /\ parent_pid' = [parent_pid EXCEPT ![n] = 0]
      /\ ebp' = ebp /\ current_pid' = n
      /\ cur_term_pid' = [cur_term_pid EXCEPT ![next] = n]
      /\ frames' = [frames EXCEPT ![s] = on]
      /\ sp' = s /\ pc' = "boot" /\ crashed' = crashed /\ answer' = answer
  <2>1. PICK m \in Pids :
          /\ IsNextPid(pid_array, m)
          /\ StartProgram(pid_array, "shell", m, next, s, on, "boot")
    BY <1>1, <1>6, <1>7 DEF TickBoot
  <2>2. m = n
    <3>1. next \in 0..NPids /\ {p \in Pids : pid_array[p] = 1} = 1..next
      BY <1>2, <1>5
    <3> QED
      BY <1>3, <2>1, <3>1, FreePidIsNext
  <2>3. ParentOf("shell", n) = 0
    BY <1>2, <1>3 DEF ParentOf
  <2>4. StartProgram(pid_array, "shell", n, next, s, on, "boot")
    BY <2>1, <2>2
  <2>5. /\ pid_array' = [pid_array EXCEPT ![n] = 1]
        /\ parent_pid' = [parent_pid EXCEPT ![n] = 0]
        /\ ebp' = ebp /\ current_pid' = n
        /\ cur_term_pid' = [cur_term_pid EXCEPT ![next] = n]
        /\ frames' = [frames EXCEPT ![s] = on]
        /\ sp' = s /\ pc' = "boot"
    BY <2>3, <2>4, StartsBase
  <2> QED
    BY <1>1, <2>5 DEF TickBoot
<1>9. WithShell' = WithShell \cup {next}
  BY <1>4, <1>8 DEF WithShell
<1>10. InUse' = InUse \cup {n}
  BY <1>4, <1>5, <1>8 DEF InUse, Pids, PidOrNone
<1> QED
  BY <1>1, <1>2, <1>3, <1>6, <1>7, <1>8, <1>9, <1>10

LEMMA BootKeeps ==
  ASSUME Inv, TimerIsOrderly, TickBoot
  PROVE  Inv'
<1>1. PICK next \in Terminals, n \in Pids, s \in Pids, on \in KernelStacks :
         /\ pc \in {"idle", "user"} /\ next = NextTerminal
        /\ next \notin WithShell /\ WithShell \cup {next} = 0..next
        /\ InUse = 1..next /\ next \in 0..(NTerminals - 1)
        /\ n = next + 1 /\ n \notin InUse /\ n # 0
        /\ s = EntryStack /\ on = Interrupted
        /\ ebp_switch' = SavedContexts /\ scheduled' = next
        /\ shell_exists' = [shell_exists EXCEPT ![next] = TRUE]
        /\ pid_array' = [pid_array EXCEPT ![n] = 1]
        /\ parent_pid' = [parent_pid EXCEPT ![n] = 0]
        /\ ebp' = ebp /\ current_pid' = n
        /\ cur_term_pid' = [cur_term_pid EXCEPT ![next] = n]
        /\ frames' = [frames EXCEPT ![s] = on]
        /\ sp' = s /\ pc' = "boot" /\ crashed' = crashed /\ answer' = answer
        /\ WithShell' = WithShell \cup {next} /\ InUse' = InUse \cup {n}
  BY BootStarts
<1>2. /\ pc \in {"idle", "user"}
      /\ next \notin WithShell /\ WithShell \cup {next} = 0..next
      /\ InUse = 1..next /\ next \in 0..(NTerminals - 1)
  BY <1>1
<1>3. n = next + 1 /\ n \notin InUse /\ n # 0
  BY <1>1
<1>4. /\ parent_pid \in [Pids -> PidOrNone] /\ cur_term_pid \in [Terminals -> PidOrNone]
      /\ frames \in [Pids -> KernelStacks] /\ ebp \in [Pids -> Places]
      /\ pid_array \in [PidOrNone -> {0, 1}] /\ pid_array[0] = 1 /\ crashed = FALSE
      /\ shell_exists \in [Terminals -> BOOLEAN] /\ ebp_switch \in [Pids -> Places]
  BY DEF Inv, TypeInv
<1>5. InUse = {p \in Pids : pid_array[p] = 1}
  BY <1>2 DEF InUse
<1>6. s = EntryStack
  BY <1>1
<1>7. on = Interrupted
  BY <1>1
<1>8. /\ ebp_switch' = SavedContexts /\ scheduled' = next
      /\ shell_exists' = [shell_exists EXCEPT ![next] = TRUE]
      /\ pid_array' = [pid_array EXCEPT ![n] = 1]
      /\ parent_pid' = [parent_pid EXCEPT ![n] = 0]
      /\ ebp' = ebp /\ current_pid' = n
      /\ cur_term_pid' = [cur_term_pid EXCEPT ![next] = n]
      /\ frames' = [frames EXCEPT ![s] = on]
      /\ sp' = s /\ pc' = "boot" /\ crashed' = crashed
  BY <1>1
<1>9. WithShell' = WithShell \cup {next}
  BY <1>1
<1>10. InUse' = InUse \cup {n}
  BY <1>1
<1>11. SavedContexts \in [Pids -> Places]
  <2>1. CASE pc = "idle"
    BY <1>4, <2>1 DEF SavedContexts, Inv, BootInv
  <2>2. CASE pc = "user"
    BY <2>2, TickSavesAll
  <2> QED
    BY <1>2, <2>1, <2>2
<1>12. TypeInv'
  <2>1. /\ pid_array' \in [PidOrNone -> {0, 1}] /\ pid_array'[0] = 1
    BY <1>3, <1>4, <1>8 DEF Pids, PidOrNone
  <2>2. /\ parent_pid' \in [Pids -> PidOrNone] /\ cur_term_pid' \in [Terminals -> PidOrNone]
        /\ current_pid' \in PidOrNone /\ cur_term_pid'[next] = n
    BY <1>3, <1>4, <1>8 DEF Pids, PidOrNone
  <2>3. frames' \in [Pids -> KernelStacks] /\ shell_exists' \in [Terminals -> BOOLEAN]
    BY <1>4, <1>8
  <2> QED
    BY <1>4, <1>8, <1>11, <2>1, <2>2, <2>3 DEF TypeInv
<1>13. BootInv'
  <2>1. WithShell' = 0..next /\ InUse' = 1..(next + 1)
    <3>1. (1..next) \cup {next + 1} = 1..(next + 1)
      BY <1>2
    <3> QED
      BY <1>2, <1>3, <1>9, <1>10, <3>1
  <2>2. next \in 0..next
    BY <1>2
  <2> QED
    BY <1>8, <2>1, <2>2 DEF BootInv
<1>14. PICK owner \in [Pids -> Terminals] :
         Tree(InUse, parent_pid, cur_term_pid, WithShell, owner)
  BY DEF Inv, TreeInv
<1>15. TreeInv'
  <2>1. InUse \in SUBSET Pids /\ WithShell \in SUBSET Terminals
    BY <1>5 DEF WithShell
  <2>2. next \in Terminals \ WithShell /\ next + 1 \in Pids \ InUse
    BY <1>2, <1>3
  <2>3. PICK owner1 : owner1 = [owner EXCEPT ![n] = next]
    OBVIOUS
  <2>4. Tree(InUse', parent_pid', cur_term_pid', WithShell', owner1)
    BY <1>3, <1>4, <1>8, <1>9, <1>10, <1>14, <2>1, <2>2, <2>3, TreeBoots
  <2>5. owner1 \in [Pids -> Terminals]
    BY <2>3
  <2> QED
    BY <2>4, <2>5 DEF TreeInv
<1>16. StackInv'
  <2>1. ASSUME NEW t \in WithShell
        PROVE  Saved(cur_term_pid'[t], parent_pid'[cur_term_pid'[t]],
                     ebp_switch'[cur_term_pid'[t]], frames')
    <3>1. pc = "user"
      BY <1>2, <2>1 DEF Inv, BootInv
    <3>2. frames' = StacksAtTick
      BY <1>6, <1>7, <1>8 DEF StacksAtTick
    <3>3. t \in Terminals /\ t # next
      BY <1>2, <2>1 DEF WithShell
    <3>4. cur_term_pid'[t] = cur_term_pid[t] /\ cur_term_pid[t] \in InUse
      BY <1>4, <1>8, <1>14, <2>1, <3>3 DEF Tree
    <3>5. parent_pid'[cur_term_pid[t]] = parent_pid[cur_term_pid[t]]
      BY <1>3, <1>4, <1>5, <1>8, <3>4
    <3>6. Saved(cur_term_pid[t], parent_pid[cur_term_pid[t]], SavedContexts[cur_term_pid[t]],
                StacksAtTick)
      BY <2>1, <3>1, TickSavesAll
    <3> QED
      BY <1>8, <3>2, <3>4, <3>5, <3>6
  <2>2. ASSUME NEW p \in InUse', parent_pid'[p] # 0
        PROVE  CallOpen(parent_pid'[p], ebp'[parent_pid'[p]], frames')
    <3>1. p # n
      BY <1>3, <1>4, <1>8, <2>2
    <3>2. p \in InUse /\ parent_pid'[p] = parent_pid[p]
      BY <1>4, <1>5, <1>8, <1>10, <2>2, <3>1
    <3>3. pc = "user"
      BY <1>2, <3>2 DEF Inv, BootInv
    <3>4. frames' = StacksAtTick
      BY <1>6, <1>7, <1>8 DEF StacksAtTick
    <3>5. CallOpen(parent_pid[p], ebp[parent_pid[p]], StacksAtTick)
      BY <2>2, <3>2, <3>3, TickSavesAll
    <3> QED
      BY <1>8, <3>2, <3>4, <3>5
  <2> QED
    BY <1>8, <1>9, <2>1, <2>2 DEF StackInv
<1> QED
  BY <1>12, <1>13, <1>15, <1>16 DEF Inv

-----------------------------------------------------------------------------
(* The calls of the running program: only the stack it runs on changes.    *)

LEMMA OthersKept ==
  ASSUME Inv, pc # "idle", NEW stacks,
         \A p \in Pids \ {current_pid} : stacks[p] = frames[p]
  PROVE  /\ \A t \in WithShell \ {scheduled} :
              Saved(cur_term_pid[t], parent_pid[cur_term_pid[t]], ebp_switch[cur_term_pid[t]],
                    stacks)
         /\ \A p \in InUse :
              parent_pid[p] # 0 => CallOpen(parent_pid[p], ebp[parent_pid[p]], stacks)
<1>1. /\ parent_pid \in [Pids -> PidOrNone] /\ InUse \subseteq Pids
      /\ \A p \in InUse : parent_pid[p] # current_pid
  BY RunningLeaf DEF Inv, TypeInv
<1>2. ASSUME NEW t \in WithShell \ {scheduled}
      PROVE  Saved(cur_term_pid[t], parent_pid[cur_term_pid[t]], ebp_switch[cur_term_pid[t]],
                   stacks)
  <2>1. PICK p \in Pids : p = cur_term_pid[t] /\ p # current_pid
    BY <1>1, <1>2, WaitingApart
  <2>2. PICK q \in PidOrNone : q = parent_pid[p]
    BY <1>1
  <2>3. q # 0 => q \in Pids /\ q # current_pid
    BY <1>1, <1>2, <2>1, <2>2, WaitingApart
  <2>4. Saved(p, q, ebp_switch[p], frames)
    BY <1>2, <2>1, <2>2 DEF Inv, StackInv
  <2>5. stacks[p] = frames[p] /\ (q # 0 => stacks[q] = frames[q])
    BY <2>1, <2>3
  <2>6. Saved(p, q, ebp_switch[p], stacks)
    BY <2>4, <2>5 DEF Saved
  <2> QED
    BY <2>1, <2>2, <2>6
<1>3. ASSUME NEW p \in InUse, parent_pid[p] # 0
      PROVE  CallOpen(parent_pid[p], ebp[parent_pid[p]], stacks)
  <2>1. PICK q \in Pids : q = parent_pid[p] /\ q # current_pid
    BY <1>1, <1>3 DEF Pids, PidOrNone
  <2>2. CallOpen(q, ebp[q], frames)
    BY <1>3, <2>1 DEF Inv, StackInv
  <2>3. CallOpen(q, ebp[q], stacks)
    BY <2>1, <2>2 DEF CallOpen
  <2> QED
    BY <2>1, <2>3
<1> QED
  BY <1>2, <1>3

\* Once the shells are up, their pids are never free for another program.
LEMMA ShellPidsInUse ==
  ASSUME Inv, Booted
  PROVE  1..NTerminals \subseteq InUse /\ WithShell = Terminals
<1>1. PICK owner \in [Pids -> Terminals] :
        Tree(InUse, parent_pid, cur_term_pid, WithShell, owner)
  BY DEF Inv, TreeInv
<1>2. WithShell = Terminals
  BY DEF Booted, WithShell
<1>3. ASSUME NEW n \in 1..NTerminals
      PROVE  n \in InUse
  <2>1. PICK t \in Terminals : t + 1 = n
    <3>1. n - 1 \in Terminals /\ (n - 1) + 1 = n
      BY DEF Terminals
    <3> QED
      BY <3>1
  <2> QED
    BY <1>1, <1>2, <2>1 DEF Tree
<1> QED
  BY <1>2, <1>3

LEMMA ExecuteStarts ==
  ASSUME Inv, NEW file, Execute(file)
  PROVE  \E caller \in Pids, n \in Pids :
           /\ caller = current_pid /\ n \notin InUse /\ n # 0 /\ n # caller
           /\ pid_array' = [pid_array EXCEPT ![n] = 1]
           /\ parent_pid' = [parent_pid EXCEPT ![n] = caller]
           /\ ebp' = [ebp EXCEPT ![caller] = <<caller, 1>>]
           /\ current_pid' = n
           /\ cur_term_pid' = [cur_term_pid EXCEPT ![scheduled] = n]
           /\ frames' = [frames EXCEPT ![caller] = Called]
           /\ sp' = caller /\ pc' = "launch"
           /\ UNCHANGED <<ebp_switch, scheduled, shell_exists, answer, crashed>>
           /\ WithShell' = WithShell /\ InUse' = InUse \cup {n}
<1>1. pc = "user" /\ Booted /\ crashed = FALSE
  BY DEF Execute, Calls, Inv, TypeInv
<1>2. /\ scheduled \in WithShell /\ current_pid = cur_term_pid[scheduled]
      /\ current_pid \in InUse /\ current_pid # 0
      /\ \A p \in InUse : parent_pid[p] # current_pid
      /\ InUse \subseteq Pids /\ WithShell = Terminals
  BY <1>1, RunningLeaf, ShellPidsInUse
<1>3. PICK caller \in Pids : caller = current_pid
  BY <1>2
<1>4. /\ parent_pid \in [Pids -> PidOrNone] /\ cur_term_pid \in [Terminals -> PidOrNone]
      /\ frames \in [Pids -> KernelStacks] /\ ebp \in [Pids -> Places]
      /\ pid_array \in [PidOrNone -> {0, 1}] /\ pid_array[0] = 1
      /\ shell_exists \in [Terminals -> BOOLEAN] /\ ebp_switch \in [Pids -> Places]
  BY DEF Inv, TypeInv
<1>5. InUse = {p \in Pids : pid_array[p] = 1}
  BY <1>1 DEF InUse
<1>6. PICK n \in Pids : /\ IsNextPid(pid_array, n)
                        /\ StartProgram(pid_array, file, n, scheduled, caller, <<>>, "launch")
  BY <1>3 DEF Execute
<1>7. n \notin InUse /\ n # 0 /\ n # caller
  <2>1. pid_array[n] = 0
    BY <1>6 DEF IsNextPid, FreePids
  <2> QED
    BY <1>2, <1>3, <1>5, <2>1 DEF Pids
<1>8. ParentOf(file, n) = caller
  BY <1>1, <1>3, <1>7, ShellPidsInUse DEF ParentOf
<1>9. Append(<<>>, ExecuteFrame) = Called /\ Len(Called) = 1
  BY DEF Called
<1>10. /\ pid_array' = [pid_array EXCEPT ![n] = 1]
       /\ parent_pid' = [parent_pid EXCEPT ![n] = caller]
       /\ ebp' = [ebp EXCEPT ![caller] = <<caller, 1>>]
       /\ current_pid' = n
       /\ cur_term_pid' = [cur_term_pid EXCEPT ![scheduled] = n]
       /\ frames' = [frames EXCEPT ![caller] = Called]
       /\ sp' = caller /\ pc' = "launch"
  BY <1>6, <1>8, <1>9, StartsChild
<1>11. UNCHANGED <<ebp_switch, scheduled, shell_exists, answer, crashed>>
  BY DEF Execute
<1>12. WithShell' = WithShell /\ Booted'
  BY <1>1, <1>11 DEF WithShell, Booted
<1>13. InUse' = InUse \cup {n}
  BY <1>4, <1>5, <1>10 DEF InUse, Pids, PidOrNone
<1> QED
  BY <1>3, <1>7, <1>10, <1>11, <1>12, <1>13

LEMMA ExecuteKeeps ==
  ASSUME Inv, NEW file, Execute(file)
  PROVE  Inv'
<1>1. pc = "user" /\ Booted /\ crashed = FALSE
  BY DEF Execute, Calls, Inv, TypeInv
<1>2. /\ scheduled \in WithShell /\ current_pid = cur_term_pid[scheduled]
      /\ current_pid \in InUse /\ current_pid # 0
      /\ \A p \in InUse : parent_pid[p] # current_pid
      /\ InUse \subseteq Pids /\ WithShell = Terminals
  BY <1>1, RunningLeaf, ShellPidsInUse
<1>3. PICK caller \in Pids, n \in Pids :
        /\ caller = current_pid /\ n \notin InUse /\ n # 0 /\ n # caller
        /\ pid_array' = [pid_array EXCEPT ![n] = 1]
        /\ parent_pid' = [parent_pid EXCEPT ![n] = caller]
        /\ ebp' = [ebp EXCEPT ![caller] = <<caller, 1>>]
        /\ current_pid' = n
        /\ cur_term_pid' = [cur_term_pid EXCEPT ![scheduled] = n]
        /\ frames' = [frames EXCEPT ![caller] = Called]
        /\ sp' = caller /\ pc' = "launch"
        /\ UNCHANGED <<ebp_switch, scheduled, shell_exists, answer, crashed>>
        /\ WithShell' = WithShell /\ InUse' = InUse \cup {n}
  BY ExecuteStarts
<1>4. /\ parent_pid \in [Pids -> PidOrNone] /\ cur_term_pid \in [Terminals -> PidOrNone]
      /\ frames \in [Pids -> KernelStacks] /\ ebp \in [Pids -> Places]
      /\ pid_array \in [PidOrNone -> {0, 1}] /\ pid_array[0] = 1
      /\ shell_exists \in [Terminals -> BOOLEAN] /\ ebp_switch \in [Pids -> Places]
  BY DEF Inv, TypeInv
<1>5. caller = current_pid
  BY <1>3
<1>7. n \notin InUse /\ n # 0 /\ n # caller
  BY <1>3
<1>10. /\ pid_array' = [pid_array EXCEPT ![n] = 1]
       /\ parent_pid' = [parent_pid EXCEPT ![n] = caller]
       /\ ebp' = [ebp EXCEPT ![caller] = <<caller, 1>>]
       /\ current_pid' = n
       /\ cur_term_pid' = [cur_term_pid EXCEPT ![scheduled] = n]
       /\ frames' = [frames EXCEPT ![caller] = Called]
       /\ sp' = caller /\ pc' = "launch"
  BY <1>3
<1>11. UNCHANGED <<ebp_switch, scheduled, shell_exists, crashed>>
  BY <1>3
<1>12. WithShell' = WithShell /\ Booted'
  BY <1>1, <1>3 DEF WithShell, Booted
<1>13. InUse' = InUse \cup {n}
  BY <1>3
<1>14. TypeInv'
  <2>1. /\ pid_array' \in [PidOrNone -> {0, 1}] /\ pid_array'[0] = 1
    BY <1>4, <1>7, <1>10 DEF Pids, PidOrNone
  <2>2. /\ parent_pid' \in [Pids -> PidOrNone] /\ cur_term_pid' \in [Terminals -> PidOrNone]
        /\ current_pid' \in PidOrNone /\ cur_term_pid'[scheduled] = n
    BY <1>2, <1>4, <1>10 DEF Pids, PidOrNone
  <2>3. frames' \in [Pids -> KernelStacks]
    BY <1>4, <1>10 DEF KernelStacks
  <2>4. ebp' \in [Pids -> Places]
    <3>1. <<caller, 1>> \in Places
      BY DEF Places, Pids, PidOrNone
    <3> QED
      BY <1>4, <1>10, <3>1
  <2>5. scheduled \in Terminals
    BY <1>2
  <2> QED
    BY <1>1, <1>4, <1>10, <1>11, <2>1, <2>2, <2>3, <2>4, <2>5 DEF TypeInv
<1>15. BootInv'
  BY <1>2, <1>10, <1>11, <1>12 DEF BootInv
<1>16. PICK owner \in [Pids -> Terminals] :
         Tree(InUse, parent_pid, cur_term_pid, WithShell, owner)
  BY DEF Inv, TreeInv
<1>17. TreeInv'
  <2>1. PICK owner1 \in [Pids -> Terminals] : owner1 = [owner EXCEPT ![n] = scheduled]
    BY <1>2
  <2>2. Tree(InUse', parent_pid', cur_term_pid', WithShell', owner1)
    BY <1>2, <1>5, <1>4, <1>7, <1>10, <1>12, <1>13, <1>16, <2>1, TreeGrows
  <2> QED
    BY <2>2 DEF TreeInv
<1>18. /\ frames'[caller] = Called
       /\ \A p \in Pids \ {caller} : frames'[p] = frames[p] /\ ebp'[p] = ebp[p]
       /\ \A p \in Pids \ {n} : parent_pid'[p] = parent_pid[p]
       /\ parent_pid'[n] = caller /\ ebp'[caller] = <<caller, 1>>
       /\ \A t \in WithShell \ {scheduled} : cur_term_pid'[t] = cur_term_pid[t]
  BY <1>2, <1>4, <1>10
<1>19. PICK stacks : stacks = frames'
  OBVIOUS
<1>20. /\ \A t \in WithShell \ {scheduled} :
            Saved(cur_term_pid[t], parent_pid[cur_term_pid[t]], ebp_switch[cur_term_pid[t]],
                  stacks)
       /\ \A p \in InUse :
            parent_pid[p] # 0 => CallOpen(parent_pid[p], ebp[parent_pid[p]], stacks)
  BY <1>1, <1>5, <1>18, <1>19, OthersKept
<1>21. ASSUME NEW t \in WithShell \ {scheduled}
       PROVE  Saved(cur_term_pid'[t], parent_pid'[cur_term_pid'[t]],
                    ebp_switch[cur_term_pid'[t]], stacks)
  <2>1. PICK p \in InUse : p = cur_term_pid[t]
    BY <1>1, <1>21, WaitingApart
  <2>2. cur_term_pid'[t] = p /\ parent_pid'[p] = parent_pid[p]
    BY <1>2, <1>7, <1>18, <1>21, <2>1
  <2> QED
    BY <1>20, <1>21, <2>1, <2>2
<1>22. ASSUME NEW p \in InUse \cup {n}, parent_pid'[p] # 0
       PROVE  CallOpen(parent_pid'[p], ebp'[parent_pid'[p]], stacks)
  <2>1. CASE p = n
    BY <1>18, <1>19, <2>1 DEF CallOpen
  <2>2. CASE p # n
    <3>1. p \in InUse /\ parent_pid'[p] = parent_pid[p] /\ parent_pid[p] # caller
      BY <1>2, <1>5, <1>18, <1>22, <2>2
    <3>2. parent_pid[p] \in Pids
      BY <1>2, <1>4, <1>22, <3>1 DEF Pids, PidOrNone
    <3>3. ebp'[parent_pid[p]] = ebp[parent_pid[p]]
      BY <1>18, <3>1, <3>2
    <3> QED
      BY <1>20, <1>22, <3>1, <3>3
  <2> QED
    BY <2>1, <2>2
<1>23. Launching(n, caller, caller, stacks)
  BY <1>18, <1>19, <1>2, <1>5 DEF Launching
<1>24. StackInv'
  BY <1>10, <1>11, <1>12, <1>13, <1>18, <1>19, <1>21, <1>22, <1>23 DEF StackInv
<1> QED
  BY <1>14, <1>15, <1>17, <1>24 DEF Inv

LEMMA LaunchKeeps ==
  ASSUME Inv, Launch
  PROVE  Inv' /\ SamePrograms
<1>1. /\ pc \in {"launch", "boot"} /\ pc' = "user"
      /\ UNCHANGED <<pid_array, parent_pid, ebp, ebp_switch, current_pid, cur_term_pid,
                     scheduled, shell_exists, frames, sp, crashed>>
  BY DEF Launch
<1>2. InUse' = InUse /\ WithShell' = WithShell
  BY <1>1 DEF InUse, WithShell
<1>3. TypeInv'
  BY <1>1 DEF Inv, TypeInv
<1>4. BootInv'
  BY <1>1, <1>2 DEF Inv, BootInv, Booted
<1>5. TreeInv'
  BY <1>1, <1>2, TreeInvSame
<1>6. StackInv'
  BY <1>1, <1>2 DEF Inv, StackInv
<1>7. SamePrograms
  BY <1>1, <1>2 DEF SamePrograms
<1> QED
  BY <1>3, <1>4, <1>5, <1>6, <1>7 DEF Inv

LEMMA HaltReturnsKeeps ==
  ASSUME Inv, HaltReturns
  PROVE  Inv' /\ SamePrograms
<1>1. /\ pc = "halt"
      /\ UNCHANGED <<pid_array, parent_pid, ebp, ebp_switch, current_pid, cur_term_pid,
                     scheduled, shell_exists>>
  BY DEF HaltReturns
<1>2. PICK p \in Pids : p = current_pid
  BY <1>1, RunningLeaf
<1>3. frames \in [Pids -> KernelStacks]
  BY DEF Inv, TypeInv
<1>4. ebp[p] = <<p, 1>> /\ frames[p] \in {Called, CalledInLaunch}
  BY <1>1, <1>2 DEF Inv, StackInv, CallOpen
<1>5. frames' = [frames EXCEPT ![p] = Empty] /\ sp' = p /\ pc' = "user" /\ UNCHANGED crashed
  <2>1. ReturnThrough(<<p, 1>>, "execute", frames)
    BY <1>2, <1>4 DEF HaltReturns
  <2> QED
    BY <1>3, <1>4, <2>1, ReturnsToCaller
<1>6. InUse' = InUse /\ WithShell' = WithShell
  BY <1>1, <1>5 DEF InUse, WithShell
<1>7. TypeInv'
  <2>1. frames' \in [Pids -> KernelStacks]
    BY <1>3, <1>5 DEF KernelStacks
  <2> QED
    BY <1>1, <1>5, <2>1 DEF Inv, TypeInv
<1>8. BootInv'
  BY <1>1, <1>5, <1>6 DEF Inv, BootInv, Booted
<1>9. TreeInv'
  BY <1>1, <1>6, TreeInvSame
<1>10. PICK stacks : stacks = frames'
  OBVIOUS
<1>11. \A r \in Pids \ {current_pid} : stacks[r] = frames[r]
  BY <1>2, <1>3, <1>5, <1>10
<1>12. /\ \A t \in WithShell \ {scheduled} :
            Saved(cur_term_pid[t], parent_pid[cur_term_pid[t]], ebp_switch[cur_term_pid[t]],
                  stacks)
       /\ \A r \in InUse :
            parent_pid[r] # 0 => CallOpen(parent_pid[r], ebp[parent_pid[r]], stacks)
  BY <1>1, <1>11, OthersKept
<1>13. StackInv'
  BY <1>1, <1>5, <1>6, <1>10, <1>12 DEF StackInv
<1>14. SamePrograms
  BY <1>1, <1>6 DEF SamePrograms
<1> QED
  BY <1>7, <1>8, <1>9, <1>13, <1>14 DEF Inv

LEMMA HaltKeeps ==
  ASSUME Inv, Halt
  PROVE  Inv' /\ InUse' = InUse \ {current_pid} /\ WithShell' = WithShell
<1>1. pc = "user" /\ Booted /\ crashed = FALSE
  BY DEF Halt, Calls, Inv, TypeInv
<1>2. /\ scheduled \in WithShell /\ current_pid = cur_term_pid[scheduled]
      /\ current_pid \in InUse /\ InUse \subseteq Pids /\ WithShell \subseteq Terminals
  BY <1>1, RunningLeaf
<1>3. PICK p \in Pids : p = current_pid /\ p \in InUse
  BY <1>2
<1>4. /\ parent_pid \in [Pids -> PidOrNone] /\ cur_term_pid \in [Terminals -> PidOrNone]
      /\ frames \in [Pids -> KernelStacks] /\ pid_array \in [PidOrNone -> {0, 1}]
      /\ pid_array[0] = 1
  BY DEF Inv, TypeInv
<1>5. PICK q \in Pids : q = parent_pid[p] /\ q # 0
  BY <1>3, <1>4 DEF Halt, Pids, PidOrNone
<1>6. /\ frames' = [frames EXCEPT ![p] = Halting]
      /\ sp' = p /\ pc' = "halt"
      /\ pid_array' = [pid_array EXCEPT ![p] = 0]
      /\ current_pid' = q
      /\ cur_term_pid' = [cur_term_pid EXCEPT ![scheduled] = q]
      /\ UNCHANGED <<parent_pid, ebp, ebp_switch, scheduled, shell_exists, crashed>>
  BY <1>3, <1>5 DEF Halt, Halting
<1>7. WithShell' = WithShell /\ Booted'
  BY <1>1, <1>6 DEF WithShell, Booted
<1>8. InUse = {r \in Pids : pid_array[r] = 1} /\ InUse' = InUse \ {p}
  BY <1>1, <1>4, <1>6 DEF InUse, Pids, PidOrNone
<1>9. TypeInv'
  <2>1. pid_array' \in [PidOrNone -> {0, 1}] /\ pid_array'[0] = 1
    BY <1>4, <1>6 DEF Pids, PidOrNone
  <2>2. /\ cur_term_pid' \in [Terminals -> PidOrNone] /\ cur_term_pid'[scheduled] = q
        /\ q \in PidOrNone
    BY <1>2, <1>4, <1>6 DEF Pids, PidOrNone
  <2>3. frames' \in [Pids -> KernelStacks]
    BY <1>4, <1>6 DEF KernelStacks
  <2> QED
    BY <1>6, <2>1, <2>2, <2>3 DEF Inv, TypeInv
<1>10. BootInv'
  BY <1>2, <1>6, <1>7 DEF BootInv
<1>11. PICK owner \in [Pids -> Terminals] :
         Tree(InUse, parent_pid, cur_term_pid, WithShell, owner)
  BY DEF Inv, TreeInv
<1>12. TreeInv'
  <2>1. PICK t \in WithShell : t = scheduled
    BY <1>2
  <2>2. cur_term_pid[t] = p /\ parent_pid[cur_term_pid[t]] = q
    BY <1>2, <1>3, <1>5, <2>1
  <2>3. Tree(InUse \ {p}, parent_pid, [cur_term_pid EXCEPT ![t] = q], WithShell, owner)
    BY <1>2, <1>4, <1>5, <1>11, <2>2, TreeShrinks
  <2>4. Tree(InUse', parent_pid', cur_term_pid', WithShell', owner)
    BY <1>6, <1>7, <1>8, <2>1, <2>3
  <2> QED
    BY <2>4 DEF TreeInv
<1>13. PICK stacks : stacks = frames'
  OBVIOUS
<1>14. \A r \in Pids \ {current_pid} : stacks[r] = frames[r]
  BY <1>3, <1>4, <1>6, <1>13
<1>15. /\ \A t \in WithShell \ {scheduled} :
            Saved(cur_term_pid[t], parent_pid[cur_term_pid[t]], ebp_switch[cur_term_pid[t]],
                  stacks)
       /\ \A r \in InUse :
            parent_pid[r] # 0 => CallOpen(parent_pid[r], ebp[parent_pid[r]], stacks)
  BY <1>1, <1>14, OthersKept
<1>16. \A t \in WithShell \ {scheduled} : cur_term_pid'[t] = cur_term_pid[t]
  BY <1>2, <1>4, <1>6
<1>17. CallOpen(q, ebp[q], stacks)
  BY <1>3, <1>5, <1>15
<1>18. \A t \in WithShell \ {scheduled} :
         Saved(cur_term_pid'[t], parent_pid[cur_term_pid'[t]], ebp_switch[cur_term_pid'[t]],
               stacks)
  BY <1>15, <1>16
<1>19. StackInv'
  BY <1>6, <1>7, <1>8, <1>13, <1>15, <1>17, <1>18 DEF StackInv
<1> QED
  BY <1>3, <1>7, <1>8, <1>9, <1>10, <1>12, <1>19 DEF Inv

\* The pid of a base shell is that of its terminal.
LEMMA BaseShellPid ==
  ASSUME Inv, pc # "idle", parent_pid[current_pid] = 0
  PROVE  current_pid = scheduled + 1 /\ current_pid \in 1..NTerminals
<1>1. PICK owner \in [Pids -> Terminals] :
        Tree(InUse, parent_pid, cur_term_pid, WithShell, owner)
  BY DEF Inv, TreeInv
<1>2. /\ scheduled \in WithShell /\ current_pid = cur_term_pid[scheduled]
      /\ current_pid \in InUse
  BY RunningLeaf
<1>3. current_pid = owner[current_pid] + 1 /\ owner[current_pid] = scheduled
  BY <1>1, <1>2 DEF Tree
<1>4. scheduled \in 0..(NTerminals - 1)
  BY DEF Inv, TypeInv, Terminals
<1> QED
  BY <1>3, <1>4

LEMMA RestartKeeps ==
  ASSUME Inv, Restart
  PROVE  Inv' /\ SamePrograms
<1>1. pc = "user" /\ Booted /\ parent_pid[current_pid] = 0
  BY DEF Restart, Calls
<1>2. PICK p \in Pids : p = current_pid /\ p \in InUse /\ p # 0 /\ p = scheduled + 1
  BY <1>1, RunningLeaf, BaseShellPid
<1>3. /\ frames \in [Pids -> KernelStacks] /\ pid_array \in [PidOrNone -> {0, 1}]
      /\ pid_array[0] = 1
  BY DEF Inv, TypeInv
<1>4. /\ frames' = [frames EXCEPT ![p] = Halting]
      /\ sp' = p /\ pc' = "restart"
      /\ pid_array' = [pid_array EXCEPT ![p] = 0]
      /\ UNCHANGED <<parent_pid, ebp, ebp_switch, current_pid, cur_term_pid, scheduled,
                     shell_exists, crashed>>
  BY <1>2 DEF Restart, Halting
<1>5. WithShell' = WithShell /\ Booted'
  BY <1>1, <1>4 DEF WithShell, Booted
<1>6. InUse' = InUse
  <2>1. InUse = {r \in Pids : pid_array[r] = 1}
    BY <1>1 DEF InUse
  <2>2. InUse' = {r \in Pids : pid_array'[r] = 1} \cup {p}
    BY <1>2, <1>4 DEF InUse
  <2>3. \A r \in Pids : pid_array'[r] = IF r = p THEN 0 ELSE pid_array[r]
    BY <1>3, <1>4 DEF Pids, PidOrNone
  <2> QED
    BY <1>2, <2>1, <2>2, <2>3
<1>7. TypeInv'
  <2>1. pid_array' \in [PidOrNone -> {0, 1}] /\ pid_array'[0] = 1
    BY <1>2, <1>3, <1>4 DEF Pids, PidOrNone
  <2>2. frames' \in [Pids -> KernelStacks]
    BY <1>3, <1>4 DEF KernelStacks
  <2> QED
    BY <1>4, <2>1, <2>2 DEF Inv, TypeInv
<1>8. BootInv'
  BY <1>1, <1>4, <1>5 DEF Inv, BootInv
<1>9. TreeInv'
  BY <1>4, <1>6, TreeInvSame
<1>10. PICK stacks : stacks = frames'
  OBVIOUS
<1>11. \A r \in Pids \ {current_pid} : stacks[r] = frames[r]
  BY <1>2, <1>3, <1>4, <1>10
<1>12. /\ \A t \in WithShell \ {scheduled} :
            Saved(cur_term_pid[t], parent_pid[cur_term_pid[t]], ebp_switch[cur_term_pid[t]],
                  stacks)
       /\ \A r \in InUse :
            parent_pid[r] # 0 => CallOpen(parent_pid[r], ebp[parent_pid[r]], stacks)
  BY <1>1, <1>11, OthersKept
<1>13. pid_array'[p] = 0 /\ stacks[p] = Halting
  BY <1>2, <1>3, <1>4, <1>10 DEF Pids, PidOrNone
<1>14. StackInv'
  BY <1>1, <1>2, <1>4, <1>5, <1>6, <1>10, <1>12, <1>13 DEF StackInv
<1>15. SamePrograms
  BY <1>4, <1>5, <1>6 DEF SamePrograms
<1> QED
  BY <1>7, <1>8, <1>9, <1>14, <1>15 DEF Inv

\* The shell that restarts gets its own pid and its own stack again.
LEMMA RestartExecutesKeeps ==
  ASSUME Inv, RestartExecutes
  PROVE  Inv' /\ SamePrograms
<1>1. pc = "restart"
  BY DEF RestartExecutes
<1>2. Booted /\ parent_pid[current_pid] = 0
  BY <1>1 DEF Inv, BootInv, StackInv
<1>3. PICK p \in Pids : /\ p = current_pid /\ p \in InUse /\ p # 0
                        /\ p = scheduled + 1 /\ p \in 1..NTerminals
                        /\ sp = p /\ frames[p] = Halting /\ pid_array[p] = 0
  BY <1>1, <1>2, RunningLeaf, BaseShellPid DEF Inv, StackInv
<1>4. /\ frames \in [Pids -> KernelStacks] /\ pid_array \in [PidOrNone -> {0, 1}]
      /\ pid_array[0] = 1 /\ parent_pid \in [Pids -> PidOrNone]
      /\ cur_term_pid \in [Terminals -> PidOrNone]
      /\ scheduled \in Terminals /\ cur_term_pid[scheduled] = p
  BY <1>3 DEF Inv, TypeInv
<1>5. PICK n \in Pids : /\ IsNextPid(pid_array, n)
                        /\ StartProgram(pid_array, "shell", n, scheduled, p, Halting, "launch")
  BY <1>3 DEF RestartExecutes
<1>6. n = p
  <2>1. pid_array[n] = 0 /\ n <= p
    BY <1>3, <1>5 DEF IsNextPid, FreePids, Pids, PidOrNone
  <2>2. n \in 1..NTerminals
    BY <1>3, <2>1 DEF Pids
  <2>3. n \in InUse
    BY <1>2, <2>2, ShellPidsInUse
  <2> QED
    BY <1>1, <1>3, <2>1, <2>3 DEF InUse
<1>7. /\ pid_array' = [pid_array EXCEPT ![p] = 1]
      /\ parent_pid' = [parent_pid EXCEPT ![p] = 0]
      /\ ebp' = ebp /\ current_pid' = p
      /\ cur_term_pid' = [cur_term_pid EXCEPT ![scheduled] = p]
      /\ frames' = [frames EXCEPT ![p] = Halting]
      /\ sp' = p /\ pc' = "launch"
  <2>1. ParentOf("shell", p) = 0
    BY <1>3 DEF ParentOf
  <2> QED
    BY <1>5, <1>6, <2>1, StartsBase
<1>8. UNCHANGED <<ebp_switch, scheduled, shell_exists, answer, crashed>>
  BY DEF RestartExecutes
<1>9. UNCHANGED <<parent_pid, cur_term_pid, frames>>
  BY <1>2, <1>3, <1>4, <1>7
<1>10. WithShell' = WithShell /\ Booted'
  BY <1>2, <1>8 DEF WithShell, Booted
<1>11. InUse' = InUse
  <2>1. InUse = {r \in Pids : pid_array[r] = 1} \cup {p}
    BY <1>1, <1>3 DEF InUse
  <2>2. InUse' = {r \in Pids : pid_array'[r] = 1}
    BY <1>7 DEF InUse
  <2>3. \A r \in Pids : pid_array'[r] = IF r = p THEN 1 ELSE pid_array[r]
    BY <1>4, <1>7 DEF Pids, PidOrNone
  <2> QED
    BY <2>1, <2>2, <2>3
<1>12. TypeInv'
  <2>1. pid_array' \in [PidOrNone -> {0, 1}] /\ pid_array'[0] = 1
    BY <1>3, <1>4, <1>7 DEF Pids, PidOrNone
  <2> QED
    BY <1>3, <1>7, <1>8, <1>9, <2>1 DEF Inv, TypeInv
<1>13. BootInv'
  BY <1>1, <1>7, <1>8, <1>10 DEF Inv, BootInv
<1>14. TreeInv'
  BY <1>8, <1>9, <1>11, TreeInvSame
<1>15. StackInv'
  <2>1. Launching(p, 0, p, frames)
    BY <1>3 DEF Launching
  <2> QED
    BY <1>2, <1>3, <1>7, <1>8, <1>9, <1>10, <1>11, <2>1 DEF Inv, StackInv
<1>16. SamePrograms
  BY <1>9, <1>10, <1>11 DEF SamePrograms
<1> QED
  BY <1>12, <1>13, <1>14, <1>15, <1>16 DEF Inv

-----------------------------------------------------------------------------
(* The theorems.                                                           *)

LEMMA InvInit == Init => Inv
<1> SUFFICES ASSUME Init PROVE Inv
  OBVIOUS
<1>1. InUse = {} /\ WithShell = {}
  BY DEF Init, InUse, WithShell, Pids, PidOrNone
<1>2. TypeInv
  <2>1. 0 \in PidOrNone /\ NTerminals - 1 \in Terminals /\ 1 \in Pids
    BY DEF PidOrNone, Terminals, Pids
  <2>2. NoFrame \in Places /\ <<>> \in KernelStacks
    BY <2>1 DEF NoFrame, Places, KernelStacks, Empty
  <2> QED
    BY <2>1, <2>2 DEF Init, TypeInv
<1>3. BootInv
  BY <1>1 DEF Init, BootInv
<1>4. TreeInv
  <2>1. PICK owner \in [Pids -> Terminals] : owner = [p \in Pids |-> NTerminals - 1]
    <3>1. NTerminals - 1 \in Terminals
      BY DEF Terminals
    <3> QED
      BY <3>1
  <2>2. Tree({}, parent_pid, cur_term_pid, {}, owner)
    BY DEF Tree
  <2> QED
    BY <1>1, <2>2 DEF TreeInv
<1>5. StackInv
  BY <1>1 DEF Init, StackInv
<1> QED
  BY <1>2, <1>3, <1>4, <1>5 DEF Inv

LEMMA InvNext ==
  ASSUME Inv, TimerIsOrderly, [Next]_vars
  PROVE  Inv'
<1>1. CASE UNCHANGED vars
  <2>1. InUse' = InUse /\ WithShell' = WithShell
    BY <1>1 DEF vars, InUse, WithShell
  <2>2. TypeInv'
    BY <1>1 DEF vars, Inv, TypeInv
  <2>3. BootInv'
    BY <1>1, <2>1 DEF vars, Inv, BootInv, Booted
  <2>4. TreeInv'
    BY <1>1, <2>1, TreeInvSame DEF vars
  <2>5. StackInv'
    BY <1>1, <2>1 DEF vars, Inv, StackInv
  <2> QED
    BY <2>2, <2>3, <2>4, <2>5 DEF Inv
<1>2. CASE Next
  BY <1>2, BootKeeps, SwitchKeeps, ExecuteKeeps, LaunchKeeps, HaltKeeps, HaltReturnsKeeps,
     RestartKeeps, RestartExecutesKeeps DEF Next, Tick
<1> QED
  BY <1>1, <1>2

LEMMA InvHolds ==
  ASSUME TimerIsOrderly
  PROVE  Spec => []Inv
<1>1. Init => Inv
  BY InvInit
<1>2. Inv /\ [Next]_vars => Inv'
  BY InvNext
<1> QED
  BY <1>1, <1>2, PTL DEF Spec

LEMMA SavedIsReached ==
  ASSUME NEW stacks \in [Pids -> KernelStacks], NEW p \in Pids, NEW q \in PidOrNone, NEW place,
         Saved(p, q, place, stacks)
  PROVE  Reaches(place, "tick", stacks)
<1>1. q # 0 => q \in Pids
  BY DEF PidOrNone, Pids
<1>2. CASE place = <<p, 1>> /\ stacks[p] = InUser
  BY <1>2, ReturnsToUser
<1>3. CASE q # 0 /\ place = <<q, 2>> /\ stacks[q] = CalledInLaunch
  BY <1>1, <1>3, ReturnsToLaunch
<1>4. CASE q = 0 /\ place = <<p, 2>> /\ stacks[p] = HaltingInLaunch
  BY <1>4, ReturnsToLaunch
<1> QED
  BY <1>2, <1>3, <1>4 DEF Saved

\* scheduler saves the context of the program that ran and restores that of the
\* one whose turn it is (scheduler.c:55-58): with a timer that comes in user
\* code and in launches, the context of every terminal that waits is on a
\* kernel stack, at the place its PCB names, whatever execute and halt did to
\* the stacks meanwhile, and no return through a saved place ever misses.
THEOREM ContextAlwaysIntact ==
  ASSUME TimerIsOrderly
  PROVE  Spec => []ContextIntact
<1>1. ASSUME Inv PROVE ContextIntact
  <2>1. crashed = FALSE /\ frames \in [Pids -> KernelStacks] /\ parent_pid \in [Pids -> PidOrNone]
    BY <1>1 DEF Inv, TypeInv
  <2>2. ASSUME NEW t \in Terminals, shell_exists[t], t # scheduled
        PROVE  Reaches(ebp_switch[cur_term_pid[t]], "tick", frames)
    <3>1. t \in WithShell /\ pc # "idle"
      BY <1>1, <2>2 DEF WithShell, Inv, BootInv
    <3>2. PICK p \in Pids : p = cur_term_pid[t]
      BY <1>1, <3>1, LeavesApart, RunningLeaf
    <3>3. Saved(p, parent_pid[p], ebp_switch[p], frames)
      BY <1>1, <2>2, <3>1, <3>2 DEF Inv, StackInv
    <3>4. Reaches(ebp_switch[p], "tick", frames)
      BY <2>1, <3>3, SavedIsReached
    <3> QED
      BY <3>2, <3>4
  <2> QED
    BY <2>1, <2>2 DEF ContextIntact
<1>2. Spec => []Inv
  BY InvHolds
<1> QED
  BY <1>1, <1>2, PTL

\* halt returns to the parent through the frame pointer execute saved in the
\* parent's PCB (halt.S): while a program is under way, the frame of the execute
\* that started it is at the bottom of its parent's stack, through every tick
\* in a launch and whatever the other terminals do.
THEOREM CallersAlwaysIntact ==
  ASSUME TimerIsOrderly
  PROVE  Spec => []CallerIntact
<1>1. ASSUME Inv PROVE CallerIntact
  <2>1. frames \in [Pids -> KernelStacks] /\ parent_pid \in [Pids -> PidOrNone]
    BY <1>1 DEF Inv, TypeInv
  <2>2. ASSUME NEW p \in Pids, pid_array[p] = 1, parent_pid[p] # 0
        PROVE  Reaches(ebp[parent_pid[p]], "execute", frames)
    <3>1. p \in InUse
      BY <2>2 DEF InUse
    <3>2. PICK q \in Pids : q = parent_pid[p]
      BY <2>1, <2>2 DEF Pids, PidOrNone
    <3>3. CallOpen(q, ebp[q], frames)
      BY <1>1, <2>2, <3>1, <3>2 DEF Inv, StackInv
    <3>4. ebp[q] = <<q, 1>> /\ Reaches(<<q, 1>>, "execute", frames)
      BY <2>1, <3>3, ReturnsToCaller DEF CallOpen
    <3> QED
      BY <3>2, <3>4
  <2> QED
    BY <2>2 DEF CallerIntact
<1>2. Spec => []Inv
  BY InvHolds
<1> QED
  BY <1>1, <1>2, PTL

-----------------------------------------------------------------------------
(* Induction.                                                              *)

\* Every set of numbers but the empty one has a least element.
LEMMA Least ==
  ASSUME NEW T, T \subseteq Nat, T # {}
  PROVE  \E x \in T : \A y \in T : x <= y
<1>1. PICK R : R = OpToRel(<, Nat)
  BY Zenon
<1>2. PICK x \in T : \A y \in T : ~(<<y, x>> \in R)
  BY <1>1, NatLessThanWellFounded, WFMin, Zenon
<1>3. \A y, z \in Nat : y < z => <<y, z>> \in R
  BY <1>1 DEF OpToRel
<1>4. ASSUME NEW y \in T PROVE x <= y
  <2>1. x \in Nat /\ y \in Nat
    OBVIOUS
  <2>2. ~(y < x)
    BY <1>2, <1>3, <2>1
  <2> QED
    BY <2>1, <2>2
<1> QED
  BY <1>4

\* Induction, for a property that is a set.
LEMMA Induction ==
  ASSUME NEW T, 0 \in T, \A n \in Nat : n \in T => n + 1 \in T
  PROVE  \A n \in Nat : n \in T
<1>1. SUFFICES ASSUME NEW m \in Nat, m \notin T PROVE FALSE
  OBVIOUS
<1>2. PICK U : U = {n \in Nat : n \notin T}
  OBVIOUS
<1>3. PICK x \in U : \A y \in U : x <= y
  BY <1>1, <1>2, Least
<1>4. x \in Nat /\ x # 0 /\ x - 1 \in Nat /\ x - 1 \notin U
  BY <1>2, <1>3
<1>5. x - 1 \in T /\ (x - 1) + 1 = x
  BY <1>2, <1>4
<1> QED
  BY <1>2, <1>3, <1>4, <1>5

-----------------------------------------------------------------------------
(* The stack of a terminal.                                                *)

\* The definition of PathTo.
StackStep(path, parent, n) ==
  [p \in Pids |-> IF n = 0 \/ parent[p] = 0 THEN <<p>> ELSE Append(path[n - 1][parent[p]], p)]
IsPathTo(path, parent) == path = [n \in PidOrNone |-> StackStep(path, parent, n)]

LEMMA PathExists ==
  ASSUME NEW parent
  PROVE  \E path : IsPathTo(path, parent)
<1> DEFINE UpTo(k, path) == \A n \in 0..k : path[n] = StackStep(path, parent, n)
           T == {k \in Nat : \E path : UpTo(k, path)}
<1>1. 0 \in T
  <2>1. PICK path : path = [n \in {0} |-> [p \in Pids |-> <<p>>]]
    OBVIOUS
  <2>2. path[0] = StackStep(path, parent, 0)
    BY <2>1 DEF StackStep
  <2>3. UpTo(0, path)
    BY <2>2
  <2> QED
    BY <2>3
<1>2. ASSUME NEW k \in Nat, k \in T PROVE k + 1 \in T
  <2>1. PICK path : UpTo(k, path)
    BY <1>2
  <2>2. PICK new : new = StackStep(path, parent, k + 1)
    OBVIOUS
  <2>3. PICK longer : longer = [n \in 0..(k + 1) |-> IF n = k + 1 THEN new ELSE path[n]]
    OBVIOUS
  <2>4. longer[k + 1] = new /\ \A n \in 0..k : longer[n] = path[n]
    BY <2>3
  <2>5. ASSUME NEW n \in 0..(k + 1) PROVE longer[n] = StackStep(longer, parent, n)
    <3>1. CASE n = 0
      <4>1. longer[0] = StackStep(path, parent, 0)
        BY <2>1, <2>4
      <4> QED
        BY <3>1, <4>1 DEF StackStep
    <3>2. CASE n # 0
      <4>1. n - 1 \in 0..k /\ longer[n - 1] = path[n - 1]
        BY <2>4, <3>2
      <4>2. longer[n] = StackStep(path, parent, n)
        BY <2>1, <2>2, <2>4
      <4> QED
        BY <4>1, <4>2 DEF StackStep
    <3> QED
      BY <3>1, <3>2
  <2> QED
    BY <2>5
<1> HIDE DEF T
<1>3. NPids \in T
  BY <1>1, <1>2, Induction
<1>4. PICK path : \A n \in 0..NPids : path[n] = StackStep(path, parent, n)
  BY <1>3 DEF T
<1>5. PICK f : f = [n \in PidOrNone |-> path[n]]
  OBVIOUS
<1>6. ASSUME NEW n \in PidOrNone PROVE path[n] = StackStep(f, parent, n)
  <2>1. n \in 0..NPids /\ path[n] = StackStep(path, parent, n)
    BY <1>4 DEF PidOrNone
  <2>2. n # 0 => f[n - 1] = path[n - 1]
    BY <1>5, <2>1 DEF PidOrNone
  <2> QED
    BY <2>1, <2>2 DEF StackStep
<1>7. f = [n \in PidOrNone |-> StackStep(f, parent, n)]
  BY <1>5, <1>6
<1> QED
  BY <1>7 DEF IsPathTo

LEMMA PathUnfolds ==
  ASSUME NEW parent, NEW n \in PidOrNone, NEW p \in Pids
  PROVE  PathTo(parent)[n][p] =
           IF n = 0 \/ parent[p] = 0 THEN <<p>> ELSE Append(PathTo(parent)[n - 1][parent[p]], p)
<1>1. \E path : IsPathTo(path, parent)
  BY PathExists
<1>2. IsPathTo(PathTo(parent), parent)
  BY <1>1, Zenon DEF PathTo, IsPathTo, StackStep
<1>3. PICK path : path = PathTo(parent)
  OBVIOUS
<1>4. PICK right : right = path
  OBVIOUS
<1>5. path = [m \in PidOrNone |-> StackStep(right, parent, m)]
  BY <1>2, <1>3, <1>4 DEF IsPathTo
<1>6. path[n] = StackStep(right, parent, n)
  BY <1>5
<1>7. path[n][p] = IF n = 0 \/ parent[p] = 0 THEN <<p>> ELSE Append(right[n - 1][parent[p]], p)
  BY <1>6 DEF StackStep
<1> QED
  BY <1>3, <1>4, <1>7


\* A stack of programs in use: a base shell, each program called by the one
\* before it, p on top.
Chain(s, p, parent, used) ==
  /\ s \in Seq(used) /\ s # <<>> /\ s[Len(s)] = p
  /\ parent[s[1]] = 0
  /\ \A i \in 1..(Len(s) - 1) : parent[s[i + 1]] = s[i]
  /\ \A i, j \in 1..Len(s) : s[i] = s[j] => i = j

LEMMA ChainIsShort ==
  ASSUME NEW used \in SUBSET Pids, NEW s \in Seq(used),
         \A i, j \in 1..Len(s) : s[i] = s[j] => i = j
  PROVE  Len(s) <= NPids
<1>1. PICK n \in Nat : n = Len(s)
  OBVIOUS
<1>2. \A i \in 1..n : s[i] \in 1..NPids
  <2>1. \A i \in 1..Len(s) : s[i] \in used
    BY ElementOfSeq
  <2> QED
    BY <1>1, <2>1 DEF Pids
<1>3. PICK f \in [1..n -> 1..NPids] : f = [i \in 1..n |-> s[i]]
  BY <1>2
<1>4. IsFiniteSet(1..NPids) /\ Cardinality(1..NPids) = NPids
  <2>1. /\ IsFiniteSet(1..NPids)
        /\ Cardinality(1..NPids) = IF 1 > NPids THEN 0 ELSE NPids - 1 + 1
    BY FS_Interval
  <2> QED
    BY <2>1
<1>5. IsFiniteSet(1..n) /\ Cardinality(1..n) = n
  <2>1. /\ IsFiniteSet(1..n)
        /\ Cardinality(1..n) = IF 1 > n THEN 0 ELSE n - 1 + 1
    BY FS_Interval
  <2> QED
    BY <2>1
<1>6. ASSUME NPids < n PROVE FALSE
  <2>1. PICK i \in 1..n, j \in 1..n : i # j /\ f[i] = f[j]
    BY <1>4, <1>5, <1>6, FS_PigeonHole
  <2> QED
    BY <1>1, <1>3, <2>1
<1> QED
  BY <1>1, <1>6

\* What is at the bottom of a stack.
LEMMA Prefix ==
  ASSUME NEW S, NEW s \in Seq(S), NEW k \in 0..Len(s)
  PROVE  /\ SubSeq(s, 1, k) \in Seq(S) /\ Len(SubSeq(s, 1, k)) = k
         /\ \A i \in 1..k : SubSeq(s, 1, k)[i] = s[i]
<1>1. \A i \in 1..k : s[i] \in S
  BY ElementOfSeq
<1>2. /\ SubSeq(s, 1, k) \in Seq(S)
      /\ Len(SubSeq(s, 1, k)) = IF 1 <= k THEN k - 1 + 1 ELSE 0
      /\ \A i \in 1..(k - 1 + 1) : SubSeq(s, 1, k)[i] = s[1 + i - 1]
  BY <1>1, SubSeqProperties
<1>3. k - 1 + 1 = k /\ \A i \in 1..k : 1 + i - 1 = i
  OBVIOUS
<1> QED
  BY <1>2, <1>3

LEMMA PrefixGrows ==
  ASSUME NEW S, NEW s \in Seq(S), NEW k \in 0..(Len(s) - 1)
  PROVE  SubSeq(s, 1, k + 1) = Append(SubSeq(s, 1, k), s[k + 1])
<1>1. PICK r \in Seq(S) : /\ r = SubSeq(s, 1, k + 1) /\ Len(r) = k + 1
                          /\ \A j \in 1..(k + 1) : r[j] = s[j]
  <2>1. k + 1 \in 0..Len(s)
    OBVIOUS
  <2>2. /\ SubSeq(s, 1, k + 1) \in Seq(S) /\ Len(SubSeq(s, 1, k + 1)) = k + 1
        /\ \A i \in 1..(k + 1) : SubSeq(s, 1, k + 1)[i] = s[i]
    BY <2>1, Prefix
  <2> QED
    BY <2>2
<1>2. PICK q \in Seq(S) : /\ q = SubSeq(s, 1, k) /\ Len(q) = k
                          /\ \A j \in 1..k : q[j] = s[j]
  <2>1. k \in 0..Len(s)
    OBVIOUS
  <2>2. /\ SubSeq(s, 1, k) \in Seq(S) /\ Len(SubSeq(s, 1, k)) = k
        /\ \A i \in 1..k : SubSeq(s, 1, k)[i] = s[i]
    BY <2>1, Prefix
  <2> QED
    BY <2>2
<1>3. PICK e \in S : e = s[k + 1]
  <2>1. k + 1 \in 1..Len(s)
    OBVIOUS
  <2> QED
    BY <2>1, ElementOfSeq
<1>4. PICK a \in Seq(S) : /\ a = Append(q, e) /\ Len(a) = k + 1
                          /\ \A j \in 1..k : a[j] = q[j]
                          /\ a[k + 1] = e
  <2>1. /\ Append(q, e) \in Seq(S)
        /\ Len(Append(q, e)) = Len(q) + 1
        /\ \A i \in 1..Len(q) : Append(q, e)[i] = q[i]
        /\ Append(q, e)[Len(q) + 1] = e
    BY AppendProperties
  <2> QED
    BY <1>2, <2>1
<1>5. \A j \in 1..Len(r) : r[j] = a[j]
  BY <1>1, <1>2, <1>3, <1>4
<1>6. r = a
  BY <1>1, <1>4, <1>5, SeqEqual
<1> QED
  BY <1>1, <1>2, <1>3, <1>4, <1>6

\* PathTo finds it.
LEMMA ChainIsPath ==
  ASSUME NEW parent, NEW used \in SUBSET Pids, NEW s, NEW p,
         Chain(s, p, parent, used)
  PROVE  PathTo(parent)[NPids][p] = s
<1>1. /\ s \in Seq(used) /\ Len(s) \in Nat \ {0} /\ s[Len(s)] = p /\ Len(s) <= NPids
      /\ \A i \in 1..Len(s) : s[i] \in used /\ s[i] \in Pids /\ s[i] # 0
  <2>1. s \in Seq(used) /\ s # <<>> /\ s[Len(s)] = p
    BY DEF Chain
  <2>2. Len(s) <= NPids
    BY <2>1, ChainIsShort DEF Chain
  <2>3. \A i \in 1..Len(s) : s[i] \in used
    BY <2>1, ElementOfSeq
  <2>4. 0 \notin Pids
    BY DEF Pids
  <2>5. Len(s) \in Nat \ {0}
    BY <2>1
  <2> QED
    BY <2>1, <2>2, <2>3, <2>4, <2>5
<1>2. PICK path : path = PathTo(parent)
  OBVIOUS
<1>3. \A n \in PidOrNone : \A q \in Pids :
        path[n][q] = IF n = 0 \/ parent[q] = 0 THEN <<q>> ELSE Append(path[n - 1][parent[q]], q)
  BY <1>2, PathUnfolds
<1> DEFINE T == {i \in Nat : i + 1 <= Len(s) =>
                    \A n \in PidOrNone : n >= i => path[n][s[i + 1]] = SubSeq(s, 1, i + 1)}
<1>4. 0 \in T
  <2>1. SubSeq(s, 1, 1) = <<s[1]>>
    <3>1. /\ SubSeq(s, 1, 1) \in Seq(used) /\ Len(SubSeq(s, 1, 1)) = 1
          /\ SubSeq(s, 1, 1)[1] = s[1]
      BY <1>1
    <3>2. PICK r \in Seq(used) : r = SubSeq(s, 1, 1)
      BY <3>1
    <3>3. <<s[1]>> \in Seq(used) /\ Len(<<s[1]>>) = 1 /\ <<s[1]>>[1] = s[1]
      BY <1>1
    <3>4. Len(r) = Len(<<s[1]>>) /\ \A i \in 1..Len(r) : r[i] = <<s[1]>>[i]
      BY <3>1, <3>2, <3>3
    <3>5. r = <<s[1]>>
      BY <3>3, <3>4, SeqEqual
    <3> QED
      BY <3>2, <3>5
  <2>2. parent[s[1]] = 0 /\ s[1] \in Pids
    BY <1>1 DEF Chain
  <2>3. ASSUME NEW n \in PidOrNone PROVE path[n][s[1]] = <<s[1]>>
    BY <1>3, <2>2
  <2> QED
    BY <2>1, <2>3
<1>5. ASSUME NEW i \in Nat, i \in T PROVE i + 1 \in T
  <2>1. SUFFICES ASSUME i + 2 <= Len(s), NEW n \in PidOrNone, n >= i + 1
                 PROVE  path[n][s[i + 2]] = SubSeq(s, 1, i + 2)
    OBVIOUS
  <2>2. n # 0 /\ n - 1 \in PidOrNone /\ n - 1 >= i
    BY <2>1 DEF PidOrNone
  <2>3. path[n - 1][s[i + 1]] = SubSeq(s, 1, i + 1)
    BY <1>5, <2>1, <2>2
  <2>4. /\ s[i + 2] \in Pids /\ s[i + 1] # 0
        /\ parent[s[i + 2]] = s[i + 1]
    <3>1. i + 1 \in 1..(Len(s) - 1) /\ (i + 1) + 1 = i + 2 /\ i + 1 \in 1..Len(s) /\ i + 2 \in 1..Len(s)
      BY <1>1, <2>1
    <3>2. s[i + 2] \in Pids /\ s[i + 1] # 0
      BY <1>1, <3>1
    <3>3. \A k \in 1..(Len(s) - 1) : parent[s[k + 1]] = s[k]
      BY DEF Chain
    <3>4. PICK k : k = i + 1
      OBVIOUS
    <3>5. k \in 1..(Len(s) - 1) /\ k + 1 = i + 2
      BY <3>1, <3>4
    <3>6. parent[s[k + 1]] = s[k]
      BY <3>3, <3>5
    <3>7. PICK a, b : a = s[k] /\ b = s[k + 1]
      OBVIOUS
    <3>8. a = s[i + 1] /\ b = s[i + 2]
      BY <3>4, <3>5, <3>7
    <3>9. parent[b] = a
      BY <3>6, <3>7
    <3> QED
      BY <3>2, <3>8, <3>9
  <2>5. path[n][s[i + 2]] = Append(SubSeq(s, 1, i + 1), s[i + 2])
    <3>1. PICK q, r, u : q = s[i + 2] /\ r = s[i + 1] /\ u = SubSeq(s, 1, i + 1)
      OBVIOUS
    <3>2. q \in Pids /\ r # 0 /\ parent[q] = r
      BY <2>4, <3>1
    <3>3. path[n][q] = IF n = 0 \/ parent[q] = 0 THEN <<q>> ELSE Append(path[n - 1][parent[q]], q)
      BY <1>3, <3>2
    <3>4. path[n][q] = Append(path[n - 1][r], q)
      <4>1. ~ (n = 0 \/ parent[q] = 0)
        BY <2>2, <3>2
      <4>2. path[n][q] = Append(path[n - 1][parent[q]], q)
        BY <3>3, <4>1, Zenon
      <4> QED
        BY <3>2, <4>2, Zenon
    <3>5. path[n - 1][r] = u
      BY <2>3, <3>1, Zenon
    <3>6. path[n][q] = Append(u, q)
      BY <3>4, <3>5, Zenon
    <3> QED
      BY <3>1, <3>6, Zenon
  <2>6. SubSeq(s, 1, i + 2) = Append(SubSeq(s, 1, i + 1), s[i + 2])
    <3>1. PICK k \in 0..(Len(s) - 1) : k = i + 1
      BY <1>1, <2>1
    <3>2. SubSeq(s, 1, k + 1) = Append(SubSeq(s, 1, k), s[k + 1])
      BY <1>1, PrefixGrows
    <3>3. k + 1 = i + 2
      BY <3>1
    <3> QED
      BY <3>1, <3>2, <3>3
  <2> QED
    BY <2>5, <2>6
<1> HIDE DEF T
<1>6. Len(s) - 1 \in T
  BY <1>1, <1>4, <1>5, Induction
<1>7. path[NPids][s[Len(s)]] = SubSeq(s, 1, Len(s))
  <2>1. (Len(s) - 1) + 1 = Len(s) /\ NPids \in PidOrNone /\ NPids >= Len(s) - 1
    BY <1>1 DEF PidOrNone
  <2> QED
    BY <1>1, <1>6, <2>1 DEF T
<1>8. SubSeq(s, 1, Len(s)) = s
  BY <1>1
<1> QED
  BY <1>1, <1>2, <1>7, <1>8


LEMMA ChainStarts ==
  ASSUME NEW used, NEW parent, NEW n \in used, parent[n] = 0
  PROVE  Chain(<<n>>, n, parent, used)
BY DEF Chain

LEMMA ChainStays ==
  ASSUME NEW s, NEW p, NEW parent, NEW used, Chain(s, p, parent, used), NEW parent1, NEW used1,
         \A i \in 1..Len(s) : s[i] \in used1 /\ parent1[s[i]] = parent[s[i]]
  PROVE  Chain(s, p, parent1, used1)
<1>1. Len(s) \in Nat \ {0} /\ s \in Seq(used) /\ s # <<>> /\ s[Len(s)] = p
  BY DEF Chain
<1>2. s \in Seq(used1)
  <2>1. s = [i \in 1..Len(s) |-> s[i]]
    BY <1>1
  <2>2. [i \in 1..Len(s) |-> s[i]] \in Seq(used1)
    BY <1>1, IsASeq
  <2> QED
    BY <2>1, <2>2
<1>3. \A i \in 1..(Len(s) - 1) : i + 1 \in 1..Len(s) /\ parent1[s[i + 1]] = s[i]
  BY <1>1 DEF Chain
<1> QED
  BY <1>1, <1>2, <1>3 DEF Chain

LEMMA ChainGrows ==
  ASSUME NEW used \in SUBSET Pids, NEW parent \in [Pids -> PidOrNone], NEW s, NEW p,
         Chain(s, p, parent, used), NEW n \in Pids \ used
  PROVE  Chain(Append(s, n), n, [parent EXCEPT ![n] = p], used \cup {n})
<1>1. /\ s \in Seq(used) /\ s # <<>> /\ s[Len(s)] = p /\ parent[s[1]] = 0
      /\ \A i \in 1..(Len(s) - 1) : parent[s[i + 1]] = s[i]
      /\ \A i, j \in 1..Len(s) : s[i] = s[j] => i = j
  BY DEF Chain
<1>2. PICK m \in Nat \ {0} : m = Len(s)
  BY <1>1
<1>3. \A i \in 1..m : s[i] \in used /\ s[i] # n /\ s[i] \in Pids
  <2>1. \A i \in 1..Len(s) : s[i] \in used
    BY <1>1, ElementOfSeq
  <2> QED
    BY <1>2, <2>1
<1>4. PICK parent1 : /\ parent1 = [parent EXCEPT ![n] = p] /\ parent1[n] = p
                     /\ \A q \in Pids \ {n} : parent1[q] = parent[q]
  <2>1. PICK parent1 : parent1 = [parent EXCEPT ![n] = p]
    OBVIOUS
  <2>2. parent1[n] = p /\ \A q \in Pids \ {n} : parent1[q] = parent[q]
    BY <2>1
  <2> QED
    BY <2>1, <2>2
<1>5. PICK r \in Seq(used \cup {n}) : /\ r = Append(s, n) /\ Len(r) = m + 1
                                      /\ \A i \in 1..m : r[i] = s[i]
                                      /\ r[m + 1] = n
  <2>1. s \in Seq(used \cup {n})
    BY <1>1
  <2>2. /\ Append(s, n) \in Seq(used \cup {n})
        /\ Len(Append(s, n)) = Len(s) + 1
        /\ \A i \in 1..Len(s) : Append(s, n)[i] = s[i]
        /\ Append(s, n)[Len(s) + 1] = n
    BY <2>1, AppendProperties
  <2> QED
    BY <1>2, <2>2
<1>6. r # <<>> /\ r[Len(r)] = n /\ parent1[r[1]] = 0
  BY <1>1, <1>2, <1>3, <1>4, <1>5
<1>7. ASSUME NEW i \in 1..(Len(r) - 1) PROVE parent1[r[i + 1]] = r[i]
  <2>1. i \in 1..m /\ r[i] = s[i]
    BY <1>2, <1>5
  <2>2. CASE i = m
    BY <1>1, <1>2, <1>4, <1>5, <2>1, <2>2
  <2>3. CASE i # m
    <3>1. i \in 1..(m - 1) /\ i + 1 \in 1..m
      BY <1>2, <2>1, <2>3
    <3> QED
      BY <1>1, <1>2, <1>3, <1>4, <1>5, <2>1, <3>1
  <2> QED
    BY <2>2, <2>3
<1>8. ASSUME NEW i \in 1..Len(r), NEW j \in 1..Len(r), r[i] = r[j] PROVE i = j
  BY <1>1, <1>2, <1>3, <1>5, <1>8
<1>9. Chain(r, n, parent1, used \cup {n})
  BY <1>6, <1>7, <1>8 DEF Chain
<1> QED
  BY <1>4, <1>5, <1>9

LEMMA ChainShrinks ==
  ASSUME NEW used \in SUBSET Pids, NEW parent, NEW s, NEW p,
         Chain(s, p, parent, used), parent[p] # 0
  PROVE  /\ Len(s) > 1
         /\ Chain(SubSeq(s, 1, Len(s) - 1), parent[p], parent, used \ {p})
<1>1. /\ s \in Seq(used) /\ s # <<>> /\ s[Len(s)] = p /\ parent[s[1]] = 0
      /\ \A i \in 1..(Len(s) - 1) : parent[s[i + 1]] = s[i]
      /\ \A i, j \in 1..Len(s) : s[i] = s[j] => i = j
  BY DEF Chain
<1>2. PICK m \in Nat \ {0} : m = Len(s)
  BY <1>1
<1>3. m # 1
  BY <1>1, <1>2
<1>4. PICK k \in Nat \ {0} : k = m - 1 /\ m = k + 1
  BY <1>2, <1>3
<1>5. PICK r \in Seq(used) : /\ r = SubSeq(s, 1, k) /\ Len(r) = k
                             /\ \A i \in 1..k : r[i] = s[i]
  <2>1. k \in 0..Len(s)
    BY <1>2, <1>4
  <2>2. /\ SubSeq(s, 1, k) \in Seq(used) /\ Len(SubSeq(s, 1, k)) = k
        /\ \A i \in 1..k : SubSeq(s, 1, k)[i] = s[i]
    BY <1>1, <2>1, Prefix
  <2> QED
    BY <2>2
<1>6. \A i \in 1..k : r[i] \in used \ {p}
  <2>1. \A i \in 1..Len(r) : r[i] \in used
    BY <1>5, ElementOfSeq
  <2>2. ASSUME NEW i \in 1..k PROVE s[i] # p
    <3>1. i \in 1..Len(s) /\ Len(s) \in 1..Len(s) /\ i # Len(s)
      BY <1>2, <1>4
    <3> QED
      BY <1>1, <3>1
  <2> QED
    BY <1>5, <2>1, <2>2
<1>7. r \in Seq(used \ {p})
  <2>1. r = [i \in 1..Len(r) |-> r[i]]
    BY <1>5
  <2>2. [i \in 1..Len(r) |-> r[i]] \in Seq(used \ {p})
    BY <1>5, <1>6, IsASeq
  <2> QED
    BY <2>1, <2>2
<1>8. parent[p] = r[k]
  <2>1. k \in 1..(Len(s) - 1) /\ k + 1 = Len(s)
    BY <1>2, <1>4
  <2> QED
    BY <1>1, <1>5, <2>1
<1>9. \A i \in 1..(Len(r) - 1) : parent[r[i + 1]] = r[i]
  <2>1. ASSUME NEW i \in 1..(Len(r) - 1) PROVE parent[r[i + 1]] = r[i]
    <3>1. i \in 1..(Len(s) - 1) /\ i \in 1..k /\ i + 1 \in 1..k
      BY <1>2, <1>4, <1>5
    <3> QED
      BY <1>1, <1>5, <3>1
  <2> QED
    BY <2>1
<1>10. \A i, j \in 1..Len(r) : r[i] = r[j] => i = j
  BY <1>1, <1>2, <1>4, <1>5
<1>11. r # <<>> /\ r[Len(r)] = parent[p] /\ parent[r[1]] = 0
  <2>1. 1 \in 1..k /\ Len(r) = k
    BY <1>5
  <2>2. r[1] = s[1] /\ r # <<>>
    BY <1>5, <2>1
  <2> QED
    BY <1>1, <1>8, <2>1, <2>2
<1>12. Chain(r, parent[p], parent, used \ {p})
  BY <1>7, <1>9, <1>10, <1>11 DEF Chain
<1> QED
  BY <1>2, <1>3, <1>4, <1>5, <1>12

-----------------------------------------------------------------------------
(* The stacks of all terminals.                                            *)

StackFor(leaf, parent) ==
  [t \in Terminals |-> IF leaf[t] = 0 THEN <<>> ELSE PathTo(parent)[NPids][leaf[t]]]

Stacked(stacks, leaf, parent, used, shells) ==
  /\ stacks = [t \in Terminals |-> stacks[t]]
  /\ \A t \in shells : Chain(stacks[t], leaf[t], parent, used)
  /\ \A t \in Terminals \ shells : leaf[t] = 0 /\ stacks[t] = <<>>

StacksInv ==
  \E stacks : Stacked(stacks, cur_term_pid, parent_pid, InUse, WithShell)

LEMMA StackedIsStackFor ==
  ASSUME NEW leaf, NEW parent, NEW used \in SUBSET Pids, NEW shells \in SUBSET Terminals,
         NEW stacks, Stacked(stacks, leaf, parent, used, shells)
  PROVE  StackFor(leaf, parent) = stacks
<1>1. ASSUME NEW t \in Terminals
      PROVE  StackFor(leaf, parent)[t] = stacks[t]
  <2>1. CASE t \in shells
    <3>1. Chain(stacks[t], leaf[t], parent, used)
      BY <2>1 DEF Stacked
    <3>2. leaf[t] # 0
      <4>1. stacks[t] \in Seq(used) /\ stacks[t] # <<>> /\ stacks[t][Len(stacks[t])] = leaf[t]
        BY <3>1 DEF Chain
      <4>2. \A i \in 1..Len(stacks[t]) : stacks[t][i] \in used
        BY <4>1, ElementOfSeq
      <4>3. leaf[t] \in used
        BY <4>1, <4>2
      <4> QED
        BY <4>3 DEF Pids
    <3>3. PathTo(parent)[NPids][leaf[t]] = stacks[t]
      BY <3>1, ChainIsPath
    <3> QED
      BY <3>2, <3>3 DEF StackFor
  <2>2. CASE t \notin shells
    BY <2>2 DEF Stacked, StackFor
  <2> QED
    BY <2>1, <2>2
<1>2. StackFor(leaf, parent) = [t \in Terminals |-> StackFor(leaf, parent)[t]]
  BY DEF StackFor
<1>3. stacks = [t \in Terminals |-> stacks[t]]
  BY DEF Stacked
<1> QED
  BY <1>1, <1>2, <1>3

LEMMA StackedBoots ==
  ASSUME NEW leaf \in [Terminals -> PidOrNone], NEW parent \in [Pids -> PidOrNone],
         NEW used \in SUBSET Pids, NEW shells \in SUBSET Terminals,
         NEW stacks, Stacked(stacks, leaf, parent, used, shells),
         NEW t \in Terminals \ shells, NEW n \in Pids \ used
  PROVE  Stacked([stacks EXCEPT ![t] = <<n>>], [leaf EXCEPT ![t] = n],
                 [parent EXCEPT ![n] = 0], used \cup {n}, shells \cup {t})
<1>1. PICK stacks1 : stacks1 = [stacks EXCEPT ![t] = <<n>>]
  OBVIOUS
<1>2. PICK leaf1 : leaf1 = [leaf EXCEPT ![t] = n]
  OBVIOUS
<1>3. PICK parent1 : parent1 = [parent EXCEPT ![n] = 0]
  OBVIOUS
<1>4. PICK used1 : used1 = used \cup {n}
  OBVIOUS
<1>5. /\ stacks1 = [u \in Terminals |-> stacks1[u]]
      /\ stacks1[t] = <<n>> /\ \A u \in Terminals \ {t} : stacks1[u] = stacks[u]
  <2>1. stacks = [u \in Terminals |-> stacks[u]]
    BY DEF Stacked
  <2> QED
    BY <1>1, <2>1
<1>6. leaf1[t] = n /\ \A u \in Terminals \ {t} : leaf1[u] = leaf[u]
  BY <1>2
<1>7. parent1[n] = 0 /\ \A q \in Pids \ {n} : parent1[q] = parent[q]
  BY <1>3
<1>8. Chain(<<n>>, n, parent1, used1)
  BY <1>4, <1>7, ChainStarts
<1>9. ASSUME NEW u \in shells PROVE Chain(stacks1[u], leaf1[u], parent1, used1)
  <2>1. u # t /\ u \in Terminals
    OBVIOUS
  <2>2. PICK s : s = stacks[u]
    OBVIOUS
  <2>3. Chain(s, leaf[u], parent, used)
    BY <2>2 DEF Stacked
  <2>4. \A i \in 1..Len(s) : s[i] \in used1 /\ parent1[s[i]] = parent[s[i]]
    <3>1. s \in Seq(used)
      BY <2>3 DEF Chain
    <3>2. \A i \in 1..Len(s) : s[i] \in used
      BY <3>1, ElementOfSeq
    <3> QED
      BY <1>4, <1>7, <3>2
  <2>5. Chain(s, leaf[u], parent1, used1)
    BY <2>3, <2>4, ChainStays
  <2> QED
    BY <1>5, <1>6, <2>1, <2>2, <2>5
<1>10. \A u \in Terminals \ (shells \cup {t}) : leaf1[u] = 0 /\ stacks1[u] = <<>>
  BY <1>5, <1>6 DEF Stacked
<1>11. \A u \in shells \cup {t} : Chain(stacks1[u], leaf1[u], parent1, used1)
  <2>1. Chain(stacks1[t], leaf1[t], parent1, used1)
    BY <1>5, <1>6, <1>8
  <2> QED
    BY <1>9, <2>1
<1>12. Stacked(stacks1, leaf1, parent1, used1, shells \cup {t})
  BY <1>5, <1>10, <1>11 DEF Stacked
<1> QED
  BY <1>1, <1>2, <1>3, <1>4, <1>12

LEMMA StackedGrows ==
  ASSUME NEW leaf \in [Terminals -> PidOrNone], NEW parent \in [Pids -> PidOrNone],
         NEW used \in SUBSET Pids, NEW shells \in SUBSET Terminals,
         NEW stacks, Stacked(stacks, leaf, parent, used, shells),
         NEW t \in shells, NEW n \in Pids \ used
  PROVE  Stacked([stacks EXCEPT ![t] = Append(stacks[t], n)], [leaf EXCEPT ![t] = n],
                 [parent EXCEPT ![n] = leaf[t]], used \cup {n}, shells)
<1>1. PICK longer : longer = Append(stacks[t], n)
  OBVIOUS
<1>2. PICK stacks1 : stacks1 = [stacks EXCEPT ![t] = longer]
  OBVIOUS
<1>3. PICK leaf1 : leaf1 = [leaf EXCEPT ![t] = n]
  OBVIOUS
<1>4. PICK parent1 : parent1 = [parent EXCEPT ![n] = leaf[t]]
  OBVIOUS
<1>5. PICK used1 : used1 = used \cup {n}
  OBVIOUS
<1>6. /\ stacks1 = [u \in Terminals |-> stacks1[u]]
      /\ stacks1[t] = longer /\ \A u \in Terminals \ {t} : stacks1[u] = stacks[u]
  <2>1. stacks = [u \in Terminals |-> stacks[u]] /\ t \in Terminals
    BY DEF Stacked
  <2> QED
    BY <1>2, <2>1
<1>7. leaf1[t] = n /\ \A u \in Terminals \ {t} : leaf1[u] = leaf[u]
  BY <1>3
<1>8. \A q \in Pids \ {n} : parent1[q] = parent[q]
  BY <1>4
<1>9. Chain(longer, n, parent1, used1)
  <2>1. Chain(stacks[t], leaf[t], parent, used)
    BY DEF Stacked
  <2>2. Chain(Append(stacks[t], n), n, [parent EXCEPT ![n] = leaf[t]], used \cup {n})
    BY <2>1, ChainGrows
  <2> QED
    BY <1>1, <1>4, <1>5, <2>2
<1>10. ASSUME NEW u \in shells, u # t PROVE Chain(stacks1[u], leaf1[u], parent1, used1)
  <2>1. u \in Terminals
    OBVIOUS
  <2>2. PICK s : s = stacks[u]
    OBVIOUS
  <2>3. Chain(s, leaf[u], parent, used)
    BY <2>2 DEF Stacked
  <2>4. \A i \in 1..Len(s) : s[i] \in used1 /\ parent1[s[i]] = parent[s[i]]
    <3>1. s \in Seq(used)
      BY <2>3 DEF Chain
    <3>2. \A i \in 1..Len(s) : s[i] \in used
      BY <3>1, ElementOfSeq
    <3> QED
      BY <1>5, <1>8, <3>2
  <2>5. Chain(s, leaf[u], parent1, used1)
    BY <2>3, <2>4, ChainStays
  <2> QED
    BY <1>6, <1>7, <1>10, <2>1, <2>2, <2>5
<1>11. \A u \in Terminals \ shells : leaf1[u] = 0 /\ stacks1[u] = <<>>
  BY <1>6, <1>7 DEF Stacked
<1>12. Stacked(stacks1, leaf1, parent1, used1, shells)
  BY <1>6, <1>7, <1>9, <1>10, <1>11 DEF Stacked
<1> QED
  BY <1>1, <1>2, <1>3, <1>4, <1>5, <1>12

Popped(stacks, t) == [stacks EXCEPT ![t] = SubSeq(stacks[t], 1, Len(stacks[t]) - 1)]

\* Only terminal t has p on its stack: on top.
OnlyOn(p, t, leaf, parent, used, shells) ==
  (\A q \in used : parent[q] # p) /\ (\A u \in shells \ {t} : leaf[u] # p)

LEMMA StackedShrinks ==
  ASSUME NEW leaf \in [Terminals -> PidOrNone], NEW parent \in [Pids -> PidOrNone],
         NEW used \in SUBSET Pids, NEW shells \in SUBSET Terminals,
         NEW stacks, Stacked(stacks, leaf, parent, used, shells),
         NEW t \in shells, NEW p \in Pids, leaf[t] = p, parent[p] # 0,
         OnlyOn(p, t, leaf, parent, used, shells)
  PROVE  /\ Len(stacks[t]) > 1
         /\ Stacked(Popped(stacks, t), [leaf EXCEPT ![t] = parent[p]], parent, used \ {p},
                    shells)
<1>1. PICK shorter : shorter = SubSeq(stacks[t], 1, Len(stacks[t]) - 1)
  OBVIOUS
<1>2. PICK stacks1 : stacks1 = [stacks EXCEPT ![t] = shorter]
  OBVIOUS
<1>3. PICK leaf1 : leaf1 = [leaf EXCEPT ![t] = parent[p]]
  OBVIOUS
<1>4. PICK used1 : used1 = used \ {p}
  OBVIOUS
<1>5. /\ stacks1 = [u \in Terminals |-> stacks1[u]]
      /\ stacks1[t] = shorter /\ \A u \in Terminals \ {t} : stacks1[u] = stacks[u]
  <2>1. stacks = [u \in Terminals |-> stacks[u]] /\ t \in Terminals
    BY DEF Stacked
  <2> QED
    BY <1>2, <2>1
<1>6. leaf1[t] = parent[p] /\ \A u \in Terminals \ {t} : leaf1[u] = leaf[u]
  BY <1>3
<1>7. Len(stacks[t]) > 1 /\ Chain(shorter, parent[p], parent, used1)
  <2>1. Chain(stacks[t], p, parent, used)
    BY DEF Stacked
  <2>2. /\ Len(stacks[t]) > 1
        /\ Chain(SubSeq(stacks[t], 1, Len(stacks[t]) - 1), parent[p], parent, used \ {p})
    BY <2>1, ChainShrinks
  <2> QED
    BY <1>1, <1>4, <2>2
<1>8. ASSUME NEW u \in shells, u # t PROVE Chain(stacks1[u], leaf1[u], parent, used1)
  <2>1. u \in Terminals
    OBVIOUS
  <2>2. PICK s : s = stacks[u]
    OBVIOUS
  <2>3. Chain(s, leaf[u], parent, used)
    BY <2>2 DEF Stacked
  <2>4. ASSUME NEW i \in 1..Len(s) PROVE s[i] \in used1 /\ parent[s[i]] = parent[s[i]]
    <3>1. s \in Seq(used) /\ s[Len(s)] = leaf[u]
      BY <2>3 DEF Chain
    <3>2. \A j \in 1..Len(s) : s[j] \in used
      BY <3>1, ElementOfSeq
    <3>3. s[i] # p
      <4>1. CASE i = Len(s)
        BY <1>8, <3>1, <4>1 DEF OnlyOn
      <4>2. CASE i # Len(s)
        <5>1. i \in 1..(Len(s) - 1) /\ i + 1 \in 1..Len(s)
          BY <3>1, <4>2
        <5>2. parent[s[i + 1]] = s[i] /\ s[i + 1] \in used
          BY <2>3, <3>2, <5>1 DEF Chain
        <5> QED
          BY <5>2 DEF OnlyOn
      <4> QED
        BY <4>1, <4>2
    <3> QED
      BY <1>4, <3>2, <3>3
  <2>5. Chain(s, leaf[u], parent, used1)
    BY <2>3, <2>4, ChainStays
  <2> QED
    BY <1>5, <1>6, <1>8, <2>1, <2>2, <2>5
<1>9. \A u \in Terminals \ shells : leaf1[u] = 0 /\ stacks1[u] = <<>>
  BY <1>5, <1>6 DEF Stacked
<1>10. Stacked(stacks1, leaf1, parent, used1, shells)
  BY <1>5, <1>6, <1>7, <1>8, <1>9 DEF Stacked
<1> QED
  BY <1>1, <1>2, <1>3, <1>4, <1>7, <1>10 DEF Popped

\* StackOf is the same, of the records and the parents.
LEMMA StackOfIsStackFor ==
  /\ StackOf = StackFor(cur_term_pid, parent_pid)
  /\ StackOf' = StackFor(cur_term_pid', parent_pid')
BY Zenon DEF StackOf, StackFor

\* The stacks of TerminalStacks hold the programs in use, and no others.
LEMMA StackedUses ==
  ASSUME NEW leaf, NEW parent, NEW used, NEW shells \in SUBSET Terminals, NEW stacks,
         Stacked(stacks, leaf, parent, used, shells), stacks = StackOf
  PROVE  Stacks!InUse \subseteq used
<1>1. ASSUME NEW t \in Terminals PROVE Stacks!ToSet(stacks[t]) \subseteq used
  <2>1. CASE t \in shells
    <3>1. stacks[t] \in Seq(used)
      BY <2>1 DEF Stacked, Chain
    <3>2. \A i \in 1..Len(stacks[t]) : stacks[t][i] \in used
      BY <3>1, ElementOfSeq
    <3>3. DOMAIN stacks[t] = 1..Len(stacks[t])
      BY <3>1, LenProperties
    <3> QED
      BY <3>2, <3>3 DEF Stacks!ToSet
  <2>2. CASE t \notin shells
    <3>1. stacks[t] = <<>> /\ DOMAIN <<>> = {}
      BY <2>2 DEF Stacked
    <3> QED
      BY <3>1 DEF Stacks!ToSet
  <2> QED
    BY <2>1, <2>2
<1>2. Stacks!InUse = UNION {Stacks!ToSet(stacks[t]) : t \in Terminals}
  BY DEF Stacks!InUse
<1> QED
  BY <1>1, <1>2

LEMMA StacksNextTerminal ==
  Stacks!NextTerminal = NextTerminal
<1>1. NTerminals - 1 \in Terminals /\ \A u \in Terminals : u <= NTerminals - 1
  BY DEF Terminals
<1>2. \A t \in Terminals : (\A u \in Terminals : u <= t) => t = NTerminals - 1
  BY <1>1 DEF Terminals
<1>3. (CHOOSE t \in Terminals : \A u \in Terminals : u <= t) = NTerminals - 1
  BY <1>1, <1>2
<1>4. 1 + (NTerminals - 1) = NTerminals
  OBVIOUS
<1> QED
  BY <1>3, <1>4 DEF Stacks!NextTerminal, NextTerminal

LEMMA StacksFacts ==
  ASSUME Inv
  PROVE  /\ InUse \in SUBSET Pids /\ WithShell \in SUBSET Terminals
         /\ cur_term_pid \in [Terminals -> PidOrNone] /\ parent_pid \in [Pids -> PidOrNone]
<1>1. cur_term_pid \in [Terminals -> PidOrNone] /\ parent_pid \in [Pids -> PidOrNone]
  BY DEF Inv, TypeInv
<1>2. WithShell \in SUBSET Terminals
  BY DEF WithShell
<1>3. InUse \in SUBSET Pids
  <2>1. CASE pc = "idle"
    BY <2>1 DEF InUse
  <2>2. CASE pc # "idle"
    BY <2>2, RunningLeaf
  <2> QED
    BY <2>1, <2>2
<1> QED
  BY <1>1, <1>2, <1>3

LEMMA BootIsBoot ==
  ASSUME Inv, StacksInv, TimerIsOrderly, TickBoot
  PROVE  StacksInv' /\ Stacks!Boot
<1>1. PICK next \in Terminals, n \in Pids, s \in Pids, on \in KernelStacks :
        /\ next = NextTerminal /\ next \notin WithShell
        /\ n \notin InUse
        /\ scheduled' = next
        /\ parent_pid' = [parent_pid EXCEPT ![n] = 0]
        /\ cur_term_pid' = [cur_term_pid EXCEPT ![next] = n]
        /\ answer' = answer
        /\ WithShell' = WithShell \cup {next} /\ InUse' = InUse \cup {n}
  BY BootStarts
<1>2. PICK stacks : Stacked(stacks, cur_term_pid, parent_pid, InUse, WithShell)
  BY DEF StacksInv
<1>3. /\ InUse \in SUBSET Pids /\ WithShell \in SUBSET Terminals
      /\ cur_term_pid \in [Terminals -> PidOrNone] /\ parent_pid \in [Pids -> PidOrNone]
  BY StacksFacts
<1>4. StackOf = stacks
  BY <1>2, <1>3, StackedIsStackFor, StackOfIsStackFor
<1>5. PICK stacks1 : stacks1 = [stacks EXCEPT ![next] = <<n>>]
  OBVIOUS
<1>6. Stacked(stacks1, cur_term_pid', parent_pid', InUse', WithShell')
  BY <1>1, <1>2, <1>3, <1>5, StackedBoots
<1>7. InUse' \in SUBSET Pids /\ WithShell' \in SUBSET Terminals
  BY <1>1, <1>3
<1>8. StackOf' = stacks1
  BY <1>6, <1>7, StackedIsStackFor, StackOfIsStackFor
<1>9. stacks[next] = <<>> /\ n \notin Stacks!InUse
  <2>1. Stacks!InUse \subseteq InUse
    BY <1>2, <1>3, <1>4, StackedUses
  <2>2. stacks[next] = <<>>
    BY <1>1, <1>2 DEF Stacked
  <2> QED
    BY <1>1, <2>1, <2>2
<1>10. Stacks!Boot
  <2>1. Stacks!NextTerminal = next
    BY <1>1, StacksNextTerminal
  <2> QED
    BY <1>1, <1>4, <1>5, <1>8, <1>9, <2>1 DEF Stacks!Boot
<1> QED
  BY <1>6, <1>10 DEF StacksInv

LEMMA ExecuteIsCall ==
  ASSUME Inv, StacksInv, NEW file, Execute(file)
  PROVE  StacksInv' /\ Stacks!Call
<1>1. PICK caller \in Pids, n \in Pids :
        /\ caller = current_pid /\ n \notin InUse
        /\ parent_pid' = [parent_pid EXCEPT ![n] = caller]
        /\ cur_term_pid' = [cur_term_pid EXCEPT ![scheduled] = n]
        /\ UNCHANGED <<scheduled, answer>>
        /\ WithShell' = WithShell /\ InUse' = InUse \cup {n}
  BY ExecuteStarts
<1>2. PICK stacks : Stacked(stacks, cur_term_pid, parent_pid, InUse, WithShell)
  BY DEF StacksInv
<1>3. /\ InUse \in SUBSET Pids /\ WithShell \in SUBSET Terminals
      /\ cur_term_pid \in [Terminals -> PidOrNone] /\ parent_pid \in [Pids -> PidOrNone]
  BY StacksFacts
<1>4. StackOf = stacks
  BY <1>2, <1>3, StackedIsStackFor, StackOfIsStackFor
<1>5. scheduled \in WithShell /\ caller = cur_term_pid[scheduled]
  <2>1. pc # "idle"
    BY DEF Execute, Calls
  <2> QED
    BY <1>1, <2>1, RunningLeaf
<1>6. PICK stacks1 : stacks1 = [stacks EXCEPT ![scheduled] = Append(stacks[scheduled], n)]
  OBVIOUS
<1>7. Stacked(stacks1, cur_term_pid', parent_pid', InUse', WithShell')
  BY <1>1, <1>2, <1>3, <1>5, <1>6, StackedGrows
<1>8. InUse' \in SUBSET Pids /\ WithShell' \in SUBSET Terminals
  BY <1>1, <1>3
<1>9. StackOf' = stacks1
  BY <1>7, <1>8, StackedIsStackFor, StackOfIsStackFor
<1>10. stacks[scheduled] # <<>> /\ n \notin Stacks!InUse
  <2>1. Stacks!InUse \subseteq InUse
    BY <1>2, <1>3, <1>4, StackedUses
  <2>2. stacks[scheduled] # <<>>
    BY <1>2, <1>5 DEF Stacked, Chain
  <2> QED
    BY <1>1, <2>1, <2>2
<1>11. Stacks!Call
  BY <1>1, <1>4, <1>6, <1>9, <1>10 DEF Stacks!Call
<1> QED
  BY <1>7, <1>11 DEF StacksInv

LEMMA HaltIsReturn ==
  ASSUME Inv, StacksInv, Halt
  PROVE  StacksInv' /\ Stacks!Return
<1>1. pc # "idle" /\ parent_pid[current_pid] # 0
  BY DEF Halt, Calls
<1>2. PICK p \in Pids : /\ p = current_pid /\ p \in InUse /\ p = cur_term_pid[scheduled]
                        /\ \A r \in InUse : parent_pid[r] # p
  BY <1>1, RunningLeaf
<1>3. scheduled \in WithShell /\ \A u \in WithShell \ {scheduled} : cur_term_pid[u] # p
  BY <1>1, <1>2, RunningLeaf, WaitingApart
<1>4. PICK q : q = parent_pid[p] /\ q # 0
  BY <1>1, <1>2
<1>5. /\ parent_pid' = parent_pid /\ scheduled' = scheduled
      /\ cur_term_pid' = [cur_term_pid EXCEPT ![scheduled] = q]
      /\ answer' = [to |-> q, value |-> 0, cause |-> "halt"]
      /\ InUse' = InUse \ {p} /\ WithShell' = WithShell
  BY <1>2, <1>4, HaltKeeps DEF Halt
<1>6. PICK stacks : Stacked(stacks, cur_term_pid, parent_pid, InUse, WithShell)
  BY DEF StacksInv
<1>7. /\ InUse \in SUBSET Pids /\ WithShell \in SUBSET Terminals
      /\ cur_term_pid \in [Terminals -> PidOrNone] /\ parent_pid \in [Pids -> PidOrNone]
  BY StacksFacts
<1>8. StackOf = stacks
  BY <1>6, <1>7, StackedIsStackFor, StackOfIsStackFor
<1>9. PICK stacks1 : stacks1 = Popped(stacks, scheduled)
  OBVIOUS
<1>10. /\ Len(stacks[scheduled]) > 1
       /\ Stacked(stacks1, cur_term_pid', parent_pid', InUse', WithShell')
  <2>0. cur_term_pid[scheduled] = p /\ parent_pid[p] # 0
    BY <1>2, <1>4
  <2>1. OnlyOn(p, scheduled, cur_term_pid, parent_pid, InUse, WithShell)
    BY <1>2, <1>3 DEF OnlyOn
  <2>2. /\ Len(stacks[scheduled]) > 1
        /\ Stacked(Popped(stacks, scheduled), [cur_term_pid EXCEPT ![scheduled] = parent_pid[p]],
                   parent_pid, InUse \ {p}, WithShell)
    BY <1>3, <1>6, <1>7, <2>0, <2>1, StackedShrinks
  <2>3. cur_term_pid' = [cur_term_pid EXCEPT ![scheduled] = parent_pid[p]]
    BY <1>4, <1>5
  <2>4. parent_pid' = parent_pid /\ InUse' = InUse \ {p} /\ WithShell' = WithShell
    BY <1>5
  <2> QED
    BY <1>9, <2>2, <2>3, <2>4, Zenon
<1>11. StackOf' = stacks1
  <2>1. InUse' \in SUBSET Pids /\ WithShell' \in SUBSET Terminals
    BY <1>5, <1>7
  <2> QED
    BY <1>10, <2>1, StackedIsStackFor, StackOfIsStackFor
<1>12. stacks1[scheduled][Len(stacks1[scheduled])] = q
  <2>1. Chain(stacks1[scheduled], cur_term_pid'[scheduled], parent_pid', InUse')
    BY <1>3, <1>5, <1>10 DEF Stacked
  <2>2. cur_term_pid'[scheduled] = q
    BY <1>3, <1>5, <1>7
  <2> QED
    BY <2>1, <2>2 DEF Chain
<1>13. Stacks!Return
  BY <1>5, <1>8, <1>9, <1>10, <1>11, <1>12 DEF Popped, Stacks!Return, Stacks!Front, Stacks!Last
<1> QED
  BY <1>10, <1>13 DEF StacksInv

\* Switches, launches, returns and restarts leave every stack alone.
LEMMA SameStacks ==
  ASSUME StacksInv, SamePrograms
  PROVE  StacksInv' /\ StackOf' = StackOf
<1>1. PICK stacks : Stacked(stacks, cur_term_pid, parent_pid, InUse, WithShell)
  BY DEF StacksInv
<1>2. Stacked(stacks, cur_term_pid', parent_pid', InUse', WithShell')
  BY <1>1 DEF SamePrograms
<1>3. StackOf' = StackOf
  BY StackOfIsStackFor DEF SamePrograms
<1> QED
  BY <1>2, <1>3 DEF StacksInv

LEMMA SwitchIsRotate ==
  ASSUME Inv, StacksInv, TimerIsOrderly, TickSwitch
  PROVE  StacksInv' /\ Stacks!Rotate
<1>1. StacksInv' /\ StackOf' = StackOf
  BY SwitchKeeps, SameStacks
<1>2. PICK next : next = NextTerminal /\ shell_exists[next] /\ scheduled' = next /\ answer' = answer
  BY DEF TickSwitch
<1>3. next \in WithShell
  <2>1. next \in Terminals
    BY <1>2, NextTerminalIsTerminal DEF Inv, TypeInv
  <2> QED
    BY <1>2, <2>1 DEF WithShell
<1>4. StackOf[next] # <<>>
  <2>1. PICK stacks : Stacked(stacks, cur_term_pid, parent_pid, InUse, WithShell)
    BY DEF StacksInv
  <2>2. StackOf = stacks
    BY <2>1, StacksFacts, StackedIsStackFor, StackOfIsStackFor
  <2> QED
    BY <1>3, <2>1, <2>2 DEF Stacked, Chain
<1>5. Stacks!NextTerminal = next
  BY <1>2, StacksNextTerminal
<1> QED
  BY <1>1, <1>2, <1>4, <1>5 DEF Stacks!Rotate

LEMMA OthersStutter ==
  ASSUME Inv, StacksInv, Launch \/ HaltReturns \/ Restart \/ RestartExecutes
  PROVE  StacksInv' /\ UNCHANGED Stacks!vars
<1>1. SamePrograms
  BY LaunchKeeps, HaltReturnsKeeps, RestartKeeps, RestartExecutesKeeps
<1>2. scheduled' = scheduled /\ answer' = answer
  BY DEF Launch, HaltReturns, Restart, RestartExecutes
<1> QED
  BY <1>1, <1>2, SameStacks DEF Stacks!vars

LEMMA StacksStep ==
  ASSUME Inv, StacksInv, TimerIsOrderly, [Next]_vars
  PROVE  StacksInv' /\ [Stacks!Next]_(Stacks!vars)
<1>1. CASE UNCHANGED vars
  <2>1. SamePrograms
    BY <1>1 DEF vars, SamePrograms, InUse, WithShell
  <2>2. scheduled' = scheduled /\ answer' = answer
    BY <1>1 DEF vars
  <2> QED
    BY <2>1, <2>2, SameStacks DEF Stacks!vars
<1>2. CASE TickBoot
  BY <1>2, BootIsBoot DEF Stacks!Next
<1>3. CASE TickSwitch
  BY <1>3, SwitchIsRotate DEF Stacks!Next
<1>4. ASSUME NEW file, Execute(file) PROVE StacksInv' /\ Stacks!Call
  BY <1>4, ExecuteIsCall
<1>5. CASE Halt
  BY <1>5, HaltIsReturn DEF Stacks!Next
<1>6. CASE Launch \/ HaltReturns \/ Restart \/ RestartExecutes
  BY <1>6, OthersStutter
<1> QED
  BY <1>1, <1>2, <1>3, <1>4, <1>5, <1>6 DEF Next, Tick, Stacks!Next

LEMMA StacksStart ==
  ASSUME Init
  PROVE  StacksInv /\ Stacks!Init
<1>1. cur_term_pid = [t \in Terminals |-> 0] /\ WithShell = {}
  BY DEF Init, WithShell
<1>2. PICK stacks : stacks = [t \in Terminals |-> <<>>]
  OBVIOUS
<1>3. Stacked(stacks, cur_term_pid, parent_pid, InUse, WithShell)
  BY <1>1, <1>2 DEF Stacked
<1>4. StackOf = stacks
  BY <1>1, <1>2 DEF StackOf
<1>5. (CHOOSE t \in Terminals : \A u \in Terminals : u <= t) = NTerminals - 1
  <2>1. NTerminals - 1 \in Terminals /\ \A u \in Terminals : u <= NTerminals - 1
    BY DEF Terminals
  <2>2. \A t \in Terminals : (\A u \in Terminals : u <= t) => t = NTerminals - 1
    BY <2>1 DEF Terminals
  <2> QED
    BY <2>1, <2>2
<1>6. Stacks!Init
  BY <1>2, <1>4, <1>5 DEF Init, Stacks!Init
<1> QED
  BY <1>3, <1>6 DEF StacksInv

\* Through the windows the timer finds open, the terminals remain the stacks of
\* programs TerminalStacks describes: a boot tick starts a shell where there is
\* none, execute pushes, halt pops and answers the program below, every other
\* tick passes the processor on to the next terminal's top, and the windows of
\* execute, halt and restarts show nothing of themselves.
THEOREM StacksImplemented ==
  ASSUME TimerIsOrderly
  PROVE  Spec => Stacks!Init /\ [][Stacks!Next]_(Stacks!vars)
<1>1. Init => StacksInv /\ Stacks!Init
  BY StacksStart
<1>2. Inv /\ StacksInv /\ [Next]_vars => StacksInv' /\ [Stacks!Next]_(Stacks!vars)
  BY StacksStep
<1>3. Spec => []Inv
  BY InvHolds
<1> QED
  BY <1>1, <1>2, <1>3, PTL DEF Spec
=============================================================================
