-------------------------------- MODULE Regions --------------------------------
(***************************************************************************)
(* Allocation regions, `region { B }', of one program compiled for either  *)
(* backend: syscalls 141 and 142 of the T3 emulator (syscall_proc.rs), or  *)
(* __region_push and __region_pop of the C runtime (core.c).  Both keep    *)
(* one stack of marks for all tasks.  A mark is a length of the arena:     *)
(* every cell the bump pointer has passed on T3, the tracked pointers in C.*)
(*                                                                         *)
(* A task may yield between any two of its operations, so tasks interleave *)
(* freely.  What a program may hold follows the borrow checker: a cell     *)
(* dies with the innermost region it was allocated in (rule 3), and a      *)
(* `return' leaves no region (rule 1), but `?' may.                        *)
(***************************************************************************)
EXTENDS Integers, Sequences, FiniteSets

CONSTANTS Tasks, Main,
          Cells,           \* allocations a program makes: 1..n, in their order
          MaxDepth,        \* bound: open regions of one task
          MaxMarks,        \* bound: marks on the stack
          ReallocMayFail   \* C: may realloc return NULL?

ASSUME RegionsAssumption ==
  /\ Main \in Tasks /\ "nobody" \notin Tasks /\ Cells \subseteq Nat
  /\ MaxDepth \in Nat /\ MaxMarks \in Nat
  /\ ReallocMayFail \in BOOLEAN

VARIABLES impl,    \* "t3" or "c"
          marks,   \* region_marks; manit_region_marks
          arena,   \* the cells below heap_ptr; manit_region_ptrs
          lost,    \* the cells whose memory has been given back
          trap,    \* "region_pop with no open region"
          state,   \* per task: "none", "alive" or "done"
          open,    \* per task, the regions it is inside of
          handle,  \* per task, who can await it: a task and a depth, or Nobody
          made,    \* the cells allocated so far
          held,    \* who can reach a cell: <<cell, task, depth of its region>>
          lone,    \* history: was every region opened by the only task there was?
          unmarked \* history: was a region opened without a mark while there was a mark on the stack?

memory == <<marks, arena, lost, trap>>
history == <<lone, unmarked>>
vars == <<impl, memory, state, open, handle, made, held, history>>

Nobody == <<"nobody", 0>>

-----------------------------------------------------------------------------

Elems(s) == {s[i] : i \in DOMAIN s}
Alive == {t \in Tasks : state[t] = "alive"}
Holds(t, d) == {h \in held : h[2] = t /\ h[3] >= d}

\* live_task_count.  The C count starts at 1 for main and never gives it back.
LiveTasks == IF impl = "t3" THEN Cardinality(Alive)
             ELSE Cardinality(Alive \ {Main}) + 1

\* Mutant of MayReclaim: the other tasks are not asked about.
MayReclaimAlways == TRUE
MayReclaim == LiveTasks <= 1

\* The tasks whose handle t has at depth d or deeper.
Awaitable(t, d) == {u \in Tasks : handle[u][1] = t /\ handle[u][2] >= d}

\* t loses its bindings at depth d or deeper, handles among them; a finished
\* task whose handle is gone holds its value for nobody.
DropHandles(t, d) ==
  handle' = [u \in Tasks |-> IF u \in Awaitable(t, d) THEN Nobody ELSE handle[u]]
Dropped(t, d) ==
  Holds(t, d) \cup UNION {Holds(u, 0) : u \in {v \in Awaitable(t, d) :
                                                state[v] = "done"}}

Init ==
  /\ impl \in {"t3", "c"}
  /\ marks = <<>> /\ arena = <<>> /\ lost = {} /\ trap = FALSE
  /\ state = [t \in Tasks |-> IF t = Main THEN "alive" ELSE "none"]
  /\ open = [t \in Tasks |-> 0]
  /\ handle = [t \in Tasks |-> Nobody]
  /\ made = {} /\ held = {}
  /\ lone = TRUE /\ unmarked = FALSE

-----------------------------------------------------------------------------
(* The two runtimes.                                                       *)

\* heap_reserve
AllocT3(c) == arena' = Append(arena, c)

\* manit_alloc: outside every region a pointer is not tracked; nor is it when
\* the list cannot grow.
AllocC(c) ==
  \/ marks = <<>> /\ UNCHANGED arena
  \/ marks # <<>> /\ arena' = Append(arena, c)
  \/ marks # <<>> /\ ReallocMayFail /\ UNCHANGED arena

\* Mutant of PushT3: a mark too low.
PushT3Below == marks' = Append(marks, Len(arena) - 1)

\* Syscall 141.
PushT3 == marks' = Append(marks, Len(arena))

\* __region_push, which does not track the region when it is out of memory.  It
\* asks for memory when the stack is full, with 0, 8, 16, ... marks on it; here
\* any push may.
PushC ==
  \/ marks' = Append(marks, Len(arena))
  \/ ReallocMayFail /\ UNCHANGED marks

Mark == marks[Len(marks)]
Popped == SubSeq(marks, 1, Len(marks) - 1)
Above == {arena[i] : i \in (Mark + 1)..Len(arena)}

\* Mutant of PopT3: the oldest mark is taken.
PopT3Oldest ==
  IF marks = <<>> THEN trap' = TRUE /\ UNCHANGED <<marks, arena, lost>>
  ELSE /\ marks' = Tail(marks)
       /\ IF MayReclaim
          THEN /\ arena' = SubSeq(arena, 1, Head(marks))
               /\ lost' = lost \cup {arena[i] : i \in (Head(marks) + 1)..Len(arena)}
          ELSE UNCHANGED <<arena, lost>>
       /\ UNCHANGED trap

\* Syscall 142: with another task alive the bump pointer stays where it is.
PopT3 ==
  IF marks = <<>> THEN trap' = TRUE /\ UNCHANGED <<marks, arena, lost>>
  ELSE /\ marks' = Popped
       /\ IF MayReclaim
          THEN arena' = SubSeq(arena, 1, Mark) /\ lost' = lost \cup Above
          ELSE UNCHANGED <<arena, lost>>
       /\ UNCHANGED trap

\* Mutant of PopC: the pointers freed stay on the list.
PopCKeepsList ==
  IF marks = <<>> THEN UNCHANGED memory
  ELSE /\ marks' = Popped
       /\ lost' = IF MayReclaim THEN lost \cup Above ELSE lost
       /\ UNCHANGED <<arena, trap>>

\* __region_pop: with another task alive the pointers are forgotten, not freed.
PopC ==
  IF marks = <<>> THEN UNCHANGED memory
  ELSE /\ marks' = Popped
       /\ arena' = SubSeq(arena, 1, Mark)
       /\ lost' = IF MayReclaim THEN lost \cup Above ELSE lost
       /\ UNCHANGED trap

-----------------------------------------------------------------------------
(* The program.                                                            *)

\* t allocates cell c, which it holds as long as the region it is in.
Alloc(t, c) ==
  /\ c \in Cells \ made /\ \A e \in Cells \ made : c <= e
  /\ IF impl = "t3" THEN AllocT3(c) ELSE AllocC(c)
  /\ made' = made \cup {c}
  /\ held' = held \cup {<<c, t, open[t]>>}
  /\ UNCHANGED <<marks, lost, trap, state, open, handle, history>>

\* t enters a region.
Enter(t) ==
  /\ open[t] < MaxDepth /\ Len(marks) < MaxMarks
  /\ open' = [open EXCEPT ![t] = @ + 1]
  /\ IF impl = "t3" THEN PushT3 ELSE PushC
  /\ lone' = (lone /\ Alive = {t})
  /\ unmarked' = (unmarked \/ (marks # <<>> /\ marks' = marks))
  /\ UNCHANGED <<arena, lost, trap, state, handle, made, held>>

\* t reaches the end of its innermost region.
Leave(t) ==
  /\ open[t] > 0
  /\ open' = [open EXCEPT ![t] = @ - 1]
  /\ IF impl = "t3" THEN PopT3 ELSE PopC
  /\ DropHandles(t, open[t])
  /\ held' = held \ Dropped(t, open[t])
  /\ UNCHANGED <<state, made, history>>

\* `?' returns the error value c from inside a region: no call is made to pop.
Question(t, c) ==
  /\ open[t] > 0 /\ <<c, t, open[t]>> \in held
  /\ open' = [open EXCEPT ![t] = @ - 1]
  /\ DropHandles(t, open[t])
  /\ held' = (held \ Dropped(t, open[t])) \cup {<<c, t, open'[t]>>}
  /\ UNCHANGED <<memory, state, made, history>>

\* The new task captures copies of some of what t holds.
Spawn(t, u, captured) ==
  /\ state[u] = "none"
  /\ \A c \in captured : \E h \in Holds(t, 0) : h[1] = c
  /\ state' = [state EXCEPT ![u] = "alive"]
  /\ handle' = [handle EXCEPT ![u] = <<t, open[t]>>]
  /\ held' = held \cup {<<c, u, 0>> : c \in captured}
  /\ UNCHANGED <<memory, open, made, history>>

\* t ends, outside its regions.  Its value is a scalar or a cell, in `value',
\* and is kept for whoever has its handle.
Exit(t, value) ==
  /\ open[t] = 0
  /\ \A c \in value : <<c, t, 0>> \in held
  /\ state' = [state EXCEPT ![t] = "done"]
  /\ DropHandles(t, 0)
  /\ held' = (held \ Dropped(t, 0))
               \cup (IF handle[t] = Nobody THEN {} ELSE {<<c, t, 0>> : c \in value})
  /\ UNCHANGED <<memory, open, made, history>>

\* t takes the value of u.
Await(t, u) ==
  /\ state[u] = "done" /\ handle[u][1] = t
  /\ handle' = [handle EXCEPT ![u] = Nobody]
  /\ held' = (held \ Holds(u, 0)) \cup {<<h[1], t, open[t]>> : h \in Holds(u, 0)}
  /\ UNCHANGED <<memory, state, open, made, history>>

Next ==
  /\ ~trap /\ UNCHANGED impl
  /\ \E t \in Alive :
       \/ \E c \in Cells : Alloc(t, c)
       \/ Enter(t)
       \/ Leave(t)
       \/ \E c \in Cells : Question(t, c)
       \/ \E u \in Tasks, captured \in SUBSET Cells : Spawn(t, u, captured)
       \/ Exit(t, {})
       \/ \E c \in Cells : Exit(t, {c})
       \/ \E u \in Tasks : Await(t, u)

Spec == Init /\ [][Next]_vars

-----------------------------------------------------------------------------

\* Every variable keeps its type.
TypeOK ==
  /\ impl \in {"t3", "c"}
  /\ marks \in Seq(Nat) /\ arena \in Seq(Cells) /\ lost \subseteq Cells
  /\ trap \in BOOLEAN
  /\ state \in [Tasks -> {"none", "alive", "done"}]
  /\ open \in [Tasks -> 0..MaxDepth]
  /\ handle \in [Tasks -> (Tasks \X (0..MaxDepth)) \cup {Nobody}]
  /\ made \subseteq Cells /\ held \subseteq made \X Tasks \X (0..MaxDepth)
  /\ lone \in BOOLEAN /\ unmarked \in BOOLEAN

\* However the regions of different tasks interleave, the marks rise to the
\* arena's end: a pop never moves the bump pointer up, and never reaches past
\* the list of pointers.
MarksAscend ==
  /\ \A i, j \in DOMAIN marks : i <= j => marks[i] <= marks[j]
  /\ \A i \in DOMAIN marks : marks[i] <= Len(arena)

\* No pointer is freed twice: what a later pop would release has not been.
FreedOnce == Elems(arena) \cap lost = {}

\* No cell that some part of the program can still reach has been released.
NothingHeldIsLost == \A h \in held : h[1] \notin lost

\* A region opened by the program's only task never releases a cell that is
\* still held, whatever tasks are spawned, finish, and are awaited inside it,
\* whichever regions `?' leaves behind, and also if there was no memory for the
\* first mark or for tracking a cell.  It does not hold once __region_push got no
\* memory while another mark was on the stack: the pop that matches it takes
\* that mark, and releases what the outer region still holds.
SoundWhenAlone == lone /\ ~unmarked => NothingHeldIsLost

=============================================================================
