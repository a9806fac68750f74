------------------------------ MODULE TaskPost ------------------------------
(***************************************************************************)
(* sc_task_post (sc_runtime.h) with the arena it takes its tasks from.      *)
(* Threads post; the loop runs what is in the list.  The arena is counted   *)
(* in tasks: `offset` is the number of tasks pushed, and it is loaded and   *)
(* stored without synchronisation.  The list itself is MpscQueue's subject  *)
(* and is a sequence here.  Nothing resets the arena of a loop.             *)
(***************************************************************************)
EXTENDS Naturals, Sequences, FiniteSets, SequencesExt

CONSTANTS Posters,    \* the threads that post
          Capacity,   \* how many tasks the arena holds
          MaxPosts,   \* bound: posts of each thread
          Serial,     \* the program lets one thread post at a time
          NoTask      \* zeroed memory

PostAssumption ==
  Capacity \in Nat \ {0} /\ MaxPosts \in Nat /\ Serial \in BOOLEAN

VARIABLES offset,     \* task_arena->offset
          mem,        \* what the n-th task of the arena holds
          list,       \* the places of the tasks posted and not yet run
          pc, my,     \* of each thread: where it is in sc_task_post; the offset it loaded
          posts,      \* history: posts begun by each thread
          accepted,   \* history: tasks in the order in which they were linked
          places,     \* history: the place of each of them
          dropped,    \* history: the tasks for which the arena had no memory
          ran         \* history: what the handlers were run on

vars == <<offset, mem, list, pc, my, posts, accepted, places, dropped, ran>>

Task(t) == <<t, posts[t]>>      \* the function and payload of the post under way

Init ==
  /\ offset = 0 /\ mem = [p \in 1..Capacity |-> NoTask] /\ list = <<>>
  /\ pc = [t \in Posters |-> "idle"] /\ my = [t \in Posters |-> 0]
  /\ posts = [t \in Posters |-> 0] /\ accepted = <<>> /\ places = <<>>
  /\ dropped = {} /\ ran = <<>>

Goto(t, l) == pc' = [pc EXCEPT ![t] = l]

(* A payload that is too large returns here and changes nothing. *)
Enter(t) ==
  /\ pc[t] = "idle" /\ posts[t] < MaxPosts
  /\ Serial => \A u \in Posters : pc[u] = "idle"
  /\ posts' = [posts EXCEPT ![t] = @ + 1] /\ Goto(t, "load")
  /\ UNCHANGED <<offset, mem, list, my, accepted, places, dropped, ran>>

NoMemory(t) ==
  /\ pc[t] = "load" /\ offset >= Capacity
  /\ dropped' = dropped \cup {Task(t)} /\ Goto(t, "idle")
  /\ UNCHANGED <<offset, mem, list, my, posts, accepted, places, ran>>

LoadOffset(t) ==
  /\ pc[t] = "load" /\ offset < Capacity
  /\ my' = [my EXCEPT ![t] = offset] /\ Goto(t, "store")
  /\ UNCHANGED <<offset, mem, list, posts, accepted, places, dropped, ran>>

(* The store of the new offset and the memset. *)
Mut_StoreOffset(t) ==          \* the arena is treated as if it were reset when full
  /\ pc[t] = "store"
  /\ offset' = (my[t] + 1) % Capacity
  /\ mem' = [mem EXCEPT ![my[t] + 1] = NoTask] /\ Goto(t, "fill")
  /\ UNCHANGED <<list, my, posts, accepted, places, dropped, ran>>

StoreOffset(t) ==
  /\ pc[t] = "store"
  /\ offset' = my[t] + 1
  /\ mem' = [mem EXCEPT ![my[t] + 1] = NoTask] /\ Goto(t, "fill")
  /\ UNCHANGED <<list, my, posts, accepted, places, dropped, ran>>

Fill(t) ==
  /\ pc[t] = "fill"
  /\ mem' = [mem EXCEPT ![my[t] + 1] = Task(t)] /\ Goto(t, "push")
  /\ UNCHANGED <<offset, list, my, posts, accepted, places, dropped, ran>>

Push(t) ==
  /\ pc[t] = "push"
  /\ list' = Append(list, my[t] + 1) /\ Goto(t, "idle")
  /\ accepted' = Append(accepted, Task(t)) /\ places' = Append(places, my[t] + 1)
  /\ UNCHANGED <<offset, mem, my, posts, dropped, ran>>

Run ==
  /\ list # <<>>
  /\ ran' = Append(ran, mem[Head(list)]) /\ list' = Tail(list)
  /\ UNCHANGED <<offset, mem, pc, my, posts, accepted, places, dropped>>

Post(t) == \/ Enter(t) \/ NoMemory(t) \/ LoadOffset(t) \/ StoreOffset(t) \/ Fill(t)
           \/ Push(t)
Next == Run \/ \E t \in Posters : Post(t)
Spec == Init /\ [][Next]_vars

-----------------------------------------------------------------------------
TypeOK ==
  /\ offset \in 0..Capacity
  /\ list \in Seq(1..Capacity) /\ places \in Seq(1..Capacity)
  /\ pc \in [Posters -> {"idle", "load", "store", "fill", "push"}]
  /\ my \in [Posters -> 0..(Capacity - 1)]
  /\ mem \in [1..Capacity -> {NoTask} \cup (Posters \X (1..MaxPosts))]

(* What the handlers are run on is what was posted, in the order of the
   links, whatever the posting threads are writing meanwhile. *)
RunsWhatWasPosted == IsPrefix(ran, accepted) /\ Len(ran) + Len(list) = Len(accepted)

(* The memory of a task is never used again: a loop takes `Capacity` tasks in
   its life, and drops every one after, also when all have been run. *)
DropsOnlyWhenUsedUp ==
  /\ Len(accepted) <= offset
  /\ dropped # {} => (offset = Capacity /\ Len(accepted) = Capacity)

(* What a program that posts from one thread at a time may count on. *)
PostsAreRun == TypeOK /\ RunsWhatWasPosted /\ DropsOnlyWhenUsedUp

(* "Task API (thread-safe)" (sc_runtime.h:173), "Tasks are fired from any
   thread" (docs/WIKI.md:571): no two tasks share memory. *)
NoSharedTask == \A i, j \in DOMAIN places : places[i] = places[j] => i = j
=============================================================================
