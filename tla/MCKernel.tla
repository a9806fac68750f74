-------------------------------- MODULE MCKernel --------------------------------
(***************************************************************************)
(* The parts of silvercore-kernel that a program calls on one thread (and   *)
(* sc_task_post on several): the allocators, the graphics context, the flex *)
(* layout, the scene in its dispatch and drawing, and the scene of the      *)
(* Python binding.  They share no state in these instances, so a behaviour  *)
(* is one of a single part, which `part` names.                             *)
(***************************************************************************)
EXTENDS Arena, FiniteSets

CONSTANTS Posters, PostCapacity, PostsEach, NoTask,
          Capacity,
          GfxWord, Dims, Kinds, MaxSlots, MaxObjects, MaxVerts, CmdCounts, MaxDraws,
          MaxNodes, MaxWidgets, MaxQuads, Viewports,
          PyWidgets, Heights, DefaultHeight

VARIABLES
  part,                                                  \* the part that takes steps
  post_offset, mem, list, post_pc, my, posts, accepted, places, dropped, ran,
  next, free_list, count, held, chain,
  ctx, slots, objects, vcount, calls, verts, frame,
  parent, first_child, next_sibling, child_count, style, rect, computed,
  widgets, anims, viewport, drawn, event, called, events,
  py_widgets, laid

(* Threads that post one at a time. *)
Post == INSTANCE TaskPost WITH
  offset <- post_offset, pc <- post_pc, Capacity <- PostCapacity, MaxPosts <- PostsEach,
  Serial <- TRUE
Slab    == INSTANCE Pool
Context == INSTANCE Gfx WITH Word <- GfxWord

Both(a, b) == [x |-> a, y |-> b]
Plain == [dir |-> "x", justify |-> "start", align |-> "stretch", grow |-> 0,
          size |-> Both(-1, -1), min |-> Both(-1, -1),
          mStart |-> Both(0, 0), mEnd |-> Both(0, 0), pStart |-> Both(0, 0), pEnd |-> Both(0, 0)]
(* Every justification and alignment, growth, minimal and explicit lengths,
   padding, and a column.  Lengths are multiples of 36, so that halves, thirds
   and sixths are exact. *)
SampleStyles ==
  {[Plain EXCEPT !.grow = 1],
   [Plain EXCEPT !.grow = 1, !.min = Both(36, -1), !.align = "start"],
   [Plain EXCEPT !.size = Both(72, 36), !.justify = "between", !.align = "end"],
   [Plain EXCEPT !.justify = "center", !.pStart = Both(36, 0), !.align = "center"],
   [Plain EXCEPT !.justify = "end", !.pEnd = Both(36, 36)],
   [Plain EXCEPT !.justify = "around", !.min = Both(36, -1)],
   [Plain EXCEPT !.dir = "y"]}
Flex == INSTANCE Layout WITH Styles <- SampleStyles, Sizes <- {Both(432, 144)}

(* Interactive widgets and decorated ones, without animations. *)
Look(inter, border) == [interactive |-> inter, border |-> border]
Widgets == INSTANCE Scene WITH
  MaxAnims <- 0, Deltas <- {1}, Looks <- {Look(TRUE, FALSE), Look(FALSE, TRUE)},
  Tweens <- {}, Alphas <- {}, MaxEvents <- 1

(* Parents that exist, that do not, and that are none. *)
Python == INSTANCE PyScene WITH
  widgets <- py_widgets, MaxWidgets <- PyWidgets, Parents <- -2 .. (PyWidgets - 1)

ASSUME KernelAssumption ==
  /\ Post!PostAssumption /\ Slab!CapacityAssumption /\ Context!GfxAssumption
  /\ Flex!LayoutAssumption /\ Widgets!SceneAssumption /\ Python!PyAssumption

postVars  == <<post_offset, mem, list, post_pc, my, posts, accepted, places, dropped, ran>>
slabVars  == <<next, free_list, count, held, chain>>
gfxVars   == <<ctx, slots, objects, vcount, calls, verts, frame>>
flexVars  == <<parent, first_child, next_sibling, child_count, style, rect, computed>>
sceneVars == <<widgets, anims, viewport, drawn, event, called, events>>
pyVars    == <<py_widgets, laid>>
kernelVars == <<part, vars, postVars, slabVars, gfxVars, flexVars, sceneVars, pyVars>>

-----------------------------------------------------------------------------
KernelInit ==
  /\ part \in {"arena", "post", "slab", "gfx", "flex", "scene", "python"}
  /\ Init /\ Post!Init /\ Slab!Init /\ Context!Init /\ Flex!Init /\ Widgets!Init /\ Python!Init
  /\ part # "scene" => viewport = CHOOSE v \in Viewports : TRUE

KernelNext ==
  \/ /\ part = "arena" /\ Next
     /\ UNCHANGED <<part, postVars, slabVars, gfxVars, flexVars, sceneVars, pyVars>>
  \/ /\ part = "post" /\ Post!Next
     /\ UNCHANGED <<part, vars, slabVars, gfxVars, flexVars, sceneVars, pyVars>>
  \/ /\ part = "slab" /\ Slab!Next
     /\ UNCHANGED <<part, vars, postVars, gfxVars, flexVars, sceneVars, pyVars>>
  \/ /\ part = "gfx" /\ Context!Next
     /\ UNCHANGED <<part, vars, postVars, slabVars, flexVars, sceneVars, pyVars>>
  \/ /\ part = "flex" /\ Flex!Next
     /\ UNCHANGED <<part, vars, postVars, slabVars, gfxVars, sceneVars, pyVars>>
  \/ /\ part = "scene" /\ Widgets!Next
     /\ UNCHANGED <<part, vars, postVars, slabVars, gfxVars, flexVars, pyVars>>
  \/ /\ part = "python" /\ Python!Next
     /\ UNCHANGED <<part, vars, postVars, slabVars, gfxVars, flexVars, sceneVars>>

KernelSpec == KernelInit /\ [][KernelNext]_kernelVars

-----------------------------------------------------------------------------
(* Tasks are run as they were posted, in order, and dropped only when the arena
   is used up (sc_task_post). *)
PostsAreRun == Post!PostsAreRun

(* The pool implements the promise of an allocator, and the list in the free
   slots stays whole, whatever is written into the others (sc_pool_alloc,
   sc_pool_free). *)
PoolIsStore == Slab!PoolIsStore

(* Framebuffer, handles and statistics of the graphics context are right. *)
ContextIsSound == Context!ContextIsSound

(* The links of the layout are a tree; and children of a row whose measured
   sizes fit lie in it one after the other, under the conditions Layout states
   for each part (sc_layout_compute). *)
LayoutIsSound == Flex!LayoutIsSound

(* Events and frames walk the widgets in their order while callbacks change the
   scene (sc_scene_dispatch_event, sc_scene_render). *)
WalkedInOrder == Widgets!WalkedInOrder

(* Links and places of the widgets of the Python binding agree. *)
PySceneIsSound == Python!PySceneIsSound
=============================================================================
