--------------------------------- MODULE Gfx ---------------------------------
(***************************************************************************)
(* The graphics context of sc_gfx.h: the size of the software framebuffer,  *)
(* the resource tables, and the batch of quads with its statistics.  A      *)
(* handle is an index; `gen` of a slot is written and never read, and is    *)
(* left out, as are pixels, vertices and descriptors.                       *)
(***************************************************************************)
EXTENDS Integers, Sequences, FiniteSets, FiniteSetsExt

CONSTANTS Word,          \* SIZE_MAX + 1
          Dims,          \* widths and heights asked for
          Kinds,         \* buffers, textures, shaders, pipelines
          MaxSlots,      \* table size; slot 0 is not used
          MaxObjects,    \* bound: resources made
          MaxVerts,      \* _SC_MAX_2D_VERTS
          CmdCounts,     \* vertex counts of commands submitted
          MaxDraws       \* bound: calls that draw

GfxAssumption ==
  /\ {Word, MaxSlots, MaxObjects, MaxVerts, MaxDraws} \subseteq Nat \ {0}
  /\ Dims \subseteq 1..(Word - 1) /\ CmdCounts \subseteq Nat

VARIABLES
  ctx,          \* state of the context, size and bytes of its framebuffer
  slots,        \* slots[k]: the ids that are live
  objects,      \* history: what was made: kind, id, and whether it was destroyed
  vcount, calls, verts,     \* batch_vcount, frame_stats.draw_calls and .vertex_count
  frame         \* history: quads kept, quads dropped, vertex counts submitted

tableVars == <<slots, objects>>
batchVars == <<vcount, calls, verts, frame>>
vars == <<ctx, tableVars, batchVars>>

NoFrame == [kept |-> 0, dropped |-> 0, cmds |-> 0, verts |-> 0]

Init ==
  /\ ctx = [state |-> "none", w |-> 0, h |-> 0, bytes |-> 0] /\ slots = [k \in Kinds |-> {}] /\ objects = <<>>
  /\ vcount = 0 /\ calls = 0 /\ verts = 0 /\ frame = NoFrame

Ready == ctx.state = "ready"

-----------------------------------------------------------------------------
TooLarge(w, h) == h > ((Word - 1) \div 4) \div w

(* sc_gfx_init; without memory it fails as with a size that is too large. *)
InitContext(w, h) ==
  /\ ctx.state = "none"
  /\ \/ ctx' = [ctx EXCEPT !.state = "gone"]
     \/ ~TooLarge(w, h) /\ ctx' = [state |-> "ready", w |-> w, h |-> h, bytes |-> (((w * h) % Word) * 4) % Word]
  /\ UNCHANGED <<tableVars, batchVars>>

Shutdown ==
  /\ Ready /\ ctx' = [ctx EXCEPT !.state = "gone"]
  /\ UNCHANGED <<tableVars, batchVars>>

-----------------------------------------------------------------------------
FreeIds(k) == (1..(MaxSlots - 1)) \ slots[k]

Mut_Make(k) ==                 \* takes the slot after the last live one
  LET id == IF slots[k] = {} THEN 1 ELSE (Max(slots[k]) % (MaxSlots - 1)) + 1
  IN /\ Ready /\ Len(objects) < MaxObjects
     /\ slots' = [slots EXCEPT ![k] = @ \cup {id}]
     /\ objects' = Append(objects, [kind |-> k, id |-> id, gone |-> FALSE])
     /\ UNCHANGED <<ctx, batchVars>>

(* sc_gfx_make_*: the lowest free slot. *)
Make(k) ==
  /\ Ready /\ Len(objects) < MaxObjects /\ FreeIds(k) # {}
  /\ LET id == Min(FreeIds(k))
     IN /\ slots' = [slots EXCEPT ![k] = @ \cup {id}]
        /\ objects' = Append(objects, [kind |-> k, id |-> id, gone |-> FALSE])
  /\ UNCHANGED <<ctx, batchVars>>

MakeFails(k) == Ready /\ FreeIds(k) = {} /\ UNCHANGED vars      \* returns id 0

(* sc_gfx_destroy_*: the id alone says what is destroyed. *)
Destroy(o) ==
  /\ Ready /\ ~objects[o].gone
  /\ slots' = [slots EXCEPT ![objects[o].kind] = @ \ {objects[o].id}]
  /\ objects' = [objects EXCEPT ![o].gone = TRUE]
  /\ UNCHANGED <<ctx, batchVars>>

-----------------------------------------------------------------------------
Draws == frame.kept + frame.dropped + frame.cmds

BeginFrame ==
  /\ Ready /\ vcount' = 0 /\ calls' = 0 /\ verts' = 0 /\ frame' = NoFrame
  /\ UNCHANGED <<ctx, tableVars>>

(* sc_gfx_draw_rect, _sprite and _line: a quad, dropped when the batch is full. *)
DrawQuad ==
  /\ Ready /\ Draws < MaxDraws
  /\ IF vcount + 6 > MaxVerts
       THEN frame' = [frame EXCEPT !.dropped = @ + 1] /\ UNCHANGED <<vcount, calls>>
       ELSE /\ vcount' = vcount + 6 /\ calls' = calls + 1
            /\ frame' = [frame EXCEPT !.kept = @ + 1]
  /\ UNCHANGED <<ctx, tableVars, verts>>

Submit(n) ==
  /\ Ready /\ Draws < MaxDraws
  /\ calls' = calls + 1 /\ verts' = verts + n
  /\ frame' = [frame EXCEPT !.cmds = @ + 1, !.verts = @ + n]
  /\ UNCHANGED <<ctx, tableVars, vcount>>

Next ==
  \/ \E w, h \in Dims : InitContext(w, h)
  \/ Shutdown \/ BeginFrame \/ DrawQuad
  \/ \E n \in CmdCounts : Submit(n)
  \/ \E k \in Kinds : Make(k) \/ MakeFails(k)
  \/ \E o \in DOMAIN objects : Destroy(o)
Spec == Init /\ [][Next]_vars

-----------------------------------------------------------------------------
TypeOK ==
  /\ ctx.state \in {"none", "ready", "gone"} /\ ctx.bytes \in 0..(Word - 1)
  /\ slots \in [Kinds -> SUBSET (1..(MaxSlots - 1))]
  /\ \A o \in DOMAIN objects : objects[o].kind \in Kinds /\ objects[o].id \in 1..(MaxSlots - 1)
  /\ vcount \in 0..MaxVerts

(* The framebuffer has room for every pixel that sc_gfx_begin_frame clears:
   the size that was allocated has not wrapped. *)
FramebufferHoldsFrame == Ready => ctx.bytes = ctx.w * ctx.h * 4

(* Handles of resources in use name different slots of their kind, and such a
   slot is taken; what is not in use can be made again. *)
InUse(k) == {o \in DOMAIN objects : objects[o].kind = k /\ ~objects[o].gone}
HandlesDistinct ==
  \A k \in Kinds :
    /\ \A o, p \in InUse(k) : objects[o].id = objects[p].id => o = p
    /\ slots[k] = {objects[o].id : o \in InUse(k)}

(* The statistics tell what was accepted since sc_gfx_begin_frame, and a quad
   is dropped only when the batch has no room left for another. *)
StatsTellFrame ==
  /\ calls = frame.kept + frame.cmds /\ verts = frame.verts /\ vcount = 6 * frame.kept
  /\ frame.dropped > 0 => vcount > MaxVerts - 6

(* The context as the programs that draw with it may count on it. *)
ContextIsSound == TypeOK /\ FramebufferHoldsFrame /\ HandlesDistinct /\ StatsTellFrame

=============================================================================
