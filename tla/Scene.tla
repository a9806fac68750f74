--------------------------------- MODULE Scene ---------------------------------
(***************************************************************************)
(* The scene of sc_widget.h: the flat array of widgets, the animations that *)
(* sc_scene_update ticks before it recomputes the layout, the render pass   *)
(* into the bounded batch of sc_gfx.h, and the dispatch of an event to the  *)
(* callbacks of the widgets under the mouse, which may change the scene     *)
(* while the dispatch walks it.  A widget's place is the layout it comes    *)
(* from (viewport and number of widgets), an animated value, or, before     *)
(* its first update, a point at the origin.  A widget is a rectangle; the   *)
(* spring easing (an exponential) is left out.                              *)
(***************************************************************************)
EXTENDS Integers, Sequences, FiniteSets, FiniteSetsExt

CONSTANTS
  MaxWidgets,          \* SC_SCENE_MAX_WIDGETS
  MaxAnims,            \* SC_SCENE_MAX_ANIMS
  MaxQuads,            \* what the batch of sc_gfx.h takes in a frame
  Viewports, Deltas,   \* sizes of the window; frame times
  Looks,               \* what widgets are: interactive and with a border, or not
  Tweens,              \* what sc_anim_push is called with: prop, ease, from, to, dur, loop
  Alphas,              \* what sc_widget_set_alpha is called with
  MaxEvents            \* bound: events dispatched

SceneAssumption ==
  /\ {MaxWidgets, MaxAnims, MaxQuads, MaxEvents} \subseteq Nat
  /\ Deltas \subseteq Nat /\ Alphas \subseteq Int
  /\ \A t \in Tweens : /\ t.prop \in {"alpha", "x"}       \* "x" stands for the four of a place
                      /\ t.dur \in Nat /\ {t.from, t.to} \subseteq Int
                      /\ t.ease \in {"linear", "in", "out", "inout"}

VARIABLES
  widgets,             \* per widget: visible, interactive, border, alpha, pos
  anims,               \* per animation: the widget, its tween, elapsed, active
  viewport,
  drawn,               \* the widgets whose quads the frame has taken, in order
  event,               \* the event in dispatch: where it hits, and the next widget
  called,              \* history: the widgets called for it, with what they were
  events               \* bound: events so far

sceneVars == <<widgets, anims, viewport>>
eventVars == <<event, called, events>>
vars == <<sceneVars, drawn, eventVars>>

NoEvent == [kind |-> "none"]
Unset   == [by |-> "none"]
Ids     == DOMAIN widgets
Idle    == event = NoEvent

Init ==
  /\ widgets = <<>> /\ anims = <<>> /\ viewport \in Viewports /\ drawn = <<>>
  /\ event = NoEvent /\ called = <<>> /\ events = 0

-----------------------------------------------------------------------------
Placed == [by |-> "layout", viewport |-> viewport, count |-> Len(widgets)]

(* The calls of the program, made between frames or by a callback. *)

New(look, pos) == [interactive |-> look.interactive, border |-> look.border,
                   visible |-> TRUE, alpha |-> 12, pos |-> pos]

Mut_AddWidget(look) ==         \* a new widget is placed by the layout of the others
  /\ Len(widgets) < MaxWidgets /\ widgets' = Append(widgets, New(look, Placed))
  /\ UNCHANGED <<anims, viewport>>

AddWidget(look) ==
  /\ Len(widgets) < MaxWidgets /\ widgets' = Append(widgets, New(look, Unset))
  /\ UNCHANGED <<anims, viewport>>

SetVisible(w, v) ==
  widgets' = [widgets EXCEPT ![w].visible = v] /\ UNCHANGED <<anims, viewport>>

Clamp(a) == IF a < 0 THEN 0 ELSE IF a > 12 THEN 12 ELSE a      \* 12 is full
SetAlpha(w, a) ==
  widgets' = [widgets EXCEPT ![w].alpha = Clamp(a)] /\ UNCHANGED <<anims, viewport>>

PushAnim(w, tween) ==
  /\ Len(anims) < MaxAnims
  /\ anims' = Append(anims, [widget |-> w, tween |-> tween, elapsed |-> 0, active |-> TRUE])
  /\ UNCHANGED <<widgets, viewport>>

StopAnim(n) ==
  anims' = [anims EXCEPT ![n].active = FALSE] /\ UNCHANGED <<widgets, viewport>>

Resize(v) == viewport' = v /\ UNCHANGED <<widgets, anims>>

Call ==
  \/ \E look \in Looks : AddWidget(look)
  \/ \E w \in Ids : \/ \E v \in BOOLEAN : SetVisible(w, v)
                    \/ \E a \in Alphas : SetAlpha(w, a)
                    \/ \E t \in Tweens : PushAnim(w, t)
  \/ \E n \in DOMAIN anims : StopAnim(n)

-----------------------------------------------------------------------------
(* sc_scene_update.  A tween of no duration is at its end at every update, and
   is never over; its elapsed time is not used and is left out. *)

Mut_TickedOn(a, dt) ==         \* stops at the end, and stays active
  [a EXCEPT !.elapsed = IF a.active /\ a.tween.dur > 0 THEN Min({@ + dt, a.tween.dur}) ELSE @]

Ticked(a, dt) ==
  LET e == a.elapsed + dt
  IN IF ~a.active \/ a.tween.dur = 0 THEN a
     ELSE IF e <= a.tween.dur THEN [a EXCEPT !.elapsed = e]
     ELSE IF a.tween.loop THEN [a EXCEPT !.elapsed = e % a.tween.dur]
     ELSE [a EXCEPT !.elapsed = e, !.active = FALSE]

(* _sc_ease, of a share e/d of the duration, in parts of d * d. *)
Eased(ease, e, d) ==
  CASE ease = "linear" -> e * d
    [] ease = "in"     -> e * e
    [] ease = "out"    -> e * (2 * d - e)
    [] ease = "inout"  -> IF 2 * e < d THEN 2 * e * e ELSE (4 * d - 2 * e) * e - d * d

(* sc_lerpf of the eased time, which is first clamped to the duration. *)
Value(tween, elapsed) ==
  LET d == tween.dur
      span == tween.to - tween.from
  IN IF d = 0 THEN tween.to
     ELSE tween.from + (span * Eased(tween.ease, Min({elapsed, d}), d)) \div (d * d)

(* The animation whose value stays: the slots are ticked in order. *)
Driving(w, prop) ==
  {n \in DOMAIN anims : anims[n].active /\ anims[n].widget = w /\ anims[n].tween.prop = prop}
Mut_Driver(w, prop) ==         \* the first stays
  IF Driving(w, prop) = {} THEN 0 ELSE Min(Driving(w, prop))

Driver(w, prop) == IF Driving(w, prop) = {} THEN 0 ELSE Max(Driving(w, prop))

Tweened(w, prop, was, dt) ==
  LET n == Driver(w, prop)
  IN IF n = 0 THEN was ELSE Value(anims[n].tween, Ticked(anims[n], dt).elapsed)

Mut_Update(dt) ==              \* animates what the layout has written
  /\ anims' = [n \in DOMAIN anims |-> Ticked(anims[n], dt)]
  /\ widgets' = [w \in Ids |-> [widgets[w] EXCEPT
        !.alpha = Tweened(w, "alpha", @, dt),
        !.pos   = IF Driver(w, "x") = 0 THEN Placed
                  ELSE [by |-> "animation", x |-> Tweened(w, "x", 0, dt)]]]
  /\ UNCHANGED <<viewport, drawn, eventVars>>

(* The layout comes after the animations, and writes the place of every widget. *)
Update(dt) ==
  LET animated(w) == [widgets[w] EXCEPT
        !.alpha = Tweened(w, "alpha", @, dt),
        !.pos   = IF Driver(w, "x") = 0 THEN @ ELSE [by |-> "animation", x |-> Tweened(w, "x", 0, dt)]]
      synced(widget) == [widget EXCEPT !.pos = Placed]
  IN /\ anims' = [n \in DOMAIN anims |-> Ticked(anims[n], dt)]
     /\ widgets' = [w \in Ids |-> synced(animated(w))]
     /\ UNCHANGED <<viewport, drawn, eventVars>>

-----------------------------------------------------------------------------
(* sc_gfx_begin_frame and sc_scene_render: a rectangle and its four border
   lines are a quad each, and the batch drops what it has no room for. *)

Wanted(w) == IF ~widgets[w].visible THEN <<>>
             ELSE [q \in 1..(IF widgets[w].border THEN 5 ELSE 1) |-> w]

QuadsOf[w \in 0..Len(widgets)] == IF w = 0 THEN <<>> ELSE QuadsOf[w - 1] \o Wanted(w)

Render ==
  /\ drawn' = SubSeq(QuadsOf[Len(widgets)], 1, Min({MaxQuads, Len(QuadsOf[Len(widgets)])}))
  /\ UNCHANGED <<sceneVars, eventVars>>

-----------------------------------------------------------------------------
(* sc_scene_dispatch_event.  `under` are the widgets whose place, once they
   have one, is under the mouse; a widget without one is hit at the origin. *)

Hit(w) == IF widgets[w].pos = Unset THEN event.origin ELSE w \in event.under

BeginDispatch(kind, origin, under) ==
  /\ events < MaxEvents /\ events' = events + 1
  /\ event' = [kind |-> kind, origin |-> origin, under |-> under, next |-> 1,
                count |-> Len(widgets)]
  /\ called' = <<>> /\ UNCHANGED <<sceneVars, drawn>>

Receives(w) == widgets[w].visible /\ widgets[w].interactive /\ Hit(w) /\ event.kind = "mouse"

PassWidget ==
  /\ event.next <= Len(widgets) /\ ~Receives(event.next)
  /\ event' = [event EXCEPT !.next = @ + 1]
  /\ UNCHANGED <<sceneVars, drawn, called, events>>

(* The callback returns, having done at most one thing to the scene. *)
CallWidget ==
  /\ event.next <= Len(widgets) /\ Receives(event.next)
  /\ event' = [event EXCEPT !.next = @ + 1]
  /\ called' = Append(called, [w |-> event.next, was |-> widgets[event.next]])
  /\ Call \/ UNCHANGED sceneVars
  /\ UNCHANGED <<drawn, events>>

EndDispatch ==
  /\ event.next > Len(widgets) /\ event' = NoEvent
  /\ IF event.kind = "resize" THEN \E v \in Viewports : Resize(v) ELSE UNCHANGED sceneVars
  /\ UNCHANGED <<drawn, called, events>>

Dispatch == PassWidget \/ CallWidget \/ EndDispatch
UpdateNow == \E dt \in Deltas : Update(dt)
Next ==
  \/ /\ Idle
     /\ \/ Call /\ UNCHANGED <<drawn, eventVars>>
        \/ UpdateNow \/ Render
        \/ \E origin \in BOOLEAN, under \in SUBSET (1..MaxWidgets), kind \in {"mouse", "resize"} :
             BeginDispatch(kind, origin, under)
  \/ ~Idle /\ Dispatch

Spec == Init /\ [][Next]_vars
(* The program updates the scene in every frame (stock_dashboard.c:311). *)
FairSpec == Spec /\ WF_vars(~Idle /\ Dispatch)
                 /\ WF_vars(Idle /\ UpdateNow)

-----------------------------------------------------------------------------
TypeOK ==
  /\ Len(widgets) <= MaxWidgets /\ Len(anims) <= MaxAnims /\ viewport \in Viewports
  /\ \A w \in Ids : widgets[w].alpha \in 0..12
  /\ \A n \in DOMAIN anims : anims[n].widget \in Ids
  /\ Idle \/ event.next \in 1..(MaxWidgets + 1)

(* A tween of some duration is over when it is past its end, and only then;
   one that loops stays within its duration. *)
AnimationsKeepTime ==
  \A n \in DOMAIN anims :
    LET a == anims[n]
    IN (a.tween.dur > 0 /\ a.active) => a.elapsed \in 0..a.tween.dur

(* When a one-shot animation of alpha ends in an update, alpha is left at the
   tween's end, unless a later animation of alpha wrote after it.  One of a
   place leaves its widget where the layout of this update puts it: the layout
   overwrites what the animation wrote. *)
AtTarget(n) ==
  LET a    == anims[n]
      ends == a.active /\ ~anims'[n].active /\ anims'[n].elapsed # a.elapsed
  IN /\ (ends /\ a.tween.prop = "alpha"
         /\ \A m \in DOMAIN anims : (m > n /\ anims[m].widget = a.widget
                                     /\ anims[m].tween.prop = "alpha") => ~anims[m].active)
          => widgets'[a.widget].alpha = a.tween.to
     /\ (ends /\ a.tween.prop # "alpha") => widgets'[a.widget].pos = Placed
EndsAtTarget == [][\A n \in DOMAIN anims : AtTarget(n)]_vars

(* Each widget is called at most once for an event, in the order of creation,
   and only if it is shown, whatever the callbacks before it have done. *)
CalledOnceInOrder ==
  /\ \A i, j \in DOMAIN called : i < j => called[i].w < called[j].w
  /\ \A i \in DOMAIN called : called[i].was.visible /\ called[i].was.interactive

(* A widget that a callback adds has no place yet: the event under way does
   not reach it, except at the origin, where the empty rectangle is hit. *)
NewcomersNotCalled ==
  (~Idle /\ ~event.origin) => \A i \in DOMAIN called : called[i].w <= event.count

(* A frame shows the visible widgets in the order of creation, and a full batch
   cuts off the last of them: those on top.  (Of the last one shown it may take
   only some of the quads.) *)
ShowsVisiblePrefix(quads) ==
  LET shown == {w \in Ids : widgets[w].visible}
      seen  == {quads[q] : q \in DOMAIN quads}
      cut   == IF seen = {} THEN 0 ELSE Max(seen)
  IN /\ \A p, q \in DOMAIN quads : p < q => quads[p] <= quads[q]
     /\ seen = {w \in shown : w <= cut}
     /\ seen # shown => Len(quads) = MaxQuads

(* The scene is walked in order, by events and by frames, while callbacks
   change it. *)
WalkedInOrder ==
  [][/\ TypeOK' /\ CalledOnceInOrder' /\ NewcomersNotCalled'
     /\ drawn' # drawn => ShowsVisiblePrefix(drawn')]_vars

(* Every one-shot animation of some duration ends, if the scene is updated. *)
OneShotsEnd ==
  \A n \in 1..MaxAnims :
    (n \in DOMAIN anims /\ ~anims[n].tween.loop /\ anims[n].tween.dur > 0) ~> (n \in DOMAIN anims /\ ~anims[n].active)

=============================================================================
