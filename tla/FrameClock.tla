----------------------------- MODULE FrameClock -----------------------------
(***************************************************************************)
(* The frame clock of a surface (service/frame_service.cpp): repaints are  *)
(* paced by the compositor's wl_surface.frame callbacks.                    *)
(*                                                                          *)
(* A clock holds at most one callback.  It is "armed" from the moment the   *)
(* surface asks for it and "committed" once a wl_surface commit carried the *)
(* request to the compositor: only a committed callback is ever answered.   *)
(* The draw function belongs to the surface, so the operators that reach    *)
(* it are given in the module of the surface.                               *)
(***************************************************************************)
Callbacks == {"none", "armed", "committed"}

Clock == [callback : Callbacks, redraw : BOOLEAN, mapped : BOOLEAN]

IdleClock == [callback |-> "none", redraw |-> FALSE, mapped |-> FALSE]

(* A repaint is only pending behind a callback, and only a mapped surface
   ever armed one. *)
ClockOK(c) == /\ c \in Clock
              /\ c.redraw => c.callback # "none"
              /\ c.callback # "none" => c.mapped

Armed(c) == [c EXCEPT !.callback = "armed"]

(* wl_surface_commit, also the one eglSwapBuffers performs *)
Committed(c) == [c EXCEPT !.callback = IF @ = "armed" THEN "committed" ELSE @]

(* The clock as the draw that frame_done starts finds it. *)
DoneForDraw(c) == Armed([c EXCEPT !.redraw = FALSE])

(* frame_done with no repaint pending *)
DoneIdle(c) == [c EXCEPT !.callback = "none"]

(* request_frame: the clock as the first, synchronous draw finds it *)
FirstDraw(c) == Armed([c EXCEPT !.mapped = TRUE])

(* request_frame behind a callback: remembered only *)
Deferred(c) == [c EXCEPT !.redraw = TRUE]

(* request_frame on a mapped surface with no callback: nothing is painted;
   the commit of a damaged pixel makes the compositor answer *)
Scheduled(c) == Committed(Armed([c EXCEPT !.redraw = TRUE]))
=============================================================================
