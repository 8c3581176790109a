------------------------------ MODULE TuiScreen ------------------------------
(***************************************************************************)
(* When a terminal client redraws (main of apps/fix_tui_client.py, with    *)
(* non-blocking input).  The threads of TuiClient.tla share a flag: the    *)
(* receive thread and the log set it, and the command thread draws when it *)
(* is set and clears it when it has drawn.  Drawing takes its copy of the  *)
(* orders at the beginning and then prints for a while.                    *)
(***************************************************************************)
EXTENDS TuiClient

VARIABLES
  dirty,     \* client -> "Needs TUI redraw"
  screen,    \* client -> the orders last drawn
  drawing    \* client -> "never" drawn yet, "yes" or "no"

display == <<dirty, screen, drawing>>

-----------------------------------------------------------------------------

ScreenInit ==
  /\ Init
  /\ dirty = [c \in Clients |-> FALSE]
  /\ screen = [c \in Clients |-> <<>>]
  /\ drawing = [c \in Clients |-> "never"]

\* render_tui as far as it reads the orders, in one go: Python's RuntimeError when
\* the receive thread adds one meanwhile is left out.
Draw(c, then) ==
  /\ screen' = [screen EXCEPT ![c] = orders[c]]
  /\ drawing' = [drawing EXCEPT ![c] = then]

\* "Reset dirty flag after initial setup", and the first drawing.
FirstDraw(c) ==
  /\ Commanding(c) /\ drawing[c] = "never"
  /\ dirty' = [dirty EXCEPT ![c] = FALSE]
  /\ Draw(c, "no")
  /\ UNCHANGED vars

Redraw(c) ==
  /\ Commanding(c) /\ drawing[c] = "no" /\ dirty[c]
  /\ Draw(c, "yes")
  /\ UNCHANGED <<dirty, vars>>

\* The flag is cleared after the drawing, whoever has set it meanwhile.
Clean(c) ==
  /\ drawing[c] = "yes"
  /\ dirty' = [dirty EXCEPT ![c] = FALSE]
  /\ drawing' = [drawing EXCEPT ![c] = "no"]
  /\ UNCHANGED <<screen, vars>>

\* Whatever is typed is drawn with the orders, and leaves the flag alone.
KeyPressed(c) ==
  /\ Commanding(c) /\ drawing[c] = "no"
  /\ Draw(c, "no")
  /\ UNCHANGED <<dirty, vars>>

MarkDirty(c) == dirty' = [dirty EXCEPT ![c] = TRUE] /\ UNCHANGED <<screen, drawing>>

\* A command logs what it did.
Type(c) ==
  /\ drawing[c] = "no"
  /\ submit_user_order(c) \/ RequestCancel(c)
  /\ MarkDirty(c)

\* The process begins and ends with a screen of its own.
Restart(c) ==
  /\ Start(c) \/ (drawing[c] = "no" /\ Quit(c))
  /\ dirty' = [dirty EXCEPT ![c] = FALSE]
  /\ screen' = [screen EXCEPT ![c] = <<>>]
  /\ drawing' = [drawing EXCEPT ![c] = "never"]

Shows(c) ==
  \/ FirstDraw(c) \/ Redraw(c) \/ Clean(c) \/ KeyPressed(c)
  \/ Type(c) \/ Restart(c)
  \/ handle_message(c) /\ MarkDirty(c)
  \/ (submit_bg_order(c) \/ StorePending(c) \/ Serve(c)) /\ UNCHANGED display

ScreenSpec == ScreenInit /\ [][\E c \in Clients : Shows(c)]_<<vars, display>>

-----------------------------------------------------------------------------
(* The property.                                                           *)

\* "The client immediately updates the book view": a client that has received
\* every report and has nothing left to redraw shows its orders as they are.
ScreenIsCurrent ==
  \A c \in Clients :
    CaughtUp(c) /\ drawing[c] = "no" /\ ~dirty[c] => screen[c] = orders[c]
=============================================================================
