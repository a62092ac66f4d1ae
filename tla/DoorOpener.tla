----------------------------- MODULE DoorOpener -----------------------------
(***************************************************************************)
(* What the program promises the door: the opener has a button to open and *)
(* one to close, of which never two are pressed; a button is pressed only  *)
(* for an order to do so, and let go when it has been held long enough, or *)
(* when the order has been countermanded.                                  *)
(***************************************************************************)
EXTENDS Integers

CONSTANT PulseLen      \* DOOR_CONTROL_PULSE_LEN_MS / 10

Buttons == {"open", "close"}

VARIABLES
  wanted,     \* the button that is to be pressed, or "none"
  pressed,    \* the buttons that are pressed
  held        \* 10 ms ticks since the last order and since a button moved

openerVars == <<wanted, pressed, held>>

OpenerInit == wanted = "none" /\ pressed = {} /\ held = 0

Tick == held' = held + 1 /\ UNCHANGED <<wanted, pressed>>

(* An order begins a pulse, also in the middle of another. *)
Order(b) == wanted' = b /\ held' = 0 /\ UNCHANGED pressed

Press ==
  /\ wanted # "none" /\ pressed = {}
  /\ pressed' = {wanted} /\ held' = 0
  /\ UNCHANGED wanted

Finish ==
  /\ wanted # "none" /\ pressed = {wanted} /\ held >= PulseLen
  /\ wanted' = "none"
  /\ UNCHANGED <<pressed, held>>

Release ==
  /\ pressed # {} /\ wanted \notin pressed
  /\ pressed' = {} /\ held' = 0
  /\ UNCHANGED wanted

(* The program restarts: its outputs are those of setup(). *)
Restart == wanted' = "none" /\ pressed' = {} /\ held' = 0

OpenerNext ==
  \/ Tick \/ Press \/ Finish \/ Release \/ Restart
  \/ \E b \in Buttons : Order(b)

OpenerSpec == OpenerInit /\ [][OpenerNext]_openerVars
=============================================================================
