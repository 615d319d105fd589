-------------------------- MODULE GraphicsLibrary --------------------------
(***************************************************************************)
(* What the graphics library promises an application, without driver, bus  *)
(* and rectangle: it keeps account of what the display does not show yet.  *)
(* What is drawn stays drawn until it is taken, what is taken stays due    *)
(* until it arrives on the display, and a show is over when all that was   *)
(* drawn before has been taken.  There are two excuses: a transfer failed  *)
(* (or was of memory behind the framebuffer), or the window of one was     *)
(* moved before it was used.                                               *)
(***************************************************************************)
CONSTANT Positions      \* the segments of the framebuffer

VARIABLES
    showing,    \* a show was asked for and is not over: nobody draws
    drawn,      \* segments drawn and not taken since
    due,        \* segments taken, and on their way to the display
    wrong,      \* segments of the display that differ from what was drawn
    lost,       \* segments that a transfer of the Fails action may have spoilt
    moved       \* the window of a transfer was moved

vars == <<showing, drawn, due, wrong, lost, moved>>

Init ==
    /\ showing = FALSE
    /\ drawn = Positions
    /\ due = {}
    /\ wrong = Positions
    /\ lost = {}
    /\ moved = FALSE

(* Of what is due, no more than these segments leaves. *)
Leave(segments) == due' \subseteq due /\ due \ segments \subseteq due'

(* What is drawn while it is on its way has to go again. *)
Draw(segments) ==
    /\ ~showing
    /\ drawn' = drawn \cup segments
    /\ wrong' = wrong \cup segments
    /\ Leave(segments)
    /\ UNCHANGED <<showing, lost, moved>>

(* A show with nothing drawn may send again what was sent before. *)
Show ==
    /\ showing' = TRUE
    /\ due \subseteq due'
    /\ UNCHANGED <<drawn, wrong, lost, moved>>

(* What is drawn is taken when a show was asked for; what the display      *)
(* shows at power-up is replaced unasked.  More may be taken than was      *)
(* drawn, and taking may move the window of a transfer that is due.        *)
Take ==
    /\ showing \/ drawn = Positions
    /\ drawn' = {}
    /\ drawn \cup due \subseteq due'
    /\ moved' \in {moved, TRUE}
    /\ UNCHANGED <<showing, wrong, lost>>

Arrives(segments) ==
    /\ segments \subseteq due
    /\ Leave(segments)
    /\ wrong' = wrong \ segments
    /\ lost' = lost \ segments
    /\ UNCHANGED <<showing, drawn, moved>>

(* A transfer failed, or one of memory behind the framebuffer ended: what  *)
(* the display shows is anybody's guess.                                   *)
Fails ==
    /\ due' \subseteq due
    /\ wrong' = Positions
    /\ lost' = Positions
    /\ UNCHANGED <<showing, drawn, moved>>

(* Only a moved window makes a transfer arrive in the wrong place. *)
Misplaced ==
    /\ moved
    /\ due' \subseteq due
    /\ wrong' = Positions
    /\ UNCHANGED <<showing, drawn, lost, moved>>

ShowOver ==
    /\ drawn = {}
    /\ showing' = FALSE
    /\ UNCHANGED <<drawn, due, wrong, lost, moved>>

Next ==
    \/ \E segments \in SUBSET Positions : Draw(segments) \/ Arrives(segments)
    \/ Show \/ Take \/ ShowOver
    \/ Fails \/ Misplaced

Spec == Init /\ [][Next]_vars
=============================================================================
