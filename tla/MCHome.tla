-------------------------------- MODULE MCHome --------------------------------
(* The windows' parts that share no state, each explored from its own initial *)
(* state while the others rest: the lists, the search page with the detail    *)
(* screen, the data folder, and the player's window.                          *)
EXTENDS Pages, Search, DataLocation, PlayerWindow, TLC

VARIABLE part

homeVars == <<part, pagesVars, searchVars, vars, windowVars>>

HomeInit ==
    /\ part \in {"pages", "search", "data", "player"}
    /\ PagesInit /\ SearchInit /\ Init /\ WindowInit
    /\ part # "search" => listed = {}
    /\ part # "data" => \A f \in Folders : disk[f] = [main |-> None, wal |-> None]
    /\ \A f \in Folders : disk[f].wal # {}  \* bound: a -wal file that is there holds something

\* Bounds over the lists: the window closes before the user has done two
\* things there, and one list at a time has failed to be read.
Unread == {p \in Lists : shown[p] = Failed} \cup {l.list : l \in {k \in loads : k.got = Failed}}
ClosesEarly == window # window' => clicks < 2
OneFailure == Cardinality(Unread') <= 1

\* Bounds: the viewer holds down a key or the mouse button, not both, and the key
\* that is held while the keyboard moves with another is Esc.
OneHand == ~(button' /\ down' # {})
EscIsKept == kept' \subseteq {"esc"}

HomeNext ==
    \/ part = "pages" /\ PagesNext /\ ClosesEarly /\ OneFailure /\ UNCHANGED <<part, searchVars, vars, windowVars>>
    \/ part = "search" /\ SearchNext /\ UNCHANGED <<part, pagesVars, vars, windowVars>>
    \/ part = "data" /\ Next /\ UNCHANGED <<part, pagesVars, searchVars, windowVars>>
    \/ part = "player" /\ WindowNext /\ OneHand /\ EscIsKept /\ UNCHANGED <<part, pagesVars, searchVars, vars>>

\* The writes are alike.
Alike == Permutations(Writes)

HomeSpec == HomeInit /\ [][HomeNext]_homeVars
=============================================================================
