------------------------------ MODULE MapCards ------------------------------
(***************************************************************************)
(* Where the cards of the network map lie (web/app/components/             *)
(* AccessGraph.tsx, web/app/lib/groups.ts).  A card in a group is a child  *)
(* of the group's frame, and its coordinates count from the frame's        *)
(* corner; any other card's count from the page's.  Nothing in a pair of   *)
(* numbers says which, and the map keeps several copies of every position: *)
(* React Flow's, the map's own (layout.current), the panel's blob, and for *)
(* a card just dragged out one to be used once (detached).                 *)
(*                                                                         *)
(* Of a position only what it counts from is kept.  The groups are the     *)
(* map's, as handlers that do not move cards leave them.                   *)
(***************************************************************************)
CONSTANTS
    Cards,      \* the devices
    Boxes,      \* the ids of groups
    Loose       \* what a card without a group is in

ASSUME CardsAssumption == Loose \notin Boxes /\ Cards # {}

VARIABLES
    known,      \* "new", "listed" or "deleted", for each device
    shownMap,   \* the blob was loaded, or could not be
    mine,       \* layout.current and groupsRef.current
    saved,      \* the same, as the panel stores it
    held,       \* the card as React Flow has it: what its position counts from
    parent,     \* and its parentId
    due,        \* the timer of persist is running
    left        \* what the timers of maps that were left will write

cardVars == <<known, shownMap, mine, saved, held, parent, due, left>>

Origins  == {"none", "page", "frame"}

\* A layout: where positions count from, the group of each device, the groups there
\* are; and the cards that lie wrong since they were let go of without being moved.
Layouts  == [at : [Cards -> Origins], box : [Cards -> Boxes \cup {Loose}],
             open : SUBSET Boxes, astray : SUBSET Cards]
NoLayout == [at |-> [c \in Cards |-> "none"], box |-> [c \in Cards |-> Loose],
             open |-> {}, astray |-> {}]
NoCards  == [c \in Cards |-> "none"]

Inside(l, c) == l.box[c] # Loose
ListedCards  == {c \in Cards : known[c] = "listed"}

SeatAsItLay(c, detached) ==
    LET at == IF Inside(mine', c) \/ held[c] = "none" THEN mine'.at[c] ELSE held[c] IN
      IF at # "none" THEN at ELSE IF Inside(mine', c) THEN "frame" ELSE "page"

\* The node build of the reconcile effect: a member sits where the layout says, or in
\* the stack; any other card where it was let go (detached, used once), where it lies,
\* where it was saved to lie, or by default.
Seat(c, detached) ==
    LET at    == mine'.at[c]
        there == IF held[c] # "none" THEN held[c] ELSE IF at = "none" THEN "page" ELSE at
    IN  IF Inside(mine', c) THEN IF at = "none" THEN "frame" ELSE at
        ELSE IF c \in detached THEN "page" ELSE there

Build(detached) ==
    /\ held' = [c \in Cards |-> IF known'[c] = "listed" THEN Seat(c, detached) ELSE "none"]
    /\ parent' = [c \in Cards |-> IF known'[c] = "listed" THEN mine'.box[c] ELSE Loose]

NothingBuilt == held' = NoCards /\ parent' = [c \in Cards |-> Loose]

CardsInit ==
    /\ known \in [Cards -> {"new", "listed"}]
    /\ shownMap = FALSE /\ due = FALSE
    /\ mine = NoLayout /\ saved = NoLayout /\ left = {}
    /\ held = NoCards /\ parent = [c \in Cards |-> Loose]

\* The one load of a map: a blob that cannot be had is none.
LoadMap ==
    /\ ~ shownMap
    /\ shownMap' = TRUE
    /\ mine' \in {saved, NoLayout}
    /\ UNCHANGED <<known, saved, due, left>>
    /\ Build({})

\* Another tab: the timer of a map that is left is not cleared, and writes what the map
\* had.  Its refs start anew with the next map.
LeaveMap ==
    /\ shownMap
    /\ left' = IF due THEN left \cup {mine} ELSE left
    /\ shownMap' = FALSE /\ due' = FALSE /\ mine' = NoLayout
    /\ NothingBuilt
    /\ UNCHANGED <<known, saved>>

TimerOfLeftMap ==
    \E l \in left :
      /\ saved' = l
      /\ left' = left \ {l}
      /\ UNCHANGED <<known, shownMap, mine, held, parent, due>>

\* A poll: devices are added and deleted, elsewhere or by the dialogs of this page.
PollCards(now) ==
    /\ now # known
    /\ \A c \in Cards : now[c] = known[c] \/ (known[c] = "new" /\ now[c] = "listed")
                                          \/ (known[c] = "listed" /\ now[c] = "deleted")
    /\ known' = now
    /\ UNCHANGED <<shownMap, mine, saved, due, left>>
    /\ IF shownMap THEN Build({}) ELSE UNCHANGED <<held, parent>>

\* saveLayout writes positions and groups together.
SaveGroups(l) ==
    /\ mine' = l
    /\ saved' = l
    /\ UNCHANGED <<known, shownMap, due, left>>
    /\ Build({})

\* createGroup, and updateGroup with a name, a colour or a size.
OpenBox(g) == shownMap /\ g \notin mine.open /\ SaveGroups([mine EXCEPT !.open = @ \cup {g}])
PatchBox   == shownMap /\ mine.open # {} /\ SaveGroups(mine)

\* GroupModal's "Take out" and "Dissolve": no position is touched, so that a card that
\* lay in the frame lies wrong.
LetGo(S) == [mine EXCEPT !.box = [c \in Cards |-> IF c \in S THEN Loose ELSE @[c]],
                         !.astray = @ \cup S]

TakeOutOfBox(c) == shownMap /\ c \in ListedCards /\ Inside(mine, c) /\ SaveGroups(LetGo({c}))

DissolveBox(g) ==
    /\ shownMap /\ g \in mine.open
    /\ LET l == LetGo({c \in Cards : mine.box[c] = g})
       IN  SaveGroups([l EXCEPT !.open = @ \ {g}])

\* persist(getNodes()): every card on the map, as React Flow has it, and of those only.
Persisted == [mine EXCEPT !.at = held]

\* A drag ends: first every position is taken down, then the card dropped on a group
\* joins it, in the next place of its stack, or leaves the frame it was dragged out of.
DropOnBox(c, g) ==
    /\ shownMap /\ c \in ListedCards /\ g \in mine.open /\ ~ Inside(mine, c)
    /\ mine' = [Persisted EXCEPT !.at[c] = "frame", !.box[c] = g, !.astray = @ \ {c}]
    /\ saved' = mine' /\ due' = TRUE
    /\ UNCHANGED <<known, shownMap, left>>
    /\ Build({})

DropOutside(c) ==
    /\ shownMap /\ c \in ListedCards /\ Inside(mine, c)
    /\ mine' = [Persisted EXCEPT !.at[c] = "page", !.box[c] = Loose]
    /\ saved' = mine' /\ due' = TRUE
    /\ UNCHANGED <<known, shownMap, left>>
    /\ Build({c})

\* A drag that changes no group; the map is not built anew.
DropInPlace ==
    /\ shownMap
    /\ mine' = Persisted /\ due' = TRUE
    /\ UNCHANGED <<known, shownMap, saved, held, parent, left>>

PersistTimer ==
    /\ due /\ due' = FALSE
    /\ saved' = mine
    /\ UNCHANGED <<known, shownMap, mine, held, parent, left>>

\* The wizard puts a new device where the menu was opened, and writes the positions
\* alone: what is stored has no groups until the next saveLayout, and the members'
\* positions have lost their frame.
WizardPlaces(c) ==
    /\ shownMap /\ known[c] # "deleted" /\ ~ Inside(mine, c)
    /\ mine' = [mine EXCEPT !.at[c] = "page"]
    /\ saved' = [at |-> mine'.at, box |-> NoLayout.box, open |-> {},
                 astray |-> mine.astray \cup {d \in Cards : Inside(mine, d)}]
    /\ UNCHANGED <<known, shownMap, held, parent, due, left>>

CardsNext ==
    \/ LoadMap \/ LeaveMap \/ TimerOfLeftMap \/ PersistTimer
    \/ PatchBox \/ DropInPlace
    \/ \E now \in [Cards -> {"new", "listed", "deleted"}] : PollCards(now)
    \/ \E g \in Boxes : OpenBox(g) \/ DissolveBox(g) \/ \E c \in Cards : DropOnBox(c, g)
    \/ \E c \in Cards : TakeOutOfBox(c) \/ DropOutside(c) \/ WizardPlaces(c)

CardsSpec == CardsInit /\ [][CardsNext]_cardVars

---------------------------------------------------------------------------
(* Properties.                                                             *)

Agrees(l) == \A c \in Cards \ l.astray : l.at[c] # "none" => (l.at[c] = "frame" <=> Inside(l, c))

\* A card lies in its frame or on the page, and its coordinates count from there: on the
\* screen, in what the map remembers, in what the panel stores and in what a timer is
\* still to write ("members then drew outside their own frame", AccessGraph.tsx:852-855;
\* "read as absolute they land the card near the canvas origin", 698-703).  The cards the
\* dialog of a group lets go of, and those whose groups the wizard wrote over, are left
\* out: no code moves them.
CardsInTheirFrame ==
    /\ Agrees(mine) /\ Agrees(saved) /\ \A l \in left : Agrees(l)
    /\ shownMap => \A c \in ListedCards : /\ parent[c] = mine.box[c]
                                          /\ c \notin mine.astray => (held[c] = "frame" <=> Inside(mine, c))
=============================================================================
