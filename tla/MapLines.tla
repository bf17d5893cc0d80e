------------------------------ MODULE MapLines ------------------------------
(***************************************************************************)
(* The lines of the network map (web/app/components/AccessGraph.tsx).  An  *)
(* effect compares what the page's lists say with what it built last and   *)
(* hands React Flow a new set of lines only if the two differ; in between  *)
(* React Flow adds and removes lines by itself.  Two locations linked both *)
(* ways are drawn as one bus, whose forming and splitting takes a while    *)
(* and is kept in refs and timers beside the lists.                        *)
(*                                                                         *)
(* What the calls of the map do to the lists is Groups' and Traffic's      *)
(* matter: here the lists may become anything.  A line is a record of what *)
(* it joins and how it looks; colours, widths and cards are left out.      *)
(***************************************************************************)
CONSTANTS
    Devices,    \* devices the page may list
    Places,     \* locations, the internet's among them
    Hub,        \* and this is that: nothing is linked to it, no line starts from it
    Frames,     \* ids of groups
    Nobody      \* nothing is selected, or there is no such device, group or list

VARIABLES
    listed,     \* the lists of the page: what each device reaches, active nodes, links
    frames,     \* the groups, as this map has them
    mapReady,   \* their blob was loaded, or could not be
    selected,   \* the card clicked last
    pairWas,    \* how each pair of locations was linked when lines were built last
    tx,         \* the pairs whose bus is forming or splitting
    built,      \* the lines built last
    drawn,      \* the lines React Flow has
    editor,     \* what the line joins that is being edited
    asked       \* the calls of the latest deletion, connection or edit

mapVars == <<listed, frames, mapReady, selected, pairWas, tx, built, drawn, editor, asked>>

ASSUME MapAssumption ==
    /\ Devices \cap Places = {} /\ Devices \cap Frames = {} /\ Places \cap Frames = {}
    /\ Nobody \notin Devices \cup Places \cup Frames

Duo(l)   == {l[1], l[2]}
Unlisted == {Nobody}
NoFrame  == {Nobody}
Lists    == [reach  : [Devices -> (SUBSET Places) \cup {Unlisted}],
             places : SUBSET Places,
             links  : SUBSET {l \in Places \X Places : l[1] # l[2] /\ Hub \notin Duo(l)}]

\* joinGroup takes in no device that is in a group.
FrameSets == {f \in [Frames -> (SUBSET Devices) \cup {NoFrame}] :
                \A g, h \in Frames : g # h => (f[g] \ NoFrame) \cap (f[h] \ NoFrame) = {}}

Duos == {Duo(l) : l \in Places \X Places}

---------------------------------------------------------------------------
(* What the lists say.                                                     *)

OpenFrames == {g \in Frames : frames[g] # NoFrame}
MembersListed(g) == {c \in frames[g] : listed.reach[c] # Unlisted}
Seated     == UNION {MembersListed(g) : g \in OpenFrames}
OnMap      == {c \in Devices : listed.reach[c] # Unlisted} \cup listed.places \cup OpenFrames

\* A device's own lines; a group has one for each destination of its members.
ReachEnds ==
    {e \in Devices \X listed.places :
        e[1] \notin Seated /\ listed.reach[e[1]] # Unlisted /\ e[2] \in listed.reach[e[1]]}
    \cup {e \in OpenFrames \X listed.places : \E c \in MembersListed(e[1]) : e[2] \in listed.reach[c]}

AliveLinks == {l \in listed.links : Duo(l) \subseteq listed.places}

Shape(p) ==
    LET here == {l \in AliveLinks : Duo(l) = p} IN
      IF here = {} THEN "none"
      ELSE IF \E l \in here : <<l[2], l[1]>> \in listed.links THEN "bus" ELSE "one"
Shapes == [p \in Duos |-> Shape(p)]

---------------------------------------------------------------------------
(* What the selection brings forward.                                      *)

FirstOf(holders) == CHOOSE g \in holders : TRUE

\* A member's lines belong to its group; a card that is gone fades nothing.
Anchor ==
    LET holders == {g \in OpenFrames : selected \in MembersListed(g)} IN
      IF selected \notin OnMap THEN Nobody
      ELSE IF selected \in Seated THEN FirstOf(holders) ELSE selected

Look(ends) == IF Anchor = Nobody THEN "rest" ELSE IF Anchor \in Duo(ends) THEN "lit" ELSE "faded"

ClickSelected == selected

\* selectionAnchor and inSelection: the same for clicks and deletions, from the groups
\* as they are and whether or not the card is there.
ClickAnchor ==
    LET holders == {g \in OpenFrames : selected \in frames[g]} IN
      IF holders # {} THEN FirstOf(holders) ELSE selected

InSelection(line) == ClickAnchor = Nobody \/ ClickAnchor \in Duo(line.ends)

---------------------------------------------------------------------------
(* The lines.                                                              *)

Line(kind, ends, move) ==
    [kind |-> kind, ends |-> ends, look |-> Look(ends),
     move |-> IF Look(ends) = "faded" THEN "none" ELSE move]

HeldBus(p) == Shape(p) = "bus" \/ tx[p] = "split"

\* A bus that splits stays on the screen, in place of the link that is left; its id
\* (busEdgeId) names the two locations in an order of its own.
AsBus(p) == Shape(p) = "bus" \/ (Shape(p) = "one" /\ tx[p] = "split")
EndsOf(p) == CHOOSE l \in Places \X Places : Duo(l) = p

Lines ==
    {Line("reach", e, "none") : e \in ReachEnds}
    \cup {Line("bus", EndsOf(p), tx[p]) : p \in {q \in Duos : AsBus(q)}}
    \cup {Line("link", l, "none") : l \in {k \in AliveLinks : ~ AsBus(Duo(k))}}

Began(was, now) == CASE was = "one" /\ now = "bus" -> "form"
                     [] was = "bus" /\ now = "one" -> "split"
                     [] OTHER -> "none"

\* startBusTx: not where one is playing, and none for who wants no motion (still).
\* What the map finds on its first build does not move.
Started(playing, still) ==
    [p \in Duos |-> IF playing[p] # "none" \/ still \/ pairWas = Nobody THEN playing[p]
                    ELSE Began(pairWas[p], Shape(p)')]

\* The effect that runs after every change of what it depends on.
Reconcile(playing) ==
    IF ~ mapReady' THEN tx' = playing /\ UNCHANGED <<pairWas, built, drawn>>
    ELSE /\ \E still \in BOOLEAN : tx' = Started(playing, still)
         /\ pairWas' = Shapes'
         /\ built' = Lines'
         /\ drawn' = IF Lines' # built THEN Lines' ELSE drawn

Unmoved == [p \in Duos |-> "none"]
NoEditor == <<Nobody, Nobody>>

\* A map that has just been mounted: no state, refs or lines yet.
MapInit ==
    /\ listed \in Lists
    /\ frames = [g \in Frames |-> NoFrame]
    /\ mapReady = FALSE /\ selected = Nobody /\ editor = NoEditor
    /\ pairWas = Nobody /\ tx = Unmoved
    /\ built = {} /\ drawn = {} /\ asked = {}

---------------------------------------------------------------------------
(* The handlers.                                                           *)

\* Another tab is opened and this one again.
Remount ==
    /\ mapReady
    /\ frames' = [g \in Frames |-> NoFrame]
    /\ mapReady' = FALSE /\ selected' = Nobody /\ editor' = NoEditor
    /\ pairWas' = Nobody /\ tx' = Unmoved
    /\ built' = {} /\ drawn' = {} /\ asked' = {}
    /\ UNCHANGED listed

LayoutArrives(f) ==
    /\ ~ mapReady
    /\ mapReady' = TRUE
    /\ frames' = f
    /\ UNCHANGED <<listed, selected, editor, asked>>
    /\ Reconcile(tx)

\* load: setIfChanged lets only lists through that differ.
ListsChange(l) ==
    /\ l # listed
    /\ listed' = l
    /\ UNCHANGED <<frames, mapReady, selected, editor, asked>>
    /\ Reconcile(tx)

\* saveLayout, for whatever handler of the groups.
GroupsChange(f) ==
    /\ mapReady /\ f # frames
    /\ frames' = f
    /\ UNCHANGED <<listed, mapReady, selected, editor, asked>>
    /\ Reconcile(tx)

\* Clicking a card selects it, clicking it again or the canvas selects nothing.
Select(card) ==
    /\ mapReady /\ card # selected
    /\ selected' = card
    /\ UNCHANGED <<listed, frames, mapReady, editor, asked>>
    /\ Reconcile(tx)

ClickCard(card) == card \in OnMap /\ Select(IF selected = card THEN Nobody ELSE card)
ClickPane == Select(Nobody)

\* The timer of startBusTx.
TransitionEnds(p) ==
    /\ tx[p] # "none"
    /\ UNCHANGED <<listed, frames, mapReady, selected, editor, asked>>
    /\ Reconcile([tx EXCEPT ![p] = "none"])

\* A line is drawn by hand, and shown before the call is answered; addEdge adds none
\* where there is one from the same card to the same card (a bus may run either way).
ByHand(from, to) == [kind |-> IF from \in Places THEN "link" ELSE "reach", ends |-> <<from, to>>,
                     look |-> "rest", move |-> "none"]

Connect(from, to) ==
    /\ mapReady /\ from \in OnMap \ (Seated \cup {Hub}) /\ to \in listed.places /\ from # to
    /\ asked' = CASE from \in Frames  -> {<<"grant", c, to>> : c \in frames[from]}
                  [] from \in Devices -> {<<"grant", from, to>>}
                  [] OTHER            -> {<<"link", from, to>>}
    /\ \E there \in BOOLEAN :
         /\ (\E d \in drawn : d.kind # "bus" /\ d.ends = <<from, to>>) => there
         /\ there => \E d \in drawn : Duo(d.ends) = {from, to}
         /\ drawn' = IF from \in Frames \/ there THEN drawn ELSE drawn \cup {ByHand(from, to)}
    /\ UNCHANGED <<listed, frames, mapReady, selected, pairWas, tx, built, editor>>

UndoesOneWay(line) ==
    IF line.ends[1] \in Frames THEN {<<"revoke", c, line.ends[2]>> : c \in frames[line.ends[1]] \ NoFrame}
    ELSE {<<IF line.kind = "reach" THEN "revoke" ELSE "unlink", line.ends[1], line.ends[2]>>}

\* onEdgesDelete: a bus is both links, a group's line the grant of every member.
Undoes(line) ==
    LET a    == line.ends[1]
        b    == line.ends[2]
        ways == IF line.kind = "bus" THEN {<<a, b>>, <<b, a>>} ELSE {<<a, b>>}
        from == IF a \in Frames THEN frames[a] \ NoFrame ELSE {a}
    IN  IF line.kind = "reach" THEN {<<"revoke", c, b>> : c \in from}
        ELSE {<<"unlink", w[1], w[2]>> : w \in ways}

\* React Flow takes the lines off, those of a selected card too; the page leaves out
\* what is not in the selection.
DeleteLines(S) ==
    /\ S # {} /\ S \subseteq {e \in drawn : e.look # "faded"}
    /\ drawn' = drawn \ S
    /\ asked' = UNION {Undoes(e) : e \in {d \in S : InSelection(d)}}
    /\ UNCHANGED <<listed, frames, mapReady, selected, pairWas, tx, built, editor>>

\* A line's editor opens; it is there as long as what the line joins is.
ClickLine(e) ==
    /\ e \in drawn /\ InSelection(e)
    /\ editor' = e.ends
    /\ UNCHANGED <<listed, frames, mapReady, selected, pairWas, tx, built, drawn, asked>>

EditorShown ==
    /\ editor # NoEditor /\ Duo(editor) \subseteq OnMap
    /\ editor[1] \in Frames => frames[editor[1]] # {}

CloseEditor ==
    /\ EditorShown
    /\ editor' = NoEditor
    /\ UNCHANGED <<listed, frames, mapReady, selected, pairWas, tx, built, drawn, asked>>

\* RulesModal's "Remove access entirely", and LinkModal's three ways: it takes a bus for
\* the link from its first end to its second, and the way back for another.
Edit(op) ==
    /\ EditorShown
    /\ LET a == editor[1]
           b == editor[2]
       IN  CASE op = "remove" /\ a \notin Places ->
                  asked' = {<<"revoke", c, b>> : c \in IF a \in Frames THEN frames[a] ELSE {a}}
             [] op = "remove" /\ a \in Places -> asked' = {<<"unlink", a, b>>}
             [] op = "reverse" -> /\ a \in Places
                                  /\ asked' = {<<IF <<b, a>> \in listed.links THEN "unlink" ELSE "link", b, a>>}
    /\ editor' = NoEditor
    /\ UNCHANGED <<listed, frames, mapReady, selected, pairWas, tx, built, drawn>>

MapHandlers ==
    \/ Remount \/ ClickPane
    \/ \E f \in FrameSets : LayoutArrives(f) \/ GroupsChange(f)
    \/ \E card \in OnMap : ClickCard(card)
    \/ \E p \in Duos : TransitionEnds(p)
    \/ \E from \in OnMap, to \in Places : Connect(from, to)
    \/ \E S \in SUBSET drawn : DeleteLines(S)
    \/ \E e \in drawn : ClickLine(e)
    \/ CloseEditor \/ \E op \in {"remove", "reverse"} : Edit(op)

MapNext == MapHandlers \/ \E l \in Lists : ListsChange(l)

MapSpec == MapInit /\ [][MapNext]_mapVars

---------------------------------------------------------------------------
(* Properties.                                                             *)

\* "Mirrors the highlight rule" (AccessGraph.tsx:763-766): as long as the card that is
\* selected is there, the lines that answer to clicks and deletions are those that are
\* not faded, whichever way groups, lists and selection have changed since.
ClicksMirrorTheHighlight ==
    mapReady /\ selected \in OnMap \cup {Nobody} =>
      \A e \in drawn \cap built : InSelection(e) <=> e.look # "faded"

\* Two locations are joined by one line of the map, and by what the lists say: only
\* while a bus splits may it stand for a single link ("hold the bus on screen until it
\* finishes", AccessGraph.tsx:398-399).  Lines drawn by hand are left out.
OneLinePerPair ==
    mapReady =>
      \A p \in Duos :
        LET on == {e \in drawn \cap built : e.kind # "reach" /\ Duo(e.ends) = p} IN
          /\ \A d, e \in on : d = e
          /\ \A e \in on : \/ Shape(p) = "bus" /\ e.kind = "bus"
                           \/ Shape(p) = "one" /\ e.kind = IF tx[p] = "split" THEN "bus" ELSE "link"

\* The lists once all these calls have succeeded.
Without(calls) ==
    [reach |-> [c \in Devices |-> IF listed.reach[c] = Unlisted THEN Unlisted
                                  ELSE {n \in listed.reach[c] : <<"revoke", c, n>> \notin calls}],
     links |-> {l \in listed.links : <<"unlink", l[1], l[2]>> \notin calls}]

\* Nothing the lists would say then draws this line.
GoneBy(line, lists) ==
    LET from == IF line.ends[1] \in Frames THEN MembersListed(line.ends[1]) ELSE {line.ends[1]} IN
      IF line.kind = "reach" THEN \A c \in from : line.ends[2] \notin lists.reach[c]
      ELSE \A l \in lists.links : Duo(l) # Duo(line.ends)

Strikes ==
    built' = built /\ selected \in OnMap \cup {Nobody} =>
      \A e \in (drawn \ drawn') \cap built : GoneBy(e, Without(asked'))

\* A line that is deleted is one the page asks the panel to undo, entirely: with these
\* calls done nothing is left that would draw it again.
StruckLinesGo == [][Strikes]_mapVars
=============================================================================
