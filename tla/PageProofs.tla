------------------------------ MODULE PageProofs ------------------------------
(***************************************************************************)
(* Proofs about the page: the lines and the cards of the map (MapLines,    *)
(* MapCards), the dialogs over it (PanelPage) and its colours (Palette),   *)
(* for every set of devices, locations, groups and hues.  The four share   *)
(* nothing but the page they are on; each has an inductive invariant of    *)
(* its own.                                                                *)
(***************************************************************************)
EXTENDS MapLines, MapCards, PanelPage, Palette, WellFoundedInduction, TLAPS

---------------------------------------------------------------------------
(* The lines of the map.                                                   *)

\* What the map builds is what its lists, groups, selection and transitions say, from the
\* load of its groups on; before, it has built nothing.
LinesInv ==
    /\ listed \in Lists
    /\ frames \in FrameSets
    /\ mapReady \in BOOLEAN
    /\ built = IF mapReady THEN Lines ELSE {}

\* The lines are a function of these four.
LEMMA SameLines ==
    ASSUME UNCHANGED <<listed, frames, selected, tx>>
    PROVE  Lines' = Lines
<1>1. /\ OpenFrames' = OpenFrames
      /\ \A g : MembersListed(g)' = MembersListed(g)
      /\ AliveLinks' = AliveLinks
  BY DEF OpenFrames, MembersListed, AliveLinks
<1>2. Seated' = Seated
  BY <1>1 DEF Seated
<1>3. ReachEnds' = ReachEnds /\ OnMap' = OnMap
  BY <1>1, <1>2 DEF ReachEnds, OnMap
<1>4. \A p : Shape(p)' = Shape(p)
  BY <1>1 DEF Shape
<1>5. Anchor' = Anchor
  BY <1>1, <1>2, <1>3 DEF Anchor
<1>6. \A kind, ends, move : Line(kind, ends, move)' = Line(kind, ends, move)
  BY <1>5 DEF Line, Look
<1>7. \A p : AsBus(p)' = AsBus(p)
  BY <1>4 DEF AsBus
<1> QED BY <1>1, <1>3, <1>6, <1>7 DEF Lines

\* The effect leaves built what the lists say by then.
LEMMA ReconcileBuilds ==
    ASSUME LinesInv, NEW playing, Reconcile(playing), mapReady => mapReady'
    PROVE  built' = IF mapReady' THEN Lines' ELSE {}
BY DEF LinesInv, Reconcile

\* A map that has just been opened has no line of its own, and nothing is selected.
LEMMA LinesInitially == MapInit => LinesInv
<1> SUFFICES ASSUME MapInit PROVE LinesInv
  OBVIOUS
<1>1. frames \in FrameSets
  BY DEF MapInit, FrameSets
<1> QED BY <1>1 DEF MapInit, LinesInv

\* Whatever the handlers change that lines are made of, the effect follows; what else they
\* change, no line shows.
LEMMA LinesStep == LinesInv /\ [MapNext]_mapVars => LinesInv'
<1> SUFFICES ASSUME LinesInv, [MapNext]_mapVars PROVE LinesInv'
  OBVIOUS
<1> DEFINE Quiet == UNCHANGED <<listed, frames, mapReady, selected, tx, built>>
<1>1. ASSUME Quiet PROVE LinesInv'
  <2>1. Lines' = Lines
    BY <1>1, SameLines
  <2>2. UNCHANGED <<listed, frames, mapReady, built>>
    BY <1>1
  <2> QED BY <2>1, <2>2 DEF LinesInv, FrameSets, NoFrame, Lists, Unlisted, Duo
<1>2. ASSUME NEW playing, Reconcile(playing), listed' \in Lists, frames' \in FrameSets,
             mapReady' \in BOOLEAN, mapReady => mapReady'
      PROVE  LinesInv'
  <2>1. built' = IF mapReady' THEN Lines' ELSE {}
    BY <1>2, ReconcileBuilds
  <2> QED BY <1>2, <2>1 DEF LinesInv, FrameSets, NoFrame, Lists, Unlisted, Duo
<1>3. listed \in Lists /\ frames \in FrameSets /\ mapReady \in BOOLEAN
  BY DEF LinesInv
<1>4. ASSUME Remount PROVE LinesInv'
  <2>1. frames' \in FrameSets
    BY <1>4 DEF Remount, FrameSets
  <2> QED BY <1>3, <1>4, <2>1 DEF Remount, LinesInv, FrameSets, NoFrame, Lists, Unlisted, Duo
<1>5. ASSUME NEW card, Select(card) PROVE LinesInv'
  BY <1>2, <1>3, <1>5 DEF Select
<1>6. ASSUME NEW f \in FrameSets, LayoutArrives(f) \/ GroupsChange(f) PROVE LinesInv'
  BY <1>2, <1>3, <1>6 DEF LayoutArrives, GroupsChange
<1>7. ASSUME NEW l \in Lists, ListsChange(l) PROVE LinesInv'
  BY <1>2, <1>3, <1>7 DEF ListsChange
<1>8. ASSUME NEW p \in Duos, TransitionEnds(p) PROVE LinesInv'
  BY <1>2, <1>3, <1>8 DEF TransitionEnds
<1>9. ASSUME NEW from, NEW to, Connect(from, to) PROVE LinesInv'
  BY <1>1, <1>9 DEF Connect
<1>10. ASSUME NEW S, DeleteLines(S) PROVE LinesInv'
  BY <1>1, <1>10 DEF DeleteLines
<1>11. ASSUME NEW e, ClickLine(e) PROVE LinesInv'
  BY <1>1, <1>11 DEF ClickLine
<1>12. ASSUME CloseEditor \/ \E op \in {"remove", "reverse"} : Edit(op) PROVE LinesInv'
  BY <1>1, <1>12 DEF CloseEditor, Edit
<1>13. ASSUME UNCHANGED mapVars PROVE LinesInv'
  BY <1>1, <1>13 DEF mapVars
<1> QED
  BY <1>4, <1>5, <1>6, <1>7, <1>8, <1>9, <1>10, <1>11, <1>12, <1>13, Zenon
     DEF MapNext, MapHandlers, ClickPane, ClickCard
---------------------------------------------------------------------------
(* What a selection brings forward.                                        *)

\* A group is a set of devices, and no card is Nobody.
LEMMA FrameFacts ==
    ASSUME LinesInv
    PROVE  /\ \A g \in OpenFrames : g \in Frames /\ frames[g] \subseteq Devices
           /\ listed.places \subseteq Places
           /\ listed.links \in SUBSET {l \in Places \X Places : l[1] # l[2] /\ Hub \notin Duo(l)}
           /\ \A c \in Devices : listed.reach[c] = Unlisted \/ listed.reach[c] \subseteq Places
           /\ Nobody \notin OnMap
<1>1. \A g \in OpenFrames : g \in Frames /\ frames[g] \subseteq Devices
  BY DEF LinesInv, OpenFrames, FrameSets
<1>2. /\ listed.places \subseteq Places
      /\ listed.links \in SUBSET {l \in Places \X Places : l[1] # l[2] /\ Hub \notin Duo(l)}
      /\ \A c \in Devices : listed.reach[c] = Unlisted \/ listed.reach[c] \subseteq Places
  BY DEF LinesInv, Lists
<1>3. Nobody \notin OnMap
  BY <1>1, <1>2, MapAssumption DEF OnMap
<1> QED BY <1>1, <1>2, <1>3

\* Two rules for one thing: the lists decide which lines fade, the groups alone which
\* answer.  They name the same card while the card that is selected is on the map.
LEMMA AnchorsAgree ==
    ASSUME LinesInv, selected \in OnMap \cup {Nobody}
    PROVE  ClickAnchor = Anchor
<1> DEFINE clicked == {g \in OpenFrames : selected \in frames[g]}
           shown == {g \in OpenFrames : selected \in MembersListed(g)}
<1>1. CASE selected = Nobody
  <2>1. clicked = {} /\ selected \notin OnMap
    BY <1>1, FrameFacts, MapAssumption
  <2> QED BY <1>1, <2>1 DEF ClickAnchor, Anchor
<1>2. CASE selected \in OnMap /\ selected \in Seated
  <2>1. PICK g \in OpenFrames : selected \in MembersListed(g)
    BY <1>2 DEF Seated
  <2>2. listed.reach[selected] # Unlisted
    BY <2>1 DEF MembersListed
  <2>3. clicked = shown
    BY <2>2 DEF MembersListed
  <2>4. clicked # {}
    BY <2>1, <2>3
  <2> QED BY <1>2, <2>3, <2>4 DEF ClickAnchor, Anchor
<1>3. CASE selected \in OnMap /\ selected \notin Seated
  <2>1. \A g \in OpenFrames : selected \notin frames[g]
    <3> SUFFICES ASSUME NEW g \in OpenFrames, selected \in frames[g] PROVE FALSE
      OBVIOUS
    <3>1. selected \in Devices
      BY FrameFacts
    <3>2. listed.reach[selected] # Unlisted
      BY <1>3, <3>1, FrameFacts, MapAssumption DEF OnMap
    <3> QED BY <1>3, <3>2 DEF Seated, MembersListed
  <2>2. clicked = {}
    BY <2>1
  <2> QED BY <1>3, <2>2 DEF ClickAnchor, Anchor
<1> QED BY <1>1, <1>2, <1>3

\* How a line looks says whether a card is selected and whether the line is of it
\* (BusEdge.tsx).
LEMMA LineLooks ==
    ASSUME NEW e \in Lines
    PROVE  e.look = Look(e.ends)
BY DEF Lines, Line

\* selectionAnchor against the look of the lines: what is highlighted is what a click
\* takes (AccessGraph.tsx, BusEdge.tsx).
LEMMA HighlightMirrored == LinesInv => ClicksMirrorTheHighlight
<1> SUFFICES ASSUME LinesInv, mapReady, selected \in OnMap \cup {Nobody}, NEW e \in built
             PROVE  InSelection(e) <=> e.look # "faded"
  BY DEF ClicksMirrorTheHighlight
<1>1. e.look = Look(e.ends)
  BY LineLooks DEF LinesInv
<1>2. ClickAnchor = Anchor
  BY AnchorsAgree
<1>3. InSelection(e) <=> Anchor = Nobody \/ Anchor \in Duo(e.ends)
  BY <1>2 DEF InSelection
<1>4. Look(e.ends) # "faded" <=> Anchor = Nobody \/ Anchor \in Duo(e.ends)
  BY DEF Look
<1> QED BY <1>1, <1>3, <1>4

\* ClicksMirrorTheHighlight, for any devices, locations and groups, however they come and go.
THEOREM ClicksMirror == MapSpec => []ClicksMirrorTheHighlight
BY LinesInitially, LinesStep, HighlightMirrored, PTL DEF MapSpec
---------------------------------------------------------------------------
(* One line for a pair.                                                    *)

\* The lines between two locations, by what they are and what they join.
LEMMA LinkLines ==
    ASSUME NEW e \in Lines, e.kind # "reach"
    PROVE  \/ /\ e.kind = "bus" /\ AsBus(Duo(e.ends))
              /\ e = Line("bus", EndsOf(Duo(e.ends)), tx[Duo(e.ends)])
           \/ /\ e.kind = "link" /\ ~ AsBus(Duo(e.ends))
              /\ e.ends \in AliveLinks /\ e = Line("link", e.ends, "none")
<1>1. CASE \E p \in Duos : AsBus(p) /\ e = Line("bus", EndsOf(p), tx[p])
  <2>1. PICK p \in Duos : AsBus(p) /\ e = Line("bus", EndsOf(p), tx[p])
    BY <1>1
  <2>2. e.kind = "bus" /\ e.ends = EndsOf(p)
    BY <2>1 DEF Line
  <2>3. Duo(EndsOf(p)) = p
    BY DEF EndsOf, Duos
  <2> QED BY <2>1, <2>2, <2>3
<1>2. CASE \E l \in AliveLinks : ~ AsBus(Duo(l)) /\ e = Line("link", l, "none")
  <2>1. PICK l \in AliveLinks : ~ AsBus(Duo(l)) /\ e = Line("link", l, "none")
    BY <1>2
  <2>2. e.kind = "link" /\ e.ends = l
    BY <2>1 DEF Line
  <2> QED BY <2>1, <2>2
<1>3. CASE \E r \in ReachEnds : e = Line("reach", r, "none")
  BY <1>3 DEF Line
<1> QED BY <1>1, <1>2, <1>3 DEF Lines

\* A link that is no bus is the only one between its two locations.
LEMMA LoneLink ==
    ASSUME LinesInv, NEW l \in AliveLinks, ~ AsBus(Duo(l))
    PROVE  /\ Shape(Duo(l)) = "one" /\ tx[Duo(l)] # "split"
           /\ \A k \in listed.links : Duo(k) = Duo(l) => k = l
<1>1. l \in listed.links /\ l \in Places \X Places
  BY FrameFacts DEF AliveLinks
<1>2. <<l[2], l[1]>> \notin listed.links
  <2> SUFFICES ASSUME <<l[2], l[1]>> \in listed.links PROVE FALSE
    OBVIOUS
  <2>1. Shape(Duo(l)) = "bus"
    BY DEF Shape
  <2> QED BY <2>1 DEF AsBus
<1>3. \A k \in listed.links : Duo(k) = Duo(l) => k = l
  <2> SUFFICES ASSUME NEW k \in listed.links, Duo(k) = Duo(l) PROVE k = l
    OBVIOUS
  <2>1. k \in Places \X Places
    BY FrameFacts
  <2>2. k = <<k[1], k[2]>> /\ l = <<l[1], l[2]>>
    BY <1>1, <2>1
  <2>3. (k[1] = l[1] /\ k[2] = l[2]) \/ (k[1] = l[2] /\ k[2] = l[1])
    BY DEF Duo
  <2> QED BY <1>2, <2>2, <2>3
<1>4. Shape(Duo(l)) # "none"
  BY DEF Shape
<1>5. Shape(Duo(l)) \in {"none", "bus", "one"}
  BY DEF Shape
<1> QED BY <1>3, <1>4, <1>5 DEF AsBus

\* Edge ids name the pair, so one pair has one line (AccessGraph.tsx).
LEMMA OneLine == LinesInv => OneLinePerPair
<1> SUFFICES ASSUME LinesInv, mapReady, NEW p \in Duos,
                    NEW d \in built, d.kind # "reach", Duo(d.ends) = p,
                    NEW e \in built, e.kind # "reach", Duo(e.ends) = p
             PROVE  /\ d = e
                    /\ \/ Shape(p) = "bus" /\ e.kind = "bus"
                       \/ Shape(p) = "one" /\ e.kind = IF tx[p] = "split" THEN "bus" ELSE "link"
  BY DEF OneLinePerPair
<1>1. d \in Lines /\ e \in Lines
  BY DEF LinesInv
<1>2. CASE AsBus(p)
  <2>1. e.kind = "bus" /\ e = Line("bus", EndsOf(p), tx[p]) /\ d = Line("bus", EndsOf(p), tx[p])
    BY <1>1, <1>2, LinkLines
  <2> QED BY <1>2, <2>1 DEF AsBus
<1>3. CASE ~ AsBus(p)
  <2>1. /\ e.kind = "link" /\ e.ends \in AliveLinks /\ e = Line("link", e.ends, "none")
        /\ d.ends \in AliveLinks /\ d = Line("link", d.ends, "none")
    BY <1>1, <1>3, LinkLines
  <2>2. Shape(p) = "one" /\ tx[p] # "split"
    BY <1>3, <2>1, LoneLink
  <2>3. d.ends = e.ends
    BY <1>3, <2>1, LoneLink DEF AliveLinks
  <2> QED BY <2>1, <2>2, <2>3
<1> QED BY <1>2, <1>3

\* OneLinePerPair, for any locations and links and however many transitions play at once.
THEOREM OneLineAlways == MapSpec => []OneLinePerPair
BY LinesInitially, LinesStep, OneLine, PTL DEF MapSpec
---------------------------------------------------------------------------
(* Deleting.                                                               *)

\* A line a device or a group has to a location, and what it joins.
LEMMA ReachLines ==
    ASSUME NEW e \in Lines, e.kind = "reach"
    PROVE  e.ends \in ReachEnds
<1>1. \A p \in Duos : e # Line("bus", EndsOf(p), tx[p])
  BY DEF Line
<1>2. \A l \in AliveLinks : e # Line("link", l, "none")
  BY DEF Line
<1> QED BY <1>1, <1>2 DEF Lines, Line

\* What is asked for when a line is deleted undoes everything it stands for.
LEMMA UndoneIsGone ==
    ASSUME LinesInv, NEW e \in Lines, NEW calls, Undoes(e) \subseteq calls
    PROVE  GoneBy(e, Without(calls))
<1> DEFINE lists == Without(calls)
<1>1. CASE e.kind = "reach"
  <2> DEFINE a == e.ends[1]
             b == e.ends[2]
             from == IF a \in Frames THEN frames[a] \ NoFrame ELSE {a}
  <2>1. e.ends \in ReachEnds
    BY <1>1, ReachLines
  <2>2. b \in Places /\ (a \in Devices \/ a \in OpenFrames)
    BY <2>1, FrameFacts DEF ReachEnds
  <2>3. \A c \in from : <<"revoke", c, b>> \in calls
    BY <1>1 DEF Undoes
  <2>4. \A c \in Devices : <<"revoke", c, b>> \in calls => b \notin lists.reach[c]
    <3> SUFFICES ASSUME NEW c \in Devices, <<"revoke", c, b>> \in calls PROVE b \notin lists.reach[c]
      OBVIOUS
    <3>1. b # Nobody
      BY <2>2, MapAssumption
    <3>2. lists.reach[c] = IF listed.reach[c] = Unlisted THEN Unlisted
                           ELSE {n \in listed.reach[c] : <<"revoke", c, n>> \notin calls}
      BY DEF Without
    <3> QED BY <3>1, <3>2 DEF Unlisted
  <2>5. CASE a \in Frames
    <3>1. a \in OpenFrames
      BY <2>2, <2>5, MapAssumption
    <3>2. \A c \in MembersListed(a) : c \in Devices /\ c \in from
      BY <2>5, <3>1, FrameFacts, MapAssumption DEF MembersListed, NoFrame
    <3> QED BY <1>1, <2>3, <2>4, <2>5, <3>2 DEF GoneBy
  <2>6. CASE a \notin Frames
    <3>1. a \in Devices /\ a \in from
      BY <2>2, <2>6, FrameFacts
    <3> QED BY <1>1, <2>3, <2>4, <2>6, <3>1 DEF GoneBy
  <2> QED BY <2>5, <2>6
<1>2. CASE e.kind # "reach"
  <2> SUFFICES ASSUME NEW l \in lists.links, Duo(l) = Duo(e.ends) PROVE FALSE
    BY <1>2 DEF GoneBy
  <2>1. l \in listed.links /\ <<"unlink", l[1], l[2]>> \notin calls
    BY DEF Without
  <2>2. l \in Places \X Places /\ l = <<l[1], l[2]>>
    BY <2>1, FrameFacts
  <2>3. CASE e.kind = "bus"
    <3>1. Undoes(e) = {<<"unlink", w[1], w[2]>> : w \in {<<e.ends[1], e.ends[2]>>, <<e.ends[2], e.ends[1]>>}}
      BY <2>3 DEF Undoes
    <3>2. <<"unlink", e.ends[1], e.ends[2]>> \in calls /\ <<"unlink", e.ends[2], e.ends[1]>> \in calls
      BY <3>1
    <3>3. (l[1] = e.ends[1] /\ l[2] = e.ends[2]) \/ (l[1] = e.ends[2] /\ l[2] = e.ends[1])
      BY DEF Duo
    <3> QED BY <2>1, <3>2, <3>3
  <2>4. CASE e.kind # "bus"
    <3>1. e.ends \in AliveLinks /\ ~ AsBus(Duo(e.ends))
      BY <1>2, <2>4, LinkLines
    <3>2. l = e.ends
      BY <2>1, <3>1, LoneLink
    <3>3. Undoes(e) = {<<"unlink", w[1], w[2]>> : w \in {<<e.ends[1], e.ends[2]>>}}
      BY <1>2, <2>4 DEF Undoes
    <3> QED BY <2>1, <3>2, <3>3
  <2> QED BY <2>3, <2>4
<1> QED BY <1>1, <1>2

\* Only a deletion takes lines off without the map building new ones.
LEMMA StruckStep == LinesInv /\ [MapNext]_mapVars => [Strikes]_mapVars
<1> SUFFICES ASSUME LinesInv, MapNext, built' = built, selected \in OnMap \cup {Nobody},
                    NEW e \in drawn \cap built, e \notin drawn'
             PROVE  GoneBy(e, Without(asked'))
  BY DEF Strikes
<1>1. mapReady /\ e \in Lines
  BY DEF LinesInv
<1>2. ASSUME NEW playing, Reconcile(playing) PROVE FALSE
  BY <1>2 DEF Reconcile
<1>3. ASSUME NEW S, DeleteLines(S) PROVE GoneBy(e, Without(asked'))
  <2>1. e \in S /\ e.look # "faded"
    BY <1>3 DEF DeleteLines
  <2>2. InSelection(e)
    BY <1>1, <2>1, HighlightMirrored DEF ClicksMirrorTheHighlight
  <2>3. asked' = UNION {Undoes(d) : d \in {k \in S : InSelection(k)}}
    BY <1>3 DEF DeleteLines
  <2>4. Undoes(e) \subseteq asked'
    BY <2>1, <2>2, <2>3
  <2>5. PICK calls : calls = asked'
    OBVIOUS
  <2>6. GoneBy(e, Without(calls))
    BY <1>1, <2>4, <2>5, UndoneIsGone
  <2> QED BY <2>5, <2>6 DEF GoneBy, Without
<1>4. ~ Remount
  BY <1>1 DEF Remount
<1>5. \A card : ~ Select(card)
  BY <1>2 DEF Select
<1>6. \A f : ~ LayoutArrives(f) /\ ~ GroupsChange(f)
  BY <1>2 DEF LayoutArrives, GroupsChange
<1>7. \A l : ~ ListsChange(l)
  BY <1>2 DEF ListsChange
<1>8. \A p : ~ TransitionEnds(p)
  BY <1>2 DEF TransitionEnds
<1>9. \A from, to : ~ Connect(from, to)
  <2> SUFFICES ASSUME NEW from, NEW to, Connect(from, to) PROVE FALSE
    OBVIOUS
  <2>1. drawn' = drawn \/ drawn' = drawn \cup {ByHand(from, to)}
    BY DEF Connect
  <2> QED BY <2>1
<1>10. ~ CloseEditor /\ (\A x : ~ ClickLine(x)) /\ \A op : ~ Edit(op)
  BY DEF CloseEditor, ClickLine, Edit
<1> QED
  BY <1>3, <1>4, <1>5, <1>6, <1>7, <1>8, <1>9, <1>10, Zenon DEF MapNext, MapHandlers, ClickPane, ClickCard

\* StruckLinesGo, for any devices, locations and groups: a deleted group's line names every
\* member, a deleted bus both ways, and a line on its own leaves no way back behind.
THEOREM StruckLinesAreUndone == MapSpec => StruckLinesGo
BY LinesInitially, LinesStep, StruckStep, PTL DEF MapSpec, StruckLinesGo

---------------------------------------------------------------------------
(* The cards of the map.                                                   *)

\* The shapes of what the map keeps.
CardsTyped ==
    /\ known \in [Cards -> {"new", "listed", "deleted"}]
    /\ shownMap \in BOOLEAN /\ due \in BOOLEAN
    /\ mine \in Layouts /\ saved \in Layouts /\ left \subseteq Layouts
    /\ held \in [Cards -> Origins]
    /\ parent \in [Cards -> Boxes \cup {Loose}]

\* React Flow has the cards of listed devices, and only while the map is shown.
HeldAreListed == \A c \in Cards : held[c] # "none" => shownMap /\ known[c] = "listed"

CardsInv == CardsTyped /\ HeldAreListed /\ CardsInTheirFrame

\* An empty layout puts no card anywhere.
LEMMA NoLayoutAgrees == NoLayout \in Layouts /\ Agrees(NoLayout)
BY DEF NoLayout, Layouts, Origins, Agrees

\* The node build puts every card it draws where its coordinates count from, provided no
\* card that is in no group and was not just let go of lay in a frame before.
LEMMA BuildSeats ==
    ASSUME NEW detached,
           mine' \in Layouts, Agrees(mine)',
           held \in [Cards -> Origins],
           \A c \in Cards : /\ c \notin mine'.astray /\ ~ Inside(mine', c) /\ c \notin detached
                            => held[c] # "frame",
           Build(detached)
    PROVE  /\ held' \in [Cards -> Origins]
           /\ parent' \in [Cards -> Boxes \cup {Loose}]
           /\ \A c \in Cards : held'[c] # "none" => known'[c] = "listed"
           /\ \A c \in ListedCards' :
                /\ parent'[c] = mine'.box[c]
                /\ c \notin mine'.astray => (held'[c] = "frame" <=> Inside(mine', c))
<1>1. ASSUME NEW c \in Cards
      PROVE  /\ Seat(c, detached) \in Origins \ {"none"}
             /\ c \notin mine'.astray => (Seat(c, detached) = "frame" <=> Inside(mine', c))
  <2>1. mine'.at[c] \in Origins /\ held[c] \in Origins
    BY DEF Layouts
  <2>2. c \notin mine'.astray /\ mine'.at[c] # "none" => (mine'.at[c] = "frame" <=> Inside(mine', c))
    BY DEF Agrees
  <2>3. CASE Inside(mine', c)
    BY <2>1, <2>2, <2>3 DEF Seat, Origins
  <2>4. CASE ~ Inside(mine', c) /\ c \in detached
    BY <2>4 DEF Seat, Origins
  <2>5. CASE ~ Inside(mine', c) /\ c \notin detached
    BY <2>1, <2>2, <2>5 DEF Seat, Origins
  <2> QED BY <2>3, <2>4, <2>5
<1>2. \A c \in Cards : mine'.box[c] \in Boxes \cup {Loose}
  BY DEF Layouts
<1> QED BY <1>1, <1>2 DEF Build, ListedCards, Origins

\* Cards on a map that has just been opened lie where its layout has them.
LEMMA CardsInitially == CardsInit => CardsInv
BY NoLayoutAgrees DEF CardsInit, CardsInv, CardsTyped, HeldAreListed, CardsInTheirFrame, NoCards, Origins

\* A handler of the groups that lets no card go of its frame unnoticed.
LEMMA SaveGroupsKeeps ==
    ASSUME CardsInv, shownMap, NEW l \in Layouts, Agrees(l), SaveGroups(l),
           \A c \in Cards : c \notin l.astray /\ ~ Inside(l, c) => held[c] # "frame"
    PROVE  CardsInv'
<1> USE DEF CardsInv
<1>1. mine' \in Layouts /\ Agrees(mine)' /\ Agrees(saved)'
  BY DEF SaveGroups, Agrees, Inside
<1>2. held \in [Cards -> Origins] /\ Build({}) /\ mine' = l
  BY DEF CardsTyped, SaveGroups
<1>3. /\ held' \in [Cards -> Origins]
      /\ parent' \in [Cards -> Boxes \cup {Loose}]
      /\ \A c \in Cards : held'[c] # "none" => known'[c] = "listed"
      /\ \A c \in ListedCards' :
           /\ parent'[c] = mine'.box[c]
           /\ c \notin mine'.astray => (held'[c] = "frame" <=> Inside(mine', c))
  BY <1>1, <1>2, BuildSeats
<1>4. CardsTyped'
  BY <1>1, <1>3 DEF CardsTyped, SaveGroups
<1>5. HeldAreListed'
  BY <1>3 DEF HeldAreListed, SaveGroups
<1>6. CardsInTheirFrame'
  BY <1>1, <1>3 DEF CardsInTheirFrame, SaveGroups, Agrees, Inside
<1> QED BY <1>4, <1>5, <1>6

\* What React Flow holds is right wherever the map's own layout is, the cards astray aside.
LEMMA HeldFits ==
    ASSUME CardsInv
    PROVE  \A c \in Cards \ mine.astray : held[c] # "none" => (held[c] = "frame" <=> Inside(mine, c))
BY DEF CardsInv, HeldAreListed, CardsInTheirFrame, ListedCards

\* A load keeps the layout that was stored, or starts with none.
LEMMA LoadMapKeeps == CardsInv /\ LoadMap => CardsInv'
<1> SUFFICES ASSUME CardsInv, LoadMap PROVE CardsInv'
  OBVIOUS
<1> USE DEF CardsInv
<1>1. mine' \in Layouts /\ Agrees(mine)' /\ Agrees(saved)'
  BY NoLayoutAgrees DEF LoadMap, Agrees, Inside, CardsTyped, CardsInTheirFrame
<1>2. held \in [Cards -> Origins] /\ Build({}) /\ \A c \in Cards : held[c] = "none"
  BY DEF LoadMap, HeldAreListed, CardsTyped
<1>3. /\ held' \in [Cards -> Origins]
      /\ parent' \in [Cards -> Boxes \cup {Loose}]
      /\ \A c \in Cards : held'[c] # "none" => known'[c] = "listed"
      /\ \A c \in ListedCards' :
           /\ parent'[c] = mine'.box[c]
           /\ c \notin mine'.astray => (held'[c] = "frame" <=> Inside(mine', c))
  BY <1>1, <1>2, BuildSeats
<1>4. CardsTyped'
  BY <1>1, <1>3 DEF CardsTyped, LoadMap
<1>5. HeldAreListed'
  BY <1>3 DEF HeldAreListed, LoadMap
<1>6. CardsInTheirFrame'
  BY <1>1, <1>3 DEF CardsInTheirFrame, LoadMap, Agrees, Inside
<1> QED BY <1>4, <1>5, <1>6

\* A map that is left hands its layout to its timer, and the screen is cleared.
LEMMA LeaveMapKeeps == CardsInv /\ LeaveMap => CardsInv'
<1> SUFFICES ASSUME CardsInv, LeaveMap PROVE CardsInv'
  OBVIOUS
<1> USE DEF CardsInv
<1>1. CardsTyped'
  BY NoLayoutAgrees DEF CardsTyped, LeaveMap, NothingBuilt, NoCards, Origins
<1>2. HeldAreListed'
  BY DEF HeldAreListed, LeaveMap, NothingBuilt, NoCards
<1>3. CardsInTheirFrame'
  BY NoLayoutAgrees DEF CardsInTheirFrame, LeaveMap, Agrees, Inside
<1> QED BY <1>1, <1>2, <1>3

\* Writing down what the map has, or what a map that was left had.
LEMMA TimersKeep == CardsInv /\ (PersistTimer \/ TimerOfLeftMap) => CardsInv'
<1> SUFFICES ASSUME CardsInv, PersistTimer \/ TimerOfLeftMap PROVE CardsInv'
  OBVIOUS
<1> USE DEF CardsInv
<1>1. CardsTyped'
  BY DEF CardsTyped, PersistTimer, TimerOfLeftMap
<1>2. HeldAreListed'
  BY DEF HeldAreListed, PersistTimer, TimerOfLeftMap
<1>3. CardsInTheirFrame'
  BY DEF CardsInTheirFrame, PersistTimer, TimerOfLeftMap, Agrees, Inside, ListedCards
<1> QED BY <1>1, <1>2, <1>3

\* A poll seats the cards of new devices and takes those of deleted ones off.
LEMMA PollKeeps ==
    ASSUME CardsInv, NEW now \in [Cards -> {"new", "listed", "deleted"}], PollCards(now)
    PROVE  CardsInv'
<1> USE DEF CardsInv
<1>1. /\ mine' = mine /\ saved' = saved /\ left' = left /\ due' = due /\ shownMap' = shownMap
      /\ known' \in [Cards -> {"new", "listed", "deleted"}]
  BY DEF PollCards
<1>2. mine' \in Layouts /\ Agrees(mine)' /\ Agrees(saved)' /\ (\A l \in left : Agrees(l))'
  BY <1>1 DEF Agrees, Inside, CardsTyped, CardsInTheirFrame
<1>3. CASE shownMap
  <2>1. \A c \in Cards : c \notin mine'.astray /\ ~ Inside(mine', c) => held[c] # "frame"
    BY <1>1, HeldFits DEF Inside
  <2>2. held \in [Cards -> Origins] /\ Build({})
    BY <1>3 DEF CardsTyped, PollCards
  <2>3. /\ held' \in [Cards -> Origins]
        /\ parent' \in [Cards -> Boxes \cup {Loose}]
        /\ \A c \in Cards : held'[c] # "none" => known'[c] = "listed"
        /\ \A c \in ListedCards' :
             /\ parent'[c] = mine'.box[c]
             /\ c \notin mine'.astray => (held'[c] = "frame" <=> Inside(mine', c))
    BY <1>2, <2>1, <2>2, BuildSeats
  <2>4. CardsTyped'
    BY <1>1, <2>3 DEF CardsTyped
  <2>5. HeldAreListed'
    BY <1>1, <1>3, <2>3 DEF HeldAreListed
  <2>6. CardsInTheirFrame'
    BY <1>2, <2>3 DEF CardsInTheirFrame, Inside
  <2> QED BY <2>4, <2>5, <2>6
<1>4. CASE ~ shownMap
  <2>1. held' = held /\ parent' = parent
    BY <1>4 DEF PollCards
  <2> QED
    BY <1>1, <1>2, <1>4, <2>1 DEF CardsTyped, HeldAreListed, CardsInTheirFrame
<1> QED BY <1>3, <1>4

\* The handlers that open, edit and dissolve a group, and take a device out of one.
LEMMA GroupHandlersKeep ==
    ASSUME CardsInv,
           PatchBox \/ (\E g \in Boxes : OpenBox(g) \/ DissolveBox(g)) \/ \E c \in Cards : TakeOutOfBox(c)
    PROVE  CardsInv'
<1> USE DEF CardsInv
<1>1. \A c \in Cards : c \notin mine.astray /\ ~ Inside(mine, c) => held[c] # "frame"
  BY HeldFits
<1>2. mine \in Layouts /\ Agrees(mine)
  BY DEF CardsTyped, CardsInTheirFrame
<1>3. ASSUME PatchBox PROVE CardsInv'
  BY <1>1, <1>2, <1>3, SaveGroupsKeeps DEF PatchBox
<1>4. ASSUME NEW g \in Boxes, OpenBox(g) PROVE CardsInv'
  <2> DEFINE l == [mine EXCEPT !.open = @ \cup {g}]
  <2>1. l \in Layouts /\ l.at = mine.at /\ l.box = mine.box /\ l.astray = mine.astray
    BY <1>2 DEF Layouts
  <2>2. Agrees(l) /\ \A c \in Cards : c \notin l.astray /\ ~ Inside(l, c) => held[c] # "frame"
    BY <1>1, <1>2, <2>1 DEF Agrees, Inside
  <2>3. shownMap /\ SaveGroups(l)
    BY <1>4 DEF OpenBox
  <2> HIDE DEF l
  <2> QED BY <2>1, <2>2, <2>3, SaveGroupsKeeps
<1>5. ASSUME NEW S \in SUBSET Cards
      PROVE  LET l == LetGo(S) IN
             /\ l \in Layouts /\ Agrees(l) /\ l.open = mine.open
             /\ \A c \in Cards : c \notin l.astray /\ ~ Inside(l, c) => held[c] # "frame"
  <2> DEFINE l == LetGo(S)
  <2>1. l \in Layouts /\ l.at = mine.at /\ l.astray = mine.astray \cup S /\ l.open = mine.open
    BY <1>2 DEF Layouts, LetGo
  <2>2. \A c \in Cards \ S : l.box[c] = mine.box[c]
    BY <1>2 DEF Layouts, LetGo
  <2> HIDE DEF l
  <2> QED BY <1>1, <1>2, <2>1, <2>2 DEF Agrees, Inside, l
<1>6. ASSUME NEW c \in Cards, TakeOutOfBox(c) PROVE CardsInv'
  <2>1. PICK l : l = LetGo({c})
    OBVIOUS
  <2>2. /\ l \in Layouts /\ Agrees(l)
        /\ \A d \in Cards : d \notin l.astray /\ ~ Inside(l, d) => held[d] # "frame"
    BY <1>5, <2>1
  <2>3. shownMap /\ SaveGroups(l)
    BY <1>6, <2>1 DEF TakeOutOfBox
  <2> QED BY <2>2, <2>3, SaveGroupsKeeps
<1>7. ASSUME NEW g \in Boxes, DissolveBox(g) PROVE CardsInv'
  <2>1. PICK m : m = LetGo({c \in Cards : mine.box[c] = g})
    OBVIOUS
  <2>2. /\ m \in Layouts /\ Agrees(m)
        /\ \A d \in Cards : d \notin m.astray /\ ~ Inside(m, d) => held[d] # "frame"
    BY <1>5, <2>1
  <2> DEFINE l == [m EXCEPT !.open = @ \ {g}]
  <2>3. l \in Layouts /\ l.at = m.at /\ l.box = m.box /\ l.astray = m.astray
    BY <2>2 DEF Layouts
  <2>4. Agrees(l) /\ \A c \in Cards : c \notin l.astray /\ ~ Inside(l, c) => held[c] # "frame"
    BY <2>2, <2>3 DEF Agrees, Inside
  <2>5. shownMap /\ SaveGroups(l)
    BY <1>7, <2>1 DEF DissolveBox
  <2> HIDE DEF l
  <2> QED BY <2>3, <2>4, <2>5, SaveGroupsKeeps
<1> QED BY <1>3, <1>4, <1>6, <1>7

\* What persist takes down of the screen counts from where it should.
LEMMA PersistedAgrees ==
    ASSUME CardsInv
    PROVE  /\ Persisted \in Layouts /\ Agrees(Persisted)
           /\ Persisted.box = mine.box /\ Persisted.open = mine.open
           /\ Persisted.astray = mine.astray /\ Persisted.at = held
<1>1. /\ Persisted \in Layouts
      /\ Persisted.box = mine.box /\ Persisted.open = mine.open
      /\ Persisted.astray = mine.astray /\ Persisted.at = held
  BY DEF CardsInv, CardsTyped, Layouts, Persisted
<1> QED BY <1>1, HeldFits DEF Agrees, Inside

\* A drag that ends in a group, outside one, or where its card belonged before.
LEMMA DropsKeep ==
    ASSUME CardsInv,
           DropInPlace \/ \E c \in Cards : DropOutside(c) \/ \E g \in Boxes : DropOnBox(c, g)
    PROVE  CardsInv'
<1> USE DEF CardsInv
<1>1. ASSUME DropInPlace PROVE CardsInv'
  <2>1. mine' \in Layouts /\ Agrees(mine)' /\ mine'.box = mine.box /\ mine'.astray = mine.astray
    BY <1>1, PersistedAgrees DEF DropInPlace, Agrees, Inside
  <2>2. CardsTyped'
    BY <1>1, <2>1 DEF CardsTyped, DropInPlace
  <2>3. HeldAreListed'
    BY <1>1 DEF HeldAreListed, DropInPlace
  <2>4. CardsInTheirFrame'
    BY <1>1, <2>1 DEF CardsInTheirFrame, DropInPlace, Agrees, Inside, ListedCards
  <2> QED BY <2>2, <2>3, <2>4
<1>2. ASSUME NEW detached \in SUBSET Cards, mine' \in Layouts, Agrees(mine)',
             \A c \in Cards : /\ c \notin mine'.astray /\ ~ Inside(mine', c) /\ c \notin detached
                              => held[c] # "frame",
             shownMap, saved' = mine', due' = TRUE, UNCHANGED <<known, shownMap, left>>,
             Build(detached)
      PROVE  CardsInv'
  <2>1. /\ held' \in [Cards -> Origins]
        /\ parent' \in [Cards -> Boxes \cup {Loose}]
        /\ \A c \in Cards : held'[c] # "none" => known'[c] = "listed"
        /\ \A c \in ListedCards' :
             /\ parent'[c] = mine'.box[c]
             /\ c \notin mine'.astray => (held'[c] = "frame" <=> Inside(mine', c))
    BY <1>2, BuildSeats DEF CardsTyped
  <2>2. CardsTyped'
    BY <1>2, <2>1 DEF CardsTyped
  <2>3. HeldAreListed'
    BY <1>2, <2>1 DEF HeldAreListed
  <2>4. CardsInTheirFrame'
    BY <1>2, <2>1 DEF CardsInTheirFrame, Agrees, Inside
  <2> QED BY <2>2, <2>3, <2>4
<1>3. ASSUME NEW c \in Cards, DropOutside(c) PROVE CardsInv'
  <2>1. PICK p : p = Persisted
    OBVIOUS
  <2>2. p \in Layouts /\ Agrees(p) /\ p.box = mine.box /\ p.astray = mine.astray
    BY <2>1, PersistedAgrees
  <2>3. mine' = [p EXCEPT !.at[c] = "page", !.box[c] = Loose]
    BY <1>3, <2>1 DEF DropOutside
  <2>4. /\ mine' \in Layouts /\ mine'.astray = p.astray
        /\ mine'.box[c] = Loose /\ mine'.at[c] = "page"
        /\ \A d \in Cards \ {c} : mine'.box[d] = p.box[d] /\ mine'.at[d] = p.at[d]
    BY <2>2, <2>3 DEF Layouts, Origins
  <2>5. Agrees(mine)'
    BY <2>2, <2>4 DEF Agrees, Inside
  <2>6. \A d \in Cards : d \notin mine'.astray /\ ~ Inside(mine', d) /\ d \notin {c} => held[d] # "frame"
    BY <2>2, <2>4, HeldFits DEF Inside
  <2> QED BY <1>2, <1>3, <2>4, <2>5, <2>6 DEF DropOutside
<1>4. ASSUME NEW c \in Cards, NEW g \in Boxes, DropOnBox(c, g) PROVE CardsInv'
  <2>1. PICK p : p = Persisted
    OBVIOUS
  <2>2. p \in Layouts /\ Agrees(p) /\ p.box = mine.box /\ p.astray = mine.astray
    BY <2>1, PersistedAgrees
  <2>3. mine' = [p EXCEPT !.at[c] = "frame", !.box[c] = g, !.astray = @ \ {c}]
    BY <1>4, <2>1 DEF DropOnBox
  <2>4. /\ mine' \in Layouts /\ mine'.astray = p.astray \ {c}
        /\ mine'.box[c] = g /\ mine'.at[c] = "frame"
        /\ \A d \in Cards \ {c} : mine'.box[d] = p.box[d] /\ mine'.at[d] = p.at[d]
    BY <2>2, <2>3 DEF Layouts, Origins
  <2>5. Agrees(mine)'
    BY <2>2, <2>4, CardsAssumption DEF Agrees, Inside
  <2>6. \A d \in Cards : d \notin mine'.astray /\ ~ Inside(mine', d) /\ d \notin {} => held[d] # "frame"
    BY <2>2, <2>4, HeldFits, CardsAssumption DEF Inside
  <2> QED BY <1>2, <1>4, <2>4, <2>5, <2>6 DEF DropOnBox
<1> QED BY <1>1, <1>3, <1>4

\* The wizard's card lies on the page; the members whose groups it wrote over lie astray.
LEMMA WizardKeeps ==
    ASSUME CardsInv, NEW c \in Cards, WizardPlaces(c)
    PROVE  CardsInv'
<1> USE DEF CardsInv
<1>1. /\ mine' \in Layouts /\ mine'.box = mine.box /\ mine'.astray = mine.astray /\ mine'.at[c] = "page"
      /\ \A d \in Cards \ {c} : mine'.at[d] = mine.at[d]
  BY DEF WizardPlaces, CardsTyped, Layouts, Origins
<1>2. saved' \in Layouts
  BY <1>1 DEF WizardPlaces, CardsTyped, Layouts, NoLayout
<1>3. Agrees(mine)'
  BY <1>1 DEF WizardPlaces, CardsInTheirFrame, Agrees, Inside
<1>4. Agrees(saved)'
  BY <1>1 DEF WizardPlaces, CardsInTheirFrame, Agrees, Inside, NoLayout
<1>5. CardsTyped'
  BY <1>1, <1>2 DEF CardsTyped, WizardPlaces
<1>6. HeldAreListed'
  BY DEF HeldAreListed, WizardPlaces
<1>7. CardsInTheirFrame'
  BY <1>1, <1>3, <1>4 DEF CardsInTheirFrame, WizardPlaces, Agrees, Inside, ListedCards
<1> QED BY <1>5, <1>6, <1>7

\* Every handler of the cards keeps the invariant (AccessGraph.tsx, groups.ts).
LEMMA CardsStep == CardsInv /\ [CardsNext]_cardVars => CardsInv'
<1> SUFFICES ASSUME CardsInv, [CardsNext]_cardVars PROVE CardsInv'
  OBVIOUS
<1>1. CASE UNCHANGED cardVars
  BY <1>1 DEF CardsInv, cardVars, CardsTyped, HeldAreListed, CardsInTheirFrame, Agrees, Inside, ListedCards
<1>2. CASE CardsNext
  BY <1>2, LoadMapKeeps, LeaveMapKeeps, TimersKeep, PollKeeps, GroupHandlersKeep, DropsKeep, WizardKeeps, Zenon
     DEF CardsNext
<1> QED BY <1>1, <1>2

\* CardsInTheirFrame, for any number of devices, groups, maps left and timers still to run:
\* coordinates and the frame they count from stay together through every drag, save,
\* poll and reload of the page.
THEOREM CardsStay == CardsSpec => []CardsInTheirFrame
<1>1. CardsInv => CardsInTheirFrame
  BY DEF CardsInv
<1> QED
  BY CardsInitially, CardsStep, <1>1, PTL DEF CardsSpec

---------------------------------------------------------------------------
(* The dialogs.                                                            *)

\* The stack: one entry for each mounted dialog, each with a place of its own.
StackTyped ==
    /\ stack \subseteq [name : DialogNames, at : Nat, was : BOOLEAN]
    /\ \E n \in Nat : \A j \in stack : j.at <= n
    /\ \A j, k \in stack : j.at = k.at \/ j.name = k.name => j = k

\* What the page asks for are dialogs, and the page scrolls or does not.
PageTyped == open \subseteq DialogNames /\ scrolls \in BOOLEAN /\ orderly \in BOOLEAN

\* As long as dialogs went newest first, the oldest one remembers that the page scrolled,
\* and every other that it did not.
Remembered ==
    orderly => \A j \in stack : j.was <=> \A k \in stack : j.at <= k.at

PageInv == StackTyped /\ PageTyped /\ Remembered /\ PageScrolls

\* The place of a dialog in the document is its own.
LEMMA DialogPlaces ==
    /\ \A d \in DialogNames : Place(d) \in Nat /\ 1 <= Place(d) /\ Place(d) <= 12
    /\ \A d, e \in DialogNames : Place(d) = Place(e) => d = e
<1>1. Len(Document) = 12
  BY DEF Document
<1>2. DialogNames = {Document[i] : i \in 1..Len(Document)}
  BY DEF DialogNames
<1>3. \A d \in DialogNames : Place(d) \in 1..Len(Document) /\ Document[Place(d)] = d
  BY <1>2 DEF Place
<1> QED BY <1>1, <1>3

\* A set of numbers has a least one.
LEMMA LeastNumber ==
    ASSUME NEW S \in SUBSET Nat, S # {}
    PROVE  \E n \in S : \A m \in S : n <= m
<1>1. PICK n \in S : \A m \in S : ~ (<<m, n>> \in OpToRel(<, Nat))
  BY NatLessThanWellFounded, WFMin
<1>2. \A m \in S : ~ (m < n)
  BY <1>1 DEF OpToRel
<1> QED BY <1>2

\* A stack has a newest entry.
LEMMA HeightIsNewest ==
    ASSUME StackTyped, stack # {}
    PROVE  /\ Height \in {j.at : j \in stack}
           /\ \A j \in stack : j.at <= Height
<1> DEFINE above == {n \in Nat : \A j \in stack : j.at <= n}
<1>1. above # {} /\ above \in SUBSET Nat
  BY DEF StackTyped
<1>2. PICK n \in above : \A m \in above : n <= m
  BY <1>1, LeastNumber
<1>3. \A j \in stack : j.at \in Nat
  BY DEF StackTyped
<1>4. \E j \in stack : j.at = n
  <2> SUFFICES ASSUME \A j \in stack : j.at # n PROVE FALSE
    OBVIOUS
  <2>1. \A j \in stack : j.at <= n - 1
    BY <1>2, <1>3
  <2>2. n - 1 \in above
    BY <1>2, <1>3, <2>1
  <2> QED BY <1>2, <2>2
<1>5. \E h \in {j.at : j \in stack} : \A j \in stack : j.at <= h
  BY <1>2, <1>4
<1> QED BY <1>5 DEF Height

\* The height is a number that no entry exceeds.
LEMMA HeightBounds ==
    ASSUME StackTyped
    PROVE  Height \in Nat /\ \A j \in stack : j.at <= Height
<1>1. CASE stack = {}
  BY <1>1 DEF Height
<1>2. CASE stack # {}
  BY <1>2, HeightIsNewest DEF StackTyped
<1> QED BY <1>1, <1>2

\* Modal's effects, for any set of dialogs that are to be on the screen: those that go are
\* cleaned up, then those that come are mounted.
LEMMA SettleKeeps ==
    ASSUME PageInv, NEW shown \in SUBSET DialogNames, Settle(shown)
    PROVE  /\ StackTyped' /\ Remembered' /\ PageScrolls'
           /\ scrolls' \in BOOLEAN /\ orderly' \in BOOLEAN
<1> DEFINE new == shown \ Mounted
           First(d) == \A e \in new : Place(d) <= Place(e)
           Entry(d, found) == [name |-> d, at |-> Height + Place(d), was |-> found /\ First(d)]
<1> USE DEF PageInv
<1>1. PICK found \in Found(shown) :
        /\ stack' = Remaining(shown) \cup {Entry(d, found) : d \in new}
        /\ scrolls' = (found /\ new = {})
  BY DEF Settle
<1>2. orderly' = (orderly /\ Mounted \ shown \subseteq Newest)
  BY DEF Settle
<1>3. found \in BOOLEAN
  BY <1>1 DEF Found, PageTyped, StackTyped
<1>4. scrolls' \in BOOLEAN /\ orderly' \in BOOLEAN
  BY <1>1, <1>2, <1>3 DEF PageTyped
<1>5. Remaining(shown) \subseteq stack
  BY DEF Remaining
<1>6. Height \in Nat /\ \A j \in stack : j.at <= Height /\ j.at \in Nat /\ j.name \notin new
  BY HeightBounds DEF StackTyped, Mounted
<1>7. \A d \in new : /\ d \in DialogNames
                     /\ Entry(d, found) \in [name : DialogNames, at : Nat, was : BOOLEAN]
                     /\ Entry(d, found).at = Height + Place(d) /\ Entry(d, found).name = d
                     /\ Entry(d, found).was = (found /\ First(d))
                     /\ Height < Height + Place(d) /\ Height + Place(d) <= Height + 12
  BY <1>3, <1>6, DialogPlaces
<1> HIDE DEF Entry
<1>8. StackTyped'
  <2>1. stack' \subseteq [name : DialogNames, at : Nat, was : BOOLEAN]
    BY <1>1, <1>5, <1>7 DEF StackTyped
  <2>2. \A j \in stack' : j.at <= Height + 12
    BY <1>1, <1>5, <1>6, <1>7
  <2>3. \A j, k \in stack' : j.at = k.at \/ j.name = k.name => j = k
    BY <1>1, <1>5, <1>6, <1>7, DialogPlaces DEF StackTyped
  <2> QED BY <1>6, <2>1, <2>2, <2>3 DEF StackTyped
<1>9. new = {} => stack' = Remaining(shown)
  BY <1>1
<1>10. CASE stack' # {} /\ ~ orderly'
  <2>1. ~ scrolls'
    <3>1. CASE new # {}
      BY <1>1, <3>1
    <3>2. CASE new = {}
      <4>1. Remaining(shown) # {} /\ stack # {}
        BY <1>5, <1>9, <1>10, <3>2
      <4>2. found = scrolls /\ ~ scrolls
        BY <1>1, <4>1 DEF Found, PageScrolls
      <4> QED BY <1>1, <4>2
    <3> QED BY <3>1, <3>2
  <2> QED BY <1>4, <1>8, <1>10, <2>1 DEF Remembered, PageScrolls
<1>11. CASE stack' = {}
  <2>1. new = {} /\ Remaining(shown) = {}
    BY <1>1, <1>11
  <2>2. ASSUME orderly' PROVE scrolls'
    <3>1. CASE stack = {}
      <4>1. found = scrolls
        BY <1>1, <3>1 DEF Found
      <4> QED BY <1>1, <1>2, <2>1, <2>2, <3>1, <4>1 DEF PageScrolls
    <3>2. CASE stack # {}
      <4>1. \A j \in stack : j.name \in Newest
        BY <1>2, <2>1, <2>2 DEF Remaining, Mounted
      <4>2. \A j, k \in stack : j = k
        BY <4>1 DEF Newest, StackTyped
      <4>3. \A j \in stack : j.was = TRUE
        BY <1>2, <1>6, <2>2, <4>2 DEF Remembered, StackTyped
      <4>4. found = TRUE
        BY <1>1, <2>1, <3>2, <4>3 DEF Found
      <4> QED BY <1>1, <2>1, <4>4
    <3> QED BY <3>1, <3>2
  <2> QED BY <1>4, <1>8, <1>11, <2>2 DEF Remembered, PageScrolls
<1>12. CASE stack' # {} /\ orderly'
  <2>1. orderly /\ Mounted \ shown \subseteq Newest
    BY <1>2, <1>12
  <2>2. CASE Remaining(shown) = {}
    <3>1. found = TRUE
      <4>1. CASE stack = {}
        BY <1>1, <2>1, <4>1 DEF Found, PageScrolls
      <4>2. CASE stack # {}
        <5>1. \A j \in stack : j.name \in Newest
          BY <2>1, <2>2 DEF Remaining, Mounted
        <5>2. \A j, k \in stack : j = k
          BY <5>1 DEF Newest, StackTyped
        <5>3. \A j \in stack : j.was = TRUE
          BY <1>6, <2>1, <5>2 DEF Remembered, StackTyped
        <5> QED BY <1>1, <2>2, <4>2, <5>3 DEF Found
      <4> QED BY <4>1, <4>2
    <3>2. stack' = {Entry(d, found) : d \in new} /\ new # {}
      BY <1>1, <1>12, <2>2
    <3>3. ~ scrolls'
      BY <1>1, <3>2
    <3>4. \A d, e \in new : Entry(d, found).at <= Entry(e, found).at <=> Place(d) <= Place(e)
      BY <1>6, <1>7, DialogPlaces
    <3>5. \A d \in new : Entry(d, found).was <=> \A k \in stack' : Entry(d, found).at <= k.at
      <4> SUFFICES ASSUME NEW d \in new
                   PROVE  Entry(d, found).was <=> \A k \in stack' : Entry(d, found).at <= k.at
        OBVIOUS
      <4>1. Entry(d, found).was <=> First(d)
        BY <1>7, <3>1
      <4>2. First(d) <=> \A e \in new : Entry(d, found).at <= Entry(e, found).at
        BY <3>4
      <4>3. (\A k \in stack' : Entry(d, found).at <= k.at)
              <=> \A e \in new : Entry(d, found).at <= Entry(e, found).at
        BY <3>2
      <4> QED BY <4>1, <4>2, <4>3
    <3> QED BY <1>8, <1>12, <1>4, <3>2, <3>3, <3>5 DEF Remembered, PageScrolls
  <2>3. CASE Remaining(shown) # {}
    <3>1. found = FALSE
      BY <1>1, <1>5, <2>3 DEF Found, PageScrolls, PageTyped
    <3>2. ~ scrolls'
      BY <1>1, <3>1
    <3>3. ASSUME NEW j \in Remaining(shown)
          PROVE  j.was <=> \A k \in stack' : j.at <= k.at
      <4>1. j.was <=> \A k \in stack : j.at <= k.at
        BY <1>5, <2>1, <3>3 DEF Remembered
      <4>2. \A k \in Remaining(shown) : k \in stack'
        BY <1>1
      <4>3. (\A k \in stack : j.at <= k.at) => \A k \in stack' : j.at <= k.at
        <5>1. \A d \in new : j.at <= Entry(d, found).at
          BY <1>5, <1>6, <1>7, DialogPlaces
        <5> QED BY <1>1, <1>5, <5>1
      <4>4. ASSUME \A k \in stack' : j.at <= k.at, NEW k \in stack PROVE j.at <= k.at
        <5>1. CASE k \in Remaining(shown)
          BY <4>2, <4>4, <5>1
        <5>2. CASE k \notin Remaining(shown)
          <6>1. k.name \in Newest
            BY <2>1, <5>2 DEF Remaining, Mounted
          <6>2. \A i \in stack : i.at <= k.at
            BY <6>1 DEF Newest, StackTyped
          <6> QED BY <1>5, <6>2
        <5> QED BY <5>1, <5>2
      <4> QED BY <4>1, <4>3, <4>4
    <3>4. ASSUME NEW d \in new
          PROVE  Entry(d, found).was <=> \A k \in stack' : Entry(d, found).at <= k.at
      <4>1. PICK j \in Remaining(shown) : TRUE
        BY <2>3
      <4>2. j \in stack' /\ ~ Entry(d, found).at <= j.at
        BY <1>1, <1>5, <1>6, <1>7, DialogPlaces
      <4> QED BY <1>7, <3>1, <4>2
    <3> QED BY <1>1, <1>4, <1>8, <1>12, <3>2, <3>3, <3>4 DEF Remembered, PageScrolls
  <2> QED BY <2>2, <2>3
<1> QED BY <1>4, <1>8, <1>10, <1>11, <1>12

\* What the page asks for stays among its dialogs.
LEMMA AskKeeps ==
    ASSUME PageInv, NEW asks \in SUBSET DialogNames, NEW hidden, Ask(asks, hidden)
    PROVE  PageInv'
<1> DEFINE those == IF asks \cap Outer = {} THEN asks \ Inner ELSE asks
<1>1. those \subseteq DialogNames /\ open' = those /\ Settle(those \ hidden)
  BY DEF Ask
<1>2. /\ StackTyped' /\ Remembered' /\ PageScrolls'
      /\ scrolls' \in BOOLEAN /\ orderly' \in BOOLEAN
  BY <1>1, SettleKeeps
<1> QED BY <1>1, <1>2 DEF PageInv, PageTyped

\* A page that is loading has no dialog and scrolls.
LEMMA PageInitially == PanelInit => PageInv
BY DEF PanelInit, PageInv, StackTyped, PageTyped, Remembered, PageScrolls

\* Every step of the page and of its dialogs keeps the invariant (page.tsx, Modal.tsx).
LEMMA PageStep == PageInv /\ [PanelNext]_panelVars => PageInv'
<1> SUFFICES ASSUME PageInv, [PanelNext]_panelVars PROVE PageInv'
  OBVIOUS
<1>1. ASSUME UNCHANGED <<open, stack, scrolls, orderly>> PROVE PageInv'
  BY <1>1 DEF PageInv, StackTyped, PageTyped, Remembered, PageScrolls
<1>2. ASSUME open' \subseteq DialogNames, UNCHANGED <<stack, scrolls, orderly>> PROVE PageInv'
  BY <1>2 DEF PageInv, StackTyped, PageTyped, Remembered, PageScrolls
<1>3. open \subseteq DialogNames
  BY DEF PageInv, PageTyped
<1>4. ASSUME Visit PROVE PageInv'
  BY <1>4 DEF Visit, PageInv, StackTyped, PageTyped, Remembered, PageScrolls
<1>5. ASSUME NEW now, ToLogin(now) PROVE PageInv'
  BY <1>5, AskKeeps DEF ToLogin
<1>6. ASSUME LogIn \/ SessionEnds \/ StartLoad \/ Act \/ Dismiss PROVE PageInv'
  BY <1>1, <1>6 DEF LogIn, SessionEnds, StartLoad, Act, Dismiss
<1>7. ASSUME LogOut PROVE PageInv'
  BY <1>5, <1>7 DEF LogOut
<1>8. ASSUME NEW l, LoadServed(l) \/ LoadFails(l) \/ LoadIgnored(l) PROVE PageInv'
  BY <1>1, <1>8 DEF LoadServed, LoadFails, LoadIgnored
<1>9. ASSUME NEW l, LoadSucceeds(l) PROVE PageInv'
  <2>1. PICK gone \in {{}, {"details", "rules"}} :
          \E hidden \in SUBSET (open \cap Located) : Ask(open \ gone, hidden)
    BY <1>9 DEF LoadSucceeds
  <2>2. PICK hidden : Ask(open \ gone, hidden)
    BY <2>1
  <2>3. open \ gone \in SUBSET DialogNames
    BY <1>3
  <2> QED BY <2>2, <2>3, AskKeeps
<1>10. ASSUME NEW l, LoadRefused(l) PROVE PageInv'
  BY <1>5, <1>10 DEF LoadRefused
<1>11. ASSUME NEW t, SelectTab(t) PROVE PageInv'
  BY <1>2, <1>3, <1>11 DEF SelectTab
<1>12. ASSUME Confirm PROVE PageInv'
  <2>1. Ask(open \ (Outer \cup {"sure"}), away) /\ open \ (Outer \cup {"sure"}) \in SUBSET DialogNames
    BY <1>3, <1>12 DEF Confirm
  <2> QED BY <2>1, AskKeeps
<1>13. ASSUME NEW d \in DialogNames, OpenDialog(d) PROVE PageInv'
  <2>1. Ask(open \cup {d}, away \ {d}) /\ open \cup {d} \in SUBSET DialogNames
    BY <1>3, <1>13 DEF OpenDialog
  <2> QED BY <2>1, AskKeeps
<1>14. ASSUME NEW d \in DialogNames, CloseDialog(d) \/ FormDone(d) PROVE PageInv'
  <2>1. Ask(open \ {d}, away) /\ open \ {d} \in SUBSET DialogNames
    BY <1>3, <1>14 DEF CloseDialog, FormDone
  <2> QED BY <2>1, AskKeeps
<1>15. ASSUME NEW d \in DialogNames, SendForm(d) PROVE PageInv'
  <2>1. Ask(open \ {"sure"}, away) /\ open \ {"sure"} \in SUBSET DialogNames
    BY <1>3, <1>15 DEF SendForm
  <2> QED BY <2>1, AskKeeps
<1>16. ASSUME NEW d \in DialogNames, FormFails(d) PROVE PageInv'
  BY <1>1, <1>16 DEF FormFails
<1>17. ASSUME UNCHANGED panelVars PROVE PageInv'
  BY <1>1, <1>17 DEF panelVars
<1> QED
  BY <1>4, <1>6, <1>7, <1>8, <1>9, <1>10, <1>11, <1>12, <1>13, <1>14, <1>15, <1>16, <1>17 DEF PanelNext

\* PageScrolls, for dialogs opened, closed, confirmed, polled away and answered late in any
\* order: no mounted dialog ever lies over a page that scrolls, and only an order that is
\* not newest first can leave the page locked.
THEOREM PageAlwaysScrolls == PanelSpec => []PageScrolls
<1>1. PageInv => PageScrolls
  BY DEF PageInv
<1> QED BY PageInitially, PageStep, <1>1, PTL DEF PanelSpec

---------------------------------------------------------------------------
(* The colour of a card and the theme of the page.                         *)

\* A hue, as a fraction of degrees.
Fractions == Int \X (Nat \ {0})

\* A quotient lies between the bounds of what is divided: how hslToHex's rounding to a level
\* is bounded (Palette's Channel).
LEMMA QuotientBounds ==
    ASSUME NEW x \in Int, NEW y \in Nat \ {0}, NEW low \in Int, NEW high \in Int,
           low * y <= x, x < high * y + y
    PROVE  x \div y \in low..high
<1> DEFINE q == x \div y
           r == x % y
<1>1. q \in Int /\ r \in Int /\ x = y * q + r /\ 0 <= r /\ r < y
  OBVIOUS
<1> HIDE DEF q, r
<1>2. q < low => FALSE
  <2> SUFFICES ASSUME q < low PROVE FALSE
    OBVIOUS
  <2>1. low = q + 1 + (low - q - 1) /\ low - q - 1 \in Nat
    BY <1>1
  <2>2. (low - q - 1) * y >= 0
    BY <2>1
  <2> QED BY <1>1, <2>1, <2>2
<1>3. q > high => FALSE
  <2> SUFFICES ASSUME q > high PROVE FALSE
    OBVIOUS
  <2>1. (q - high - 1) \in Nat
    BY <1>1
  <2>2. (q - high - 1) * y >= 0
    BY <2>1
  <2> QED BY <1>1, <2>1, <2>2
<1> QED BY <1>1, <1>2, <1>3 DEF q

\* Once around at most, the remainder is what is left after one turn: the k of hslToHex
\* (Palette's Channel) never wraps twice.
LEMMA Remainder ==
    ASSUME NEW x \in Int, NEW y \in Nat \ {0}, 0 <= x
    PROVE  /\ x < y => x % y = x
           /\ ~ x < y /\ x < y + y => x % y = x - y
<1> DEFINE q == x \div y
           r == x % y
<1>1. q \in Int /\ r \in Int /\ x = y * q + r /\ 0 <= r /\ r < y
  OBVIOUS
<1> HIDE DEF q, r
<1>2. q >= 0
  <2> SUFFICES ASSUME q < 0 PROVE FALSE
    BY <1>1
  <2>1. (- q - 1) * y >= 0
    BY <1>1
  <2> QED BY <1>1, <2>1
<1>3. q = 0 \/ q = 1 \/ x >= y + y
  <2> SUFFICES ASSUME q >= 2 PROVE x >= y + y
    BY <1>1, <1>2
  <2>1. (q - 2) * y >= 0
    BY <1>1
  <2> QED BY <1>1, <2>1
<1>4. q = 0 => r = x
  BY <1>1
<1>5. q = 1 => r = x - y
  BY <1>1
<1> QED BY <1>1, <1>3, <1>4, <1>5 DEF r

\* Whatever the hue, hslToHex keeps every channel of a light card in 162..215 and of a dark
\* one in 36..107.
LEMMA ChannelBounds ==
    ASSUME NEW hue \in Fractions, NEW n \in {0, 4, 8}
    PROVE  /\ Channel(hue, Bands.light, n) \in 162..215
           /\ Channel(hue, Bands.dark, n) \in 36..107
<1> DEFINE unit == 30 * hue[2]
           k == (n * unit + hue[1]) % (12 * unit)
           blend == Larger(- unit, Smaller(k - 3 * unit, Smaller(9 * unit - k, unit)))
<1>1. hue[1] \in Int /\ unit \in Nat \ {0} /\ n * unit \in Int
  BY DEF Fractions
<1>2. k \in Int
  BY <1>1
<1> HIDE DEF k
<1>3. blend \in -unit .. unit
  BY <1>1, <1>2 DEF Larger, Smaller
<1> HIDE DEF unit, blend
<1>5. Channel(hue, Bands.light, n) = (2 * (51 * (7400 * unit - 1040 * blend)) + 2000 * unit) \div (4000 * unit)
  BY DEF Channel, Bands, unit, k, blend, Smaller, Larger
<1>6. Channel(hue, Bands.dark, n) = (2 * (51 * (2800 * unit - 1400 * blend)) + 2000 * unit) \div (4000 * unit)
  BY DEF Channel, Bands, unit, k, blend, Smaller, Larger
<1>8. Channel(hue, Bands.light, n) \in 162..215
  <2> DEFINE y == 4000 * unit
             x == 2 * (51 * (7400 * unit - 1040 * blend)) + 2000 * unit
  <2>0. y \in Nat \ {0}
    BY <1>1
  <2>1. x \in Int /\ 162 * y <= x /\ x < 215 * y + y
    BY <1>1, <1>3
  <2> HIDE DEF x, y
  <2>2. x \div y \in 162..215
    BY <2>0, <2>1, QuotientBounds
  <2> QED BY <1>5, <2>2 DEF x, y
<1>9. Channel(hue, Bands.dark, n) \in 36..107
  <2> DEFINE y == 4000 * unit
             x == 2 * (51 * (2800 * unit - 1400 * blend)) + 2000 * unit
  <2>0. y \in Nat \ {0}
    BY <1>1
  <2>1. x \in Int /\ 36 * y <= x /\ x < 107 * y + y
    BY <1>1, <1>3
  <2> HIDE DEF x, y
  <2>2. x \div y \in 36..107
    BY <2>0, <2>1, QuotientBounds
  <2> QED BY <1>6, <2>2 DEF x, y
<1> QED BY <1>8, <1>9

\* A channel of hslToHex in terms of its blend: the blend at k, for k the turn of either
\* unit, the three blends of a hue, the two levels of a blend and the two colours of three.
Turn(k, unit) == Larger(- unit, Smaller(k - 3 * unit, Smaller(9 * unit - k, unit)))
Around(k, unit) == IF k < 12 * unit THEN k ELSE k - 12 * unit
Turns(k, unit) == <<Turn(k, unit), Turn(Around(8 * unit + k, unit), unit), Turn(Around(4 * unit + k, unit), unit)>>
LightLevel(t, unit) == (2 * (51 * (7400 * unit - 1040 * t)) + 2000 * unit) \div (4000 * unit)
DarkLevel(t, unit)  == (2 * (51 * (2800 * unit - 1400 * t)) + 2000 * unit) \div (4000 * unit)
LightOf(ts, unit) == <<LightLevel(ts[1], unit), LightLevel(ts[2], unit), LightLevel(ts[3], unit)>>
DarkOf(ts, unit)  == <<DarkLevel(ts[1], unit), DarkLevel(ts[2], unit), DarkLevel(ts[3], unit)>>

\* The colours of a degree of the slider, and of a hue read from a stored colour, which
\* is a number of fifty-thirds of a degree.
LightDegree(h) == LightOf(Turns(h, 30), 30)
DarkDegree(h)  == DarkOf(Turns(h, 30), 30)
LightRim(num)  == LightOf(Turns(num, 1590), 1590)
DarkRim(num)   == DarkOf(Turns(num, 1590), 1590)

\* For a hue of one turn Palette's Channel is that function: the modulus of hslToHex is a
\* subtraction at most.
LEMMA ChannelAt ==
    ASSUME NEW hue \in Fractions, NEW unit, unit = 30 * hue[2], 0 <= hue[1], hue[1] < 12 * unit,
           NEW n \in {0, 4, 8}
    PROVE  LET t == Turn(Around(n * unit + hue[1], unit), unit) IN
             /\ Channel(hue, Bands.light, n) = LightLevel(t, unit)
             /\ Channel(hue, Bands.dark, n) = DarkLevel(t, unit)
<1> DEFINE u == 30 * hue[2]
           x == n * u + hue[1]
           y == 12 * u
           k == x % y
<1>1. x \in Int /\ y \in Nat \ {0} /\ 0 <= x /\ x < y + y /\ u = unit
  BY DEF Fractions
<1>2. Channel(hue, Bands.light, n) = LightLevel(Turn(k, u), u)
  BY DEF Channel, Bands, Larger, Smaller, LightLevel, Turn
<1>3. Channel(hue, Bands.dark, n) = DarkLevel(Turn(k, u), u)
  BY DEF Channel, Bands, Larger, Smaller, DarkLevel, Turn
<1>4. Around(x, u) = IF x < y THEN x ELSE x - y
  BY DEF Around
<1> HIDE DEF x, y, u
<1>5. k = Around(x, u)
  BY <1>1, <1>4, Remainder, Zenon
<1>6. x = n * unit + hue[1]
  BY <1>1 DEF x
<1> HIDE DEF k
<1> QED BY <1>1, <1>2, <1>3, <1>5, <1>6

\* For a hue of one turn hslToHex makes the two colours of its three blends (Palette's
\* HslToHex).
LEMMA ColourAt ==
    ASSUME NEW hue \in Fractions, NEW unit, unit = 30 * hue[2], 0 <= hue[1], hue[1] < 12 * unit
    PROVE  /\ HslToHex(hue, Bands.light) = LightOf(Turns(hue[1], unit), unit)
           /\ HslToHex(hue, Bands.dark) = DarkOf(Turns(hue[1], unit), unit)
<1>1. \A n \in {0, 4, 8} :
        /\ Channel(hue, Bands.light, n) = LightLevel(Turn(Around(n * unit + hue[1], unit), unit), unit)
        /\ Channel(hue, Bands.dark, n) = DarkLevel(Turn(Around(n * unit + hue[1], unit), unit), unit)
  BY ChannelAt
<1>2. Around(0 * unit + hue[1], unit) = hue[1]
  BY DEF Around, Fractions
<1> QED BY <1>1, <1>2 DEF HslToHex, LightOf, DarkOf, Turns

\* A colour of a band: one channel at its top, one at its bottom and one between, on one of
\* six edges around the wheel.  The picker stores such colours of the light band, and an
\* edge and a level stand for a hue.
Middle == 162..215
Edge(e, top, m, low) ==
    << <<top, m, low>>, <<m, top, low>>, <<low, top, m>>, <<low, m, top>>, <<m, low, top>>, <<top, low, m>> >>[e]
Wheel == {Edge(e, 215, m, 162) : e \in 1..6, m \in Middle}
Rim == 0..19079
Blends == -30..30
EdgeHue(e, m) ==
    <<60 * (m - 162), 6360 - 60 * (m - 162), 6360 + 60 * (m - 162), 12720 - 60 * (m - 162),
      12720 + 60 * (m - 162), IF m = 162 THEN 0 ELSE 19080 - 60 * (m - 162)>>[e]

\* The blend of a stored colour's middle channel, and the level it is shown at in the dark.
Blend(m) == 1590 - 60 * (m - 162)
Shade(m) == DarkLevel(Blend(m), 1590)

\* The blends of hslToHex, edge by edge: only the middle one depends on where on it.
LEMMA EdgeTurns ==
    ASSUME NEW unit \in Nat \ {0}, NEW k \in Int
    PROVE  /\ k \in 0 .. 2 * unit => Turns(k, unit) = Edge(1, - unit, unit - k, unit)
           /\ k \in 2 * unit .. 4 * unit => Turns(k, unit) = Edge(2, - unit, k - 3 * unit, unit)
           /\ k \in 4 * unit .. 6 * unit => Turns(k, unit) = Edge(3, - unit, 5 * unit - k, unit)
           /\ k \in 6 * unit .. 8 * unit => Turns(k, unit) = Edge(4, - unit, k - 7 * unit, unit)
           /\ k \in 8 * unit .. 10 * unit => Turns(k, unit) = Edge(5, - unit, 9 * unit - k, unit)
           /\ k \in 10 * unit .. 12 * unit - 1 => Turns(k, unit) = Edge(6, - unit, k - 11 * unit, unit)
<1> DEFINE t == Turn(k, unit)
           g == Turn(Around(8 * unit + k, unit), unit)
           b == Turn(Around(4 * unit + k, unit), unit)
<1>1. k \in 0 .. 2 * unit => t = - unit /\ g = unit - k /\ b = unit
  BY DEF Turn, Around, Larger, Smaller
<1>2. k \in 2 * unit .. 4 * unit => t = k - 3 * unit /\ g = - unit /\ b = unit
  BY DEF Turn, Around, Larger, Smaller
<1>3. k \in 4 * unit .. 6 * unit => t = unit /\ g = - unit /\ b = 5 * unit - k
  BY DEF Turn, Around, Larger, Smaller
<1>4. k \in 6 * unit .. 8 * unit => t = unit /\ g = k - 7 * unit /\ b = - unit
  BY DEF Turn, Around, Larger, Smaller
<1>5. k \in 8 * unit .. 10 * unit => t = 9 * unit - k /\ g = unit /\ b = - unit
  BY DEF Turn, Around, Larger, Smaller
<1>6. k \in 10 * unit .. 12 * unit - 1 => t = - unit /\ g = unit /\ b = k - 11 * unit
  BY DEF Turn, Around, Larger, Smaller
<1>7. Turns(k, unit) = <<t, g, b>>
  BY DEF Turns
<1> HIDE DEF t, g, b
<1> QED BY <1>1, <1>2, <1>3, <1>4, <1>5, <1>6, <1>7 DEF Edge

\* The colour of three blends on an edge is on that edge.
LEMMA EdgeLevels ==
    ASSUME NEW e \in 1..6, NEW top, NEW m, NEW low, NEW unit
    PROVE  /\ LightOf(Edge(e, top, m, low), unit)
                = Edge(e, LightLevel(top, unit), LightLevel(m, unit), LightLevel(low, unit))
           /\ DarkOf(Edge(e, top, m, low), unit)
                = Edge(e, DarkLevel(top, unit), DarkLevel(m, unit), DarkLevel(low, unit))
<1>1. e = 1 \/ e = 2 \/ e = 3 \/ e = 4 \/ e = 5 \/ e = 6
  OBVIOUS
<1> QED BY <1>1 DEF Edge, LightOf, DarkOf

\* The ends of an edge in both bands, and hslToHex between them at the hue of a level.
LEMMA EndLevels ==
    /\ LightLevel(- 30, 30) = 215 /\ LightLevel(30, 30) = 162
    /\ DarkLevel(- 30, 30) = 107 /\ DarkLevel(30, 30) = 36
    /\ LightLevel(- 1590, 1590) = 215 /\ LightLevel(1590, 1590) = 162
    /\ DarkLevel(- 1590, 1590) = 107 /\ DarkLevel(1590, 1590) = 36
BY DEF LightLevel, DarkLevel

\* A level that was read back is that level again, and on the way down a degree the level
\* of the dark band is met to one (hslToHex, twice rounded).
LEMMA MiddleLevels ==
    /\ \A m \in Middle : LightLevel(Blend(m), 1590) = m /\ Shade(m) \in Int
    /\ \A t \in Blends : /\ LightLevel(t, 30) \in Middle /\ DarkLevel(t, 30) \in Int
                          /\ Shade(LightLevel(t, 30)) - DarkLevel(t, 30) \in -1..1
<1>1. ASSUME NEW m \in Middle PROVE LightLevel(Blend(m), 1590) = m /\ Shade(m) \in Int
  BY DEF LightLevel, DarkLevel, Blend, Shade, Middle
<1>2. ASSUME NEW t \in Blends PROVE LightLevel(t, 30) \in Middle /\ DarkLevel(t, 30) \in Int
  BY DEF LightLevel, DarkLevel, Middle, Blends
<1>3. ASSUME NEW t \in Blends PROVE Shade(LightLevel(t, 30)) - DarkLevel(t, 30) \in -1..1
  BY DEF LightLevel, DarkLevel, Blend, Shade, Blends
<1> QED BY <1>1, <1>2, <1>3

\* What hueFromHex reads from a stored colour, and hslToHex makes of that in either band.
LEMMA EdgeColours ==
    ASSUME NEW e \in 1..6, NEW m \in Middle
    PROVE  /\ EdgeHue(e, m) \in Rim
           /\ HueFromHex(Edge(e, 215, m, 162)) = <<EdgeHue(e, m), 53>>
           /\ LightRim(EdgeHue(e, m)) = Edge(e, 215, m, 162)
           /\ DarkRim(EdgeHue(e, m)) = Edge(e, 107, Shade(m), 36)
<1>1. e = 1 \/ e = 2 \/ e = 3 \/ e = 4 \/ e = 5 \/ e = 6
  OBVIOUS
<1>2. /\ EdgeHue(1, m) = 60 * (m - 162) /\ EdgeHue(2, m) = 6360 - 60 * (m - 162)
      /\ EdgeHue(3, m) = 6360 + 60 * (m - 162) /\ EdgeHue(4, m) = 12720 - 60 * (m - 162)
      /\ EdgeHue(5, m) = 12720 + 60 * (m - 162)
      /\ EdgeHue(6, m) = IF m = 162 THEN 0 ELSE 19080 - 60 * (m - 162)
  BY DEF EdgeHue
<1>3. EdgeHue(e, m) \in Rim /\ EdgeHue(e, m) \in Int
  BY <1>1, <1>2 DEF Middle, Rim
<1>4. HueFromHex(Edge(e, 215, m, 162)) = <<EdgeHue(e, m), 53>>
  <2>1. HueFromHex(<<215, m, 162>>) = <<60 * (m - 162), 53>>
    BY DEF HueFromHex, Middle, Larger, Smaller, Degrees
  <2>2. HueFromHex(<<m, 215, 162>>) = <<6360 - 60 * (m - 162), 53>>
    BY DEF HueFromHex, Middle, Larger, Smaller, Degrees
  <2>3. HueFromHex(<<162, 215, m>>) = <<6360 + 60 * (m - 162), 53>>
    BY DEF HueFromHex, Middle, Larger, Smaller, Degrees
  <2>4. HueFromHex(<<162, m, 215>>) = <<12720 - 60 * (m - 162), 53>>
    BY DEF HueFromHex, Middle, Larger, Smaller, Degrees
  <2>5. HueFromHex(<<m, 162, 215>>) = <<12720 + 60 * (m - 162), 53>>
    BY DEF HueFromHex, Middle, Larger, Smaller, Degrees
  <2>6. HueFromHex(<<215, 162, m>>) = <<IF m = 162 THEN 0 ELSE 19080 - 60 * (m - 162), 53>>
    BY DEF HueFromHex, Middle, Larger, Smaller, Degrees
  <2> QED BY <1>1, <2>1, <2>2, <2>3, <2>4, <2>5, <2>6, <1>2 DEF Edge
<1>5. Turns(EdgeHue(e, m), 1590) = Edge(e, - 1590, Blend(m), 1590)
  <2> DEFINE unit == 1590
             k == EdgeHue(e, m)
  <2>1. unit \in Nat \ {0} /\ k \in Int
    BY <1>3
  <2>2. /\ e = 1 => k \in 0 .. 2 * unit /\ unit - k = Blend(m)
        /\ e = 2 => k \in 2 * unit .. 4 * unit /\ k - 3 * unit = Blend(m)
        /\ e = 3 => k \in 4 * unit .. 6 * unit /\ 5 * unit - k = Blend(m)
        /\ e = 4 => k \in 6 * unit .. 8 * unit /\ k - 7 * unit = Blend(m)
        /\ e = 5 => k \in 8 * unit .. 10 * unit /\ 9 * unit - k = Blend(m)
        /\ e = 6 /\ m # 162 => k \in 10 * unit .. 12 * unit - 1 /\ k - 11 * unit = Blend(m)
    BY <1>2 DEF Blend, Middle
  <2>3. CASE e = 6 /\ m = 162
    <3>1. k \in 0 .. 2 * unit /\ unit - k = unit /\ Blend(m) = unit
      BY <1>2, <2>3 DEF Blend
    <3> HIDE DEF k, unit
    <3>2. Turns(k, unit) = Edge(1, - unit, unit, unit)
      BY <2>1, <3>1, EdgeTurns
    <3> QED BY <2>3, <3>1, <3>2 DEF Edge, k, unit
  <2>4. CASE ~ (e = 6 /\ m = 162)
    <3> HIDE DEF k, unit
    <3>1. Turns(k, unit) = Edge(e, - unit, Blend(m), unit)
      BY <1>1, <2>1, <2>2, <2>4, EdgeTurns
    <3> QED BY <3>1 DEF k, unit
  <2> QED BY <2>3, <2>4
<1>6. LightRim(EdgeHue(e, m)) = Edge(e, 215, m, 162)
  BY <1>5, EdgeLevels, EndLevels, MiddleLevels DEF LightRim
<1>7. DarkRim(EdgeHue(e, m)) = Edge(e, 107, Shade(m), 36)
  BY <1>5, EdgeLevels, EndLevels DEF DarkRim, Shade
<1> QED BY <1>3, <1>4, <1>6, <1>7

\* What hslToHex makes of a degree, in either band, is on the same edge.
LEMMA DegreeEdges ==
    ASSUME NEW h \in 0..359
    PROVE  \E e \in 1..6, t \in Blends : /\ LightDegree(h) = Edge(e, 215, LightLevel(t, 30), 162)
                                       /\ DarkDegree(h) = Edge(e, 107, DarkLevel(t, 30), 36)
<1> DEFINE unit == 30
<1>1. unit \in Nat \ {0} /\ h \in Int
  OBVIOUS
<1>2. \E e \in 1..6, t \in Blends : Turns(h, unit) = Edge(e, - unit, t, unit)
  <2>1. \/ h \in 0 .. 2 * unit /\ unit - h \in Blends
        \/ h \in 2 * unit .. 4 * unit /\ h - 3 * unit \in Blends
        \/ h \in 4 * unit .. 6 * unit /\ 5 * unit - h \in Blends
        \/ h \in 6 * unit .. 8 * unit /\ h - 7 * unit \in Blends
        \/ h \in 8 * unit .. 10 * unit /\ 9 * unit - h \in Blends
        \/ h \in 10 * unit .. 12 * unit - 1 /\ h - 11 * unit \in Blends
    BY DEF Blends
  <2>2. {1, 2, 3, 4, 5, 6} \subseteq 1..6
    OBVIOUS
  <2> HIDE DEF unit
  <2> QED BY <1>1, <2>1, <2>2, EdgeTurns
<1>3. PICK e \in 1..6, t \in Blends : Turns(h, unit) = Edge(e, - unit, t, unit)
  BY <1>2
<1>4. LightDegree(h) = Edge(e, 215, LightLevel(t, 30), 162)
  BY <1>3, EdgeLevels, EndLevels DEF LightDegree
<1>5. DarkDegree(h) = Edge(e, 107, DarkLevel(t, 30), 36)
  BY <1>3, EdgeLevels, EndLevels DEF DarkDegree
<1> QED BY <1>4, <1>5

\* The colour hslToHex makes of a degree of the slider (Palette's HslToHex).
LEMMA DegreeColours ==
    ASSUME NEW h \in 0..359
    PROVE  HslToHex(Degrees(h), Bands.light) = LightDegree(h) /\ HslToHex(Degrees(h), Bands.dark) = DarkDegree(h)
<1> DEFINE hue == Degrees(h)
<1>1. hue \in Fractions /\ hue[1] = h /\ hue[2] = 1
  BY DEF Degrees, Fractions
<1> HIDE DEF hue
<1>2. 30 = 30 * hue[2] /\ 0 <= hue[1] /\ hue[1] < 12 * 30
  BY <1>1
<1>3. HslToHex(hue, Bands.light) = LightDegree(h) /\ HslToHex(hue, Bands.dark) = DarkDegree(h)
  BY <1>1, <1>2, ColourAt DEF LightDegree, DarkDegree
<1> QED BY <1>3 DEF hue

\* The colour hslToHex makes of a hue read from a stored colour (Palette's HslToHex).
LEMMA WheelColours ==
    ASSUME NEW num \in Rim
    PROVE  HslToHex(<<num, 53>>, Bands.light) = LightRim(num) /\ HslToHex(<<num, 53>>, Bands.dark) = DarkRim(num)
<1> DEFINE hue == <<num, 53>>
<1>1. hue \in Fractions /\ hue[1] = num /\ hue[2] = 53
  BY DEF Fractions, Rim
<1> HIDE DEF hue
<1>2. 1590 = 30 * hue[2] /\ 0 <= hue[1] /\ hue[1] < 12 * 1590
  BY <1>1 DEF Rim
<1>3. HslToHex(hue, Bands.light) = LightRim(num) /\ HslToHex(hue, Bands.dark) = DarkRim(num)
  BY <1>1, <1>2, ColourAt DEF LightRim, DarkRim
<1> QED BY <1>3 DEF hue

\* What the picker saves at a degree is one of the stored colours: hslToHex, edge by edge.
LEMMA DegreeOnWheel ==
    ASSUME NEW h \in 0..359
    PROVE  LightDegree(h) \in Wheel
<1>1. PICK e \in 1..6, t \in Blends : /\ LightDegree(h) = Edge(e, 215, LightLevel(t, 30), 162)
                                       /\ DarkDegree(h) = Edge(e, 107, DarkLevel(t, 30), 36)
  BY DegreeEdges
<1>2. LightLevel(t, 30) \in Middle
  BY MiddleLevels
<1> QED BY <1>1, <1>2 DEF Wheel

\* hslToHex undoes hueFromHex on every stored colour, although hueFromHex does not undo
\* hslToHex on every degree.
LEMMA WheelRoundTrip ==
    ASSUME NEW c \in Wheel
    PROVE  \E num \in Rim : HueFromHex(c) = <<num, 53>> /\ LightRim(num) = c
<1>1. PICK e \in 1..6, m \in Middle : c = Edge(e, 215, m, 162)
  BY DEF Wheel
<1> QED BY <1>1, EdgeColours

\* Two colours that differ by one level of a channel at most.
OneLevel(p, q) == \A i \in 1..3 : p[i] - q[i] \in -1..1

\* The hue that hueFromHex reads from the 24 bits of a degree's colour is not that degree,
\* but hslToHex makes of both the same dark colour, to one level of a channel.
LEMMA DarkNear ==
    ASSUME NEW h \in 0..359, NEW num \in Rim, HueFromHex(LightDegree(h)) = <<num, 53>>
    PROVE  OneLevel(DarkRim(num), DarkDegree(h))
<1>1. PICK e \in 1..6, t \in Blends : /\ LightDegree(h) = Edge(e, 215, LightLevel(t, 30), 162)
                                       /\ DarkDegree(h) = Edge(e, 107, DarkLevel(t, 30), 36)
  BY DegreeEdges
<1> DEFINE m == LightLevel(t, 30)
           p == Shade(m)
           q == DarkLevel(t, 30)
<1>2. m \in Middle /\ p \in Int /\ q \in Int /\ p - q \in -1..1
  BY MiddleLevels
<1>3. LightDegree(h) = Edge(e, 215, m, 162)
  BY <1>1
<1> HIDE DEF m
<1>4. num = EdgeHue(e, m) /\ DarkRim(EdgeHue(e, m)) = Edge(e, 107, p, 36)
  BY <1>2, <1>3, EdgeColours
<1>5. DarkRim(num) = Edge(e, 107, p, 36) /\ DarkDegree(h) = Edge(e, 107, q, 36)
  BY <1>1, <1>4
<1> HIDE DEF p, q
<1>6. OneLevel(Edge(e, 107, p, 36), Edge(e, 107, q, 36))
  BY <1>2 DEF OneLevel, Edge
<1> QED BY <1>5, <1>6

\* The colours that are stored: none, or what the picker makes of a hue.
Overrides == {Automatic} \cup Wheel

\* Where the slider can be: at a degree, or at the hue read from a stored colour.
PickHues == {Degrees(h) : h \in 0..359} \cup {HueFromHex(c) : c \in Wheel}

\* Only colours of the picker's band are stored, an open picker was opened on one, and
\* the page is painted as the choice and the browser's copy of it say.
PaletteInv ==
    /\ seedHue \in 0..359
    /\ colour \in Overrides
    /\ picker = ClosedPicker \/ picker \in [hue : PickHues, auto : BOOLEAN, of : Overrides]
    /\ choice \in {"system", "light", "dark"} /\ stored \in {"none", "system", "light", "dark"}
    /\ dark \in BOOLEAN /\ storable \in BOOLEAN
    /\ storable => choice = ReadStored /\ painted = Resolved

\* A stored colour is not the mark for none.
LEMMA ColoursAreColours == ASSUME NEW c \in Wheel PROVE c # Automatic
<1>1. c \in Int \X Int \X Int
  <2>1. PICK e \in 1..6, m \in Middle : c = Edge(e, 215, m, 162)
    BY DEF Wheel
  <2>2. m \in Int /\ (e = 1 \/ e = 2 \/ e = 3 \/ e = 4 \/ e = 5 \/ e = 6)
    BY DEF Middle
  <2> QED BY <2>1, <2>2 DEF Edge
<1>2. DOMAIN c = 1..3
  BY <1>1
<1>3. DOMAIN Automatic = {}
  BY DEF Automatic
<1> QED BY <1>2, <1>3

\* Wherever the slider is, it stands for a fraction, and what is saved there is a colour
\* of the picker's band.
LEMMA HuesSave ==
    ASSUME NEW hue \in PickHues
    PROVE  hue \in Fractions /\ HslToHex(hue, PickerBand) \in Wheel
<1>1. CASE \E h \in 0..359 : hue = Degrees(h)
  <2>1. PICK h \in 0..359 : hue = Degrees(h)
    BY <1>1
  <2>2. hue \in Fractions
    BY <2>1 DEF Degrees, Fractions
  <2> QED BY <2>1, <2>2, DegreeColours, DegreeOnWheel DEF PickerBand
<1>2. CASE \E c \in Wheel : hue = HueFromHex(c)
  <2>1. PICK c \in Wheel : hue = HueFromHex(c)
    BY <1>2
  <2>2. PICK num \in Rim : hue = <<num, 53>> /\ LightRim(num) = c
    BY <2>1, WheelRoundTrip
  <2>3. hue \in Fractions
    BY <2>2 DEF Fractions, Rim
  <2>4. HslToHex(hue, PickerBand) = c
    BY <2>2, WheelColours DEF PickerBand
  <2> QED BY <2>3, <2>4
<1> QED BY <1>1, <1>2 DEF PickHues

\* Saving the hue that was read from a stored colour stores that colour again.
LEMMA ColoursStay ==
    ASSUME NEW c \in Wheel
    PROVE  HueFromHex(c) \in PickHues /\ HslToHex(HueFromHex(c), PickerBand) = c
<1>1. PICK num \in Rim : HueFromHex(c) = <<num, 53>> /\ LightRim(num) = c
  BY WheelRoundTrip
<1>2. HslToHex(<<num, 53>>, PickerBand) = LightRim(num)
  BY WheelColours DEF PickerBand
<1> QED BY <1>1, <1>2 DEF PickHues

\* A page that was just loaded, with nothing picked.
LEMMA PaletteInitially == PaletteInit => PaletteInv
<1> SUFFICES ASSUME PaletteInit PROVE PaletteInv
  OBVIOUS
<1>1. seedHue \in 0..359
  BY PaletteAssumption DEF PaletteInit
<1>2. storable => choice = ReadStored /\ painted = Resolved
  BY DEF PaletteInit, ReadStored, Resolved, Booted
<1> QED BY <1>1, <1>2 DEF PaletteInit, PaletteInv, Overrides

\* Every step keeps it.
LEMMA PaletteStep == PaletteInv /\ [PaletteNext]_paletteVars => PaletteInv'
<1> SUFFICES ASSUME PaletteInv, [PaletteNext]_paletteVars PROVE PaletteInv'
  OBVIOUS
<1> USE DEF PaletteInv
<1>1. CASE Mount
  BY <1>1 DEF Mount, Paint, Resolved, ReadStored
<1>2. ASSUME NEW c \in {"system", "light", "dark"}, SetChoice(c) PROVE PaletteInv'
  <2>1. choice' = c /\ stored' = (IF storable THEN c ELSE stored) /\ painted' = Resolved'
    BY <1>2 DEF SetChoice, Paint
  <2>2. UNCHANGED <<seedHue, colour, picker, storable, dark>>
    BY <1>2 DEF SetChoice
  <2> QED BY <2>1, <2>2 DEF ReadStored
<1>3. CASE SystemChanges
  BY <1>3 DEF SystemChanges, Paint, Resolved, ReadStored
<1>4. CASE Reload
  BY <1>4 DEF Reload, Booted, Resolved, ReadStored
<1>5. CASE OpenPicker
  <2>1. HueOfNode \in PickHues
    <3>1. CASE colour = Automatic
      BY <3>1 DEF HueOfNode, PickHues
    <3>2. CASE colour # Automatic
      BY <3>2, ColoursStay DEF HueOfNode, Overrides
    <3> QED BY <3>1, <3>2
  <2>2. picker' = [hue |-> HueOfNode, auto |-> colour = Automatic, of |-> colour]
        /\ UNCHANGED <<seedHue, colour, choice, stored, storable, dark, painted>>
    BY <1>5 DEF OpenPicker
  <2>3. (colour = Automatic) \in BOOLEAN
    OBVIOUS
  <2>4. picker' \in [hue : PickHues, auto : BOOLEAN, of : Overrides]
    BY <2>1, <2>2, <2>3
  <2> QED BY <2>2, <2>4 DEF Resolved, ReadStored
<1>6. CASE BackToAutomatic
  <2>1. Degrees(seedHue) \in PickHues
    BY DEF PickHues
  <2>2. picker' \in [hue : PickHues, auto : BOOLEAN, of : Overrides]
    BY <1>6, <2>1 DEF BackToAutomatic, PickerOpen
  <2> QED BY <1>6, <2>2 DEF BackToAutomatic, Resolved, ReadStored
<1>7. CASE SaveColour
  <2>1. colour' \in Overrides
    BY <1>7, HuesSave DEF SaveColour, PickerOpen, Overrides
  <2> QED BY <1>7, <2>1 DEF SaveColour, Resolved, ReadStored
<1>8. CASE CancelPicker
  BY <1>8 DEF CancelPicker, Resolved, ReadStored
<1>9. ASSUME NEW h \in SliderHues, DragSlider(h) PROVE PaletteInv'
  <2>1. Degrees(h) \in PickHues
    BY PaletteAssumption DEF PickHues
  <2>2. picker' \in [hue : PickHues, auto : BOOLEAN, of : Overrides]
    BY <1>9, <2>1 DEF DragSlider, PickerOpen
  <2> QED BY <1>9, <2>2 DEF DragSlider, Resolved, ReadStored
<1>10. ASSUME NEW h \in SliderHues, PickedElsewhere(h) PROVE PaletteInv'
  <2>1. Degrees(h) \in PickHues
    BY PaletteAssumption DEF PickHues
  <2>2. colour' \in Overrides
    BY <1>10, <2>1, HuesSave DEF PickedElsewhere, Overrides
  <2> QED BY <1>10, <2>2 DEF PickedElsewhere, Resolved, ReadStored
<1>11. CASE UNCHANGED paletteVars
  BY <1>11 DEF paletteVars, Resolved, ReadStored
<1> QED
  BY <1>1, <1>2, <1>3, <1>4, <1>5, <1>6, <1>7, <1>8, <1>9, <1>10, <1>11
  DEF PaletteNext, ThemeNext, DialogNext, PickHue

\* A card shows a hue as a fraction, whether it was picked or drawn.
LEMMA NodeHues == PaletteInv => HueOfNode \in Fractions
<1>1. ASSUME PaletteInv, colour = Automatic PROVE HueOfNode \in Fractions
  BY <1>1 DEF PaletteInv, HueOfNode, Degrees, Fractions
<1>2. ASSUME PaletteInv, colour # Automatic PROVE HueOfNode \in Fractions
  BY <1>2, ColoursStay, HuesSave DEF PaletteInv, HueOfNode, Overrides
<1> QED BY <1>1, <1>2

\* Every card's text can be read (Palette's CardsReadable), because no channel of a light
\* card is below 162 and none of a dark one above 107, whatever its hue.
THEOREM CardsStayReadable == PaletteSpec => []CardsReadable
<1>1. PaletteInv => CardsReadable
  <2> SUFFICES ASSUME PaletteInv PROVE CardsReadable
    OBVIOUS
  <2> DEFINE C(n) == Channel(HueOfNode, Bands.light, n)
             D(n) == Channel(HueOfNode, Bands.dark, n)
  <2>1. \A n \in {0, 4, 8} : C(n) \in 162..215 /\ D(n) \in 36..107
    BY NodeHues, ChannelBounds
  <2>2. NodeColor("light") = <<C(0), C(8), C(4)>> /\ NodeColor("dark") = <<D(0), D(8), D(4)>>
    BY DEF NodeColor, HslToHex, Bands
  <2> HIDE DEF C, D
  <2>3. ReadableTextColor(NodeColor("light")) = "dark"
    <3>1. C(0) >= 162 /\ C(8) >= 162 /\ C(4) >= 162
      BY <2>1
    <3>2. C(0) \in Int /\ C(8) \in Int /\ C(4) \in Int
      BY <2>1
    <3>3. 299 * C(0) + 587 * C(8) + 114 * C(4) > 150000
      BY <3>1, <3>2
    <3> QED BY <2>2, <3>3 DEF ReadableTextColor
  <2>4. ReadableTextColor(NodeColor("dark")) = "white"
    <3>1. D(0) <= 107 /\ D(8) <= 107 /\ D(4) <= 107
      BY <2>1
    <3>2. D(0) \in Int /\ D(8) \in Int /\ D(4) \in Int
      BY <2>1
    <3>3. ~ (299 * D(0) + 587 * D(8) + 114 * D(4) > 150000)
      BY <3>1, <3>2
    <3> QED BY <2>2, <3>3 DEF ReadableTextColor
  <2> QED BY <2>3, <2>4 DEF CardsReadable, PaletteInv
<1> QED BY PaletteInitially, PaletteStep, <1>1, PTL DEF PaletteSpec

\* The preview of an open picker and the card after saving, in the band of a theme.
LEMMA PreviewKept ==
    ASSUME NEW hue \in PickHues, NEW i \in 1..3
    PROVE  LET kept == HueFromHex(HslToHex(hue, PickerBand)) IN
             /\ HslToHex(kept, Bands.light)[i] - HslToHex(hue, Bands.light)[i] \in -1..1
             /\ HslToHex(kept, Bands.dark)[i] - HslToHex(hue, Bands.dark)[i] \in -1..1
<1> DEFINE c == HslToHex(hue, PickerBand)
           kept == HueFromHex(c)
<1>1. c \in Wheel /\ hue \in Fractions
  BY HuesSave
<1>2. PICK num \in Rim : kept = <<num, 53>> /\ LightRim(num) = c
  BY <1>1, WheelRoundTrip
<1>3. HslToHex(kept, Bands.light) = c
  BY <1>1, ColoursStay DEF PickerBand
<1>4. \A n \in {0, 4, 8} : Channel(hue, Bands.light, n) \in Int /\ Channel(hue, Bands.dark, n) \in Int
  BY <1>1, ChannelBounds
<1>5. HslToHex(hue, Bands.light)[i] \in Int /\ HslToHex(hue, Bands.dark)[i] \in Int
  BY <1>4 DEF HslToHex
<1>6. HslToHex(kept, Bands.light)[i] - HslToHex(hue, Bands.light)[i] \in -1..1
  BY <1>3, <1>5 DEF PickerBand
<1>7. CASE \E h \in 0..359 : hue = Degrees(h)
  <2>1. PICK h \in 0..359 : hue = Degrees(h)
    BY <1>7
  <2>2. c = LightDegree(h) /\ HslToHex(hue, Bands.dark) = DarkDegree(h)
    BY <2>1, DegreeColours DEF PickerBand
  <2>3. HslToHex(kept, Bands.dark) = DarkRim(num)
    BY <1>2, WheelColours
  <2>4. HueFromHex(LightDegree(h)) = <<num, 53>>
    <3> HIDE DEF c
    <3> QED BY <1>2, <2>2
  <2>5. OneLevel(DarkRim(num), DarkDegree(h))
    <3> HIDE DEF c, kept
    <3> QED BY <2>4, DarkNear, Zenon
  <2> QED BY <1>6, <2>2, <2>3, <2>5 DEF OneLevel
<1>8. CASE \E d \in Wheel : hue = HueFromHex(d)
  <2>1. kept = hue
    BY <1>8, ColoursStay
  <2> QED BY <1>5, <1>6, <2>1
<1> QED BY <1>7, <1>8 DEF PickHues

\* What is saved is what the picker was opened on unless the slider was moved, and the card
\* looks as the preview did (Palette's PickerShowsTheCard): a stored colour is read back as
\* the hue that gives it again, and a degree that is not moves a channel by one at most.
THEOREM PickerTellsTrue == PaletteSpec => PickerShowsTheCard
<1> DEFINE Told == SaveColour => /\ Untouched => colour' = picker.of
                                 /\ \A i \in 1..3 : NodeColor(Resolved)'[i] - Swatch[i] \in -1..1
<1>1. ASSUME PaletteInv, SaveColour PROVE Untouched => colour' = picker.of
  <2>1. picker \in [hue : PickHues, auto : BOOLEAN, of : Overrides]
        /\ colour' = IF picker.auto THEN Automatic ELSE HslToHex(picker.hue, PickerBand)
    BY <1>1 DEF PaletteInv, SaveColour, PickerOpen
  <2>2. CASE picker.of = Automatic
    BY <2>1, <2>2 DEF Untouched
  <2>3. CASE picker.of # Automatic
    BY <2>1, <2>3, ColoursStay DEF Untouched, Overrides
  <2> QED BY <2>2, <2>3
<1>2. ASSUME PaletteInv, SaveColour, NEW i \in 1..3
      PROVE  NodeColor(Resolved)'[i] - Swatch[i] \in -1..1
  <2>1. picker \in [hue : PickHues, auto : BOOLEAN, of : Overrides]
        /\ colour' = (IF picker.auto THEN Automatic ELSE HslToHex(picker.hue, PickerBand))
        /\ UNCHANGED <<seedHue, choice, dark>>
    BY <1>2 DEF PaletteInv, SaveColour, PickerOpen
  <2>2. Resolved' = Resolved /\ Resolved \in {"light", "dark"}
    BY <1>2, <2>1 DEF Resolved, PaletteInv
  <2>3. NodeColor(Resolved)' = HslToHex(HueOfNode', Bands[Resolved])
    BY <2>2 DEF NodeColor
  <2>4. CASE picker.auto
    <3>1. HueOfNode' = Degrees(seedHue) /\ Degrees(seedHue) \in Fractions
      BY <1>2, <2>1, <2>4 DEF HueOfNode, PaletteInv, Degrees, Fractions
    <3>2. Swatch = HslToHex(Degrees(seedHue), Bands[Resolved])
      BY <2>4 DEF Swatch
    <3>3. \A n \in {0, 4, 8} : /\ Channel(Degrees(seedHue), Bands.light, n) \in Int
                               /\ Channel(Degrees(seedHue), Bands.dark, n) \in Int
      BY <3>1, ChannelBounds
    <3>4. Swatch[i] \in Int
      BY <2>2, <3>2, <3>3 DEF HslToHex, Bands
    <3> QED BY <2>3, <3>1, <3>2, <3>4
  <2>5. CASE ~ picker.auto
    <3>1. colour' = HslToHex(picker.hue, PickerBand) /\ colour' \in Wheel
      BY <2>1, <2>5, HuesSave
    <3>2. HueOfNode' = HueFromHex(HslToHex(picker.hue, PickerBand))
      BY <3>1, ColoursAreColours DEF HueOfNode
    <3>3. Swatch = HslToHex(picker.hue, Bands[Resolved])
      BY <2>5 DEF Swatch
    <3>4. Bands["light"] = Bands.light /\ Bands["dark"] = Bands.dark
      OBVIOUS
    <3> QED BY <2>1, <2>2, <2>3, <3>2, <3>3, <3>4, PreviewKept
  <2> QED BY <2>4, <2>5
<1>3. PaletteInv => Told
  BY <1>1, <1>2
<1>4. PaletteInv /\ [PaletteNext]_paletteVars => [Told]_paletteVars
  BY <1>3
<1> QED BY PaletteInitially, PaletteStep, <1>4, PTL DEF PaletteSpec, PickerShowsTheCard

===============================================================================
