------------------------------ MODULE MCPanel ------------------------------
(* The page and what it shows.  Groups and Traffic work over one database,  *)
(* whose contents have to mean the same to both; the map's lines and cards, *)
(* the colours and the dialogs keep no state of each other's.  Each has a   *)
(* start of its own, from which only its own steps are taken.               *)
EXTENDS Groups, Traffic, MapLines, MapCards, Palette, PanelPage

CONSTANTS
    c1, c2, n1, n2, hub,    \* devices and nodes
    h1, h2, far,            \* LAN hosts, and an address of no LAN
    b1, b2, f1, f2, g1,     \* browsers, flows and a group
    q1,                     \* a request
    MaxChanges,             \* changes and failures of one open map
    MaxTogether,            \* of two at the same time
    MaxLocations,           \* steps of the store and its links
    MaxLines, MaxCards,     \* steps of the map
    MaxColours, MaxDialogs  \* of a picker and the theme, and of the page

VARIABLES changes, team

storeVars == <<vars, trafficVars>>
mcVars == <<storeVars, mapVars, cardVars, paletteVars, panelVars, changes, team>>

CatchAllRule == [dest |-> {c1, c2, n1, n2, hub, h1, h2, far}, proto |-> "any", from |-> 0, to |-> 0]
WebRule      == [dest |-> {h1}, proto |-> "any", from |-> 80, to |-> 0]
TheRules     == {CatchAllRule, WebRule}
Web  == [proto |-> "tcp", port |-> 80]
Name == [proto |-> "udp", port |-> 53]
Ping == [proto |-> "icmp", port |-> 0]
TheKinds == {Web, Name, Ping}

Team(of, browsers, flows, max) == [of |-> of, browsers |-> browsers, flows |-> flows, max |-> max]
AllHues == 0..359

OneMap     == Team("groups", {b1}, {f1}, MaxChanges)
TwoMaps    == Team("groups", Browsers, Flows, MaxTogether)
Locations  == Team("traffic", {}, {}, MaxLocations)
LinesTeam  == Team("lines", {}, {}, MaxLines)
CardsTeam  == Team("cards", {}, {}, MaxCards)
ColourTeam == Team("colours", {}, {}, MaxColours)
DialogTeam == Team("dialogs", {}, {}, MaxDialogs)

PageInit ==
    /\ groups = [b \in Browsers |-> blob]
    /\ puts = [b \in Browsers |-> {}]
    /\ view = [b \in Browsers |-> Listed]
    /\ polls = [b \in Browsers |-> {}]
    /\ flow = [f \in Flows |-> NoFlow]
    /\ settled = TRUE

NoTraffic == lan = [n \in Nodes |-> {}] /\ links = {} /\ req = [h \in Requests |-> Nil]

\* Both devices in one group that reaches n1.
Shared ==
    /\ client = [c \in Clients |-> "enabled"]
    /\ node = [n \in Nodes |-> IF n = n2 THEN "gone" ELSE "active"]
    /\ access = [g \in Pairs |-> IF g[2] = n1 THEN Unlimited ELSE NoAccess]
    /\ exits = {}
    /\ blob = [g \in GroupIds |-> Clients]
    /\ PageInit

\* Two locations whose LANs do not overlap, and a device.
TwoSites ==
    /\ client = [c \in Clients |-> IF c = c1 THEN "enabled" ELSE "absent"]
    /\ node = [n \in Nodes |-> "active"]
    /\ access = [g \in Pairs |-> NoAccess]
    /\ exits = {}
    /\ blob = NoGroups
    /\ PageInit
    /\ lan = [n \in Nodes |-> CASE n = n1 -> {{h1}} [] n = n2 -> {{h2}} [] OTHER -> {Addresses}]
    /\ links = {}
    /\ req = [h \in Requests |-> Nil]

AnyStore ==
    \/ Init /\ NoTraffic /\ client[c1] = "enabled" /\ node[n1] = "active" /\ node[n2] = "gone" /\ team = OneMap
    \/ Shared /\ NoTraffic /\ team = TwoMaps
    \/ TwoSites /\ team = Locations
    \/ TrafficInit /\ blob = NoGroups /\ PageInit /\ team = Locations

\* A part that rests while others run.
StoreRests   == Shared /\ NoTraffic
LinesRest    == listed = [reach |-> [c \in Devices |-> {}], places |-> {}, links |-> {}] /\ MapInit
CardsRest    == known = [c \in Cards |-> "listed"] /\ CardsInit
ColoursRest  == seedHue = 137 /\ dark = FALSE /\ storable = TRUE /\ PaletteInit
DialogsRest  == cookie = "none" /\ tab = "devices" /\ PanelInit

\* Two locations, and one line out of each device at the most.
FewLists ==
    {[reach |-> [c \in Devices |-> IF c = c1 THEN r ELSE {n1}], places |-> p, links |-> l] :
        r \in {{n1}, Unlisted}, p \in {{n1}, {n1, n2}}, l \in {{<<n1, n2>>}, {<<n1, n2>>, <<n2, n1>>}}}

MCInit ==
    /\ changes = 0
    /\ \/ AnyStore /\ LinesRest /\ CardsRest /\ ColoursRest /\ DialogsRest
       \/ /\ StoreRests /\ team = LinesTeam
          /\ listed \in FewLists /\ MapInit /\ CardsRest /\ ColoursRest /\ DialogsRest
       \/ StoreRests /\ LinesRest /\ CardsInit /\ ColoursRest /\ DialogsRest /\ team = CardsTeam
       \/ StoreRests /\ LinesRest /\ CardsRest /\ PaletteInit /\ DialogsRest /\ team = ColourTeam
       \/ StoreRests /\ LinesRest /\ CardsRest /\ ColoursRest /\ PanelInit /\ team = DialogTeam

MapStep ==
    /\ team.of = "groups"
    /\ \/ \E b \in team.browsers : polls[b] = {} /\ view[b] # Listed /\ Poll(b) /\ UNCHANGED changes
       \/ OnTheWay /\ UNCHANGED changes
       \/ /\ changes < team.max
          /\ changes' = changes + 1
          /\ Failure \/ \E b \in team.browsers : Operator(b)
          /\ \A f \in Flows : f \notin team.flows => flow'[f] = flow[f]
          /\ \A f \in Flows : \A i \in DOMAIN flow'[f].calls : flow'[f].calls[i].rules \subseteq {CatchAll}
    /\ UNCHANGED <<trafficVars, mapVars, cardVars, paletteVars, panelVars, team>>

StepOf(of) == team.of = of /\ changes < team.max /\ changes' = changes + 1 /\ UNCHANGED team

LocationStep ==
    /\ StepOf("traffic")
    /\ TrafficNext
    /\ UNCHANGED <<pageVars, flow, settled, mapVars, cardVars, paletteVars, panelVars>>

LineStep ==
    /\ StepOf("lines")
    /\ MapHandlers \/ \E l \in FewLists : ListsChange(l)
    /\ UNCHANGED <<storeVars, cardVars, paletteVars, panelVars>>

CardStep ==
    /\ StepOf("cards")
    /\ CardsNext
    /\ UNCHANGED <<storeVars, mapVars, paletteVars, panelVars>>

\* One hue is picked, for one device.
ColourStep ==
    /\ StepOf("colours")
    /\ \/ ThemeNext \/ DialogNext
       \/ /\ seedHue = 137 /\ choice = "system" /\ colour = Automatic
          /\ picker.hue \in {ClosedPicker.hue, Degrees(seedHue)}
          /\ \E h \in SliderHues : PickHue(h)
    /\ UNCHANGED <<storeVars, mapVars, cardVars, panelVars>>

DialogStep ==
    /\ StepOf("dialogs")
    /\ PanelNext
    /\ UNCHANGED <<storeVars, mapVars, cardVars, paletteVars>>

MCNext == MapStep \/ LocationStep \/ LineStep \/ CardStep \/ ColourStep \/ DialogStep

MCSpec == MCInit /\ [][MCNext]_mcVars
=============================================================================
