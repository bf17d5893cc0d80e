----------------------------- MODULE PanelPage -----------------------------
(***************************************************************************)
(* The page around the lists (web/app/page.tsx): signing in, the loads     *)
(* that poll the panel, and the dialogs that lie over it.  Every dialog is *)
(* a Modal (components/Modal.tsx), which keeps a stack, outside React, of  *)
(* those that are mounted, and stops the page behind from scrolling.       *)
(*                                                                         *)
(* Which dialogs are on the screen follows from the page's state and from  *)
(* its lists: a load can take a dialog away, or bring one back.  Of the    *)
(* lists only that is kept.                                                *)
(***************************************************************************)
EXTENDS Naturals, Sequences

VARIABLES
    cookie,     \* the session cookie of the browser: "none", "stale" or "valid"
    place,      \* the page that is mounted: "login" or "panel"
    tab,        \* the section of the panel
    loads,      \* loads under way: of this mount or one before, and what became of them
    pageReady,  \* the first load has come back
    trouble,    \* an error is shown
    away,       \* dialogs about a location that is not listed as active now
    open,       \* the dialogs the page's state asks for
    late,       \* those that a call under way will close when it succeeds
    stack,      \* the mounted ones: the order they were, and whether the page scrolled before
    scrolls,    \* the page scrolls now
    orderly     \* no dialog was unmounted but the one mounted last

panelVars == <<cookie, place, tab, loads, pageReady, trouble, away, open, late, stack, scrolls, orderly>>
sessionVars == <<cookie, place, tab, loads, pageReady, trouble>>

Views == [devices   |-> {"wizard", "details", "rules"},
          locations |-> {"location", "config", "remove", "rename", "color"},
          map       |-> {"wizard", "details", "rules", "group", "link", "rename"}]
Tabs  == DOMAIN Views
Outer == {"details", "group"}  \* the two that open others,
Inner == {"sure", "tint"}      \* ConfirmModal and ColorPickerModal, over themselves
Slow  == {"rules", "location", "details"} \* closed only when the call they make is answered

\* The dialogs as the document has them: a backdrop covers those before it.
Document == <<"remove", "rename", "color", "group", "link", "wizard", "location", "details",
              "tint", "sure", "rules", "config">>
DialogNames == {Document[i] : i \in 1..Len(Document)}
Place(d)    == CHOOSE i \in 1..Len(Document) : Document[i] = d
Located     == {"rules", "link"}  \* drawn only while their location is listed

Mounted  == {m.name : m \in stack}
Newest   == {m.name : m \in {k \in stack : \A j \in stack : j.at <= k.at}}
Foremost == {d \in Mounted : \A e \in Mounted : Place(e) <= Place(d)}
Height   == IF stack = {} THEN 0 ELSE CHOOSE h \in {m.at : m \in stack} : \A m \in stack : m.at <= h

---------------------------------------------------------------------------
(* Modal's effect.                                                         *)

Remaining(shown) == {m \in stack : m.name \in shown}

FoundOpen(shown) == IF Mounted \subseteq shown THEN {scrolls} ELSE {TRUE}

\* Dialogs that go are cleaned up before others are mounted; the last to be cleaned up,
\* whichever that is, puts back what it found if it leaves the stack empty.
Found(shown) == IF stack = {} \/ Remaining(shown) # {} THEN {scrolls} ELSE {m.was : m \in stack}

Settle(shown) ==
    LET new == shown \ Mounted
        First(d) == \A e \in new : Place(d) <= Place(e)
    IN  /\ \E found \in Found(shown) :
             /\ stack' = Remaining(shown)
                  \cup {[name |-> d, at |-> Height + Place(d), was |-> found /\ First(d)] : d \in new}
             /\ scrolls' = (found /\ new = {})
        /\ orderly' = (orderly /\ Mounted \ shown \subseteq Newest)

\* The page asks for these dialogs, some of which are not drawn.  What a dialog had open
\* itself goes with it.
Ask(asks, hidden) ==
    LET those == IF asks \cap Outer = {} THEN asks \ Inner ELSE asks IN
      /\ open' = those /\ away' = hidden
      /\ Settle(those \ hidden)

---------------------------------------------------------------------------
(* Signing in and out.                                                     *)

PanelInit ==
    /\ cookie \in {"none", "stale", "valid"}
    /\ place = IF cookie = "none" THEN "login" ELSE "panel"
    /\ tab \in Tabs
    /\ loads = IF place = "panel" THEN {<<"mine", "asked">>} ELSE {}
    /\ pageReady = FALSE /\ trouble = FALSE /\ away = {}
    /\ open = {} /\ late = {} /\ stack = {} /\ scrolls = TRUE /\ orderly = TRUE

\* The middleware asks only whether there is a cookie.  A new document starts anew.
Visit ==
    /\ place' = IF cookie = "none" THEN "login" ELSE "panel"
    /\ loads' = IF cookie = "none" THEN {} ELSE {<<"mine", "asked">>}
    /\ pageReady' = FALSE /\ trouble' = FALSE /\ away' = {}
    /\ open' = {} /\ late' = {} /\ stack' = {} /\ scrolls' = TRUE /\ orderly' = TRUE
    /\ UNCHANGED <<cookie, tab>>

LogIn ==
    /\ place = "login"
    /\ \/ /\ cookie' = "valid" /\ place' = "panel"
          /\ loads' = loads \cup {<<"mine", "asked">>}
          /\ trouble' = FALSE
       \/ trouble' = TRUE /\ UNCHANGED <<cookie, place, loads>>
    /\ UNCHANGED <<tab, pageReady, away, open, late, stack, scrolls, orderly>>

\* router.push("/login"): the panel goes with all its dialogs, its calls go on, and the
\* document stays what it was.
ToLogin(now) ==
    /\ place' = "login"
    /\ loads' = {<<"left", l[2]>> : l \in now}
    /\ pageReady' = FALSE /\ trouble' = FALSE /\ late' = {}
    /\ UNCHANGED tab
    /\ Ask({}, {})

LogOut ==
    /\ place = "panel" /\ pageReady /\ Mounted = {}
    /\ cookie' = "none"
    /\ ToLogin(loads)

SessionEnds ==
    /\ cookie = "valid"
    /\ cookie' \in {"stale", "none"}
    /\ UNCHANGED <<place, tab, loads, pageReady, trouble, away, open, late, stack, scrolls, orderly>>

---------------------------------------------------------------------------
(* Loading.                                                                *)

StartLoad ==
    /\ place = "panel"
    /\ loads' = loads \cup {<<"mine", "asked">>}
    /\ UNCHANGED <<cookie, place, tab, pageReady, trouble, away, open, late, stack, scrolls, orderly>>

LoadServed(l) ==
    /\ l[2] = "asked"
    /\ \E answer \in {"failed", IF cookie = "valid" THEN "ok" ELSE "refused"} :
         loads' = (loads \ {l}) \cup {<<l[1], answer>>}
    /\ UNCHANGED <<cookie, place, tab, pageReady, trouble, away, open, late, stack, scrolls, orderly>>

\* What has been deleted is gone from the lists, and its dialog with it; a location
\* rejected and approved again takes its dialog away and brings it back.
LoadSucceeds(l) ==
    /\ l = <<"mine", "ok">>
    /\ pageReady' = TRUE /\ trouble' = FALSE
    /\ loads' = loads \ {l}
    /\ \E gone \in {{}, {"details", "rules"}} : \E hidden \in SUBSET (open \cap Located) :
         Ask(open \ gone, hidden)
    /\ UNCHANGED <<cookie, place, tab, late>>

LoadRefused(l) ==
    /\ l[2] = "refused" /\ place = "panel"
    /\ UNCHANGED cookie
    /\ ToLogin(loads \ {l})

LoadFails(l) ==
    /\ l = <<"mine", "failed">>
    /\ pageReady' = TRUE /\ trouble' = TRUE
    /\ loads' = loads \ {l}
    /\ UNCHANGED <<cookie, place, tab, away, open, late, stack, scrolls, orderly>>

\* Nobody is there to take the answer.
LoadIgnored(l) ==
    /\ l[1] = "left" /\ l[2] # "asked" /\ (l[2] = "refused" => place = "login")
    /\ loads' = loads \ {l}
    /\ UNCHANGED <<cookie, place, tab, pageReady, trouble, away, open, late, stack, scrolls, orderly>>

---------------------------------------------------------------------------
(* The panel.                                                              *)

Usable == place = "panel" /\ pageReady

\* A tab the map was on takes what the map's state asked for with it.
SelectTab(t) ==
    /\ Usable /\ Mounted = {} /\ t # tab
    /\ tab' = t
    /\ open' \in {open, {}}
    /\ UNCHANGED <<cookie, place, loads, pageReady, trouble, away, late, stack, scrolls, orderly>>

\* guard: an action of the panel, and a load if it succeeds.
Act ==
    /\ Usable
    /\ \/ trouble' = FALSE /\ loads' = loads \cup {<<"mine", "asked">>}
       \/ trouble' = TRUE /\ UNCHANGED loads
    /\ UNCHANGED <<cookie, place, tab, pageReady, away, open, late, stack, scrolls, orderly>>

Dismiss ==
    /\ trouble /\ trouble' = FALSE
    /\ UNCHANGED <<cookie, place, tab, loads, pageReady, away, open, late, stack, scrolls, orderly>>

\* With no dialog in front a section opens one of its own; a device's and a group's open
\* two more.  A dialog that is asked for again is about something else.
OpenDialog(d) ==
    /\ Usable
    /\ \/ Mounted = {} /\ d \in Views[tab]
       \/ Foremost \cap Outer # {} /\ d \in Inner
    /\ Ask(open \cup {d}, away \ {d})
    /\ UNCHANGED <<sessionVars, late>>

\* A button of the foremost dialog, or Escape, which the newest takes; many a button
\* makes a call as well.
CloseDialog(d) ==
    /\ Usable /\ d \in Foremost \cup Newest
    /\ loads' \in {loads, loads \cup {<<"mine", "asked">>}}
    /\ Ask(open \ {d}, away)
    /\ UNCHANGED <<cookie, place, tab, pageReady, trouble, late>>

\* "Remove device" of the list and "Delete group" of the map close both dialogs at once.
Confirm ==
    /\ Usable /\ "sure" \in Foremost /\ ("details" \in Mounted => tab = "devices")
    /\ loads' = loads \cup {<<"mine", "asked">>}
    /\ Ask(open \ (Outer \cup {"sure"}), away)
    /\ UNCHANGED <<cookie, place, tab, pageReady, trouble, late>>

\* A dialog that waits for its call: on the map that of a device does, with the
\* confirmation gone before.
SendForm(d) ==
    /\ Usable /\ d \in Slow \cap Mounted
    /\ IF d = "details" THEN "sure" \in Foremost /\ tab = "map" ELSE d \in Foremost
    /\ late' = late \cup {d}
    /\ Ask(open \ {"sure"}, away)
    /\ UNCHANGED sessionVars

\* The answer closes whichever dialog of that kind is open by then.
FormDone(d) ==
    /\ d \in late /\ late' = late \ {d}
    /\ loads' = loads \cup {<<"mine", "asked">>}
    /\ Ask(open \ {d}, away)
    /\ UNCHANGED <<cookie, place, tab, pageReady, trouble>>

\* A device's is closed all the same (FormDone).
FormFails(d) ==
    /\ d \in late \ {"details"} /\ late' = late \ {d}
    /\ UNCHANGED <<sessionVars, away, open, stack, scrolls, orderly>>

PanelNext ==
    \/ Visit \/ LogIn \/ LogOut \/ SessionEnds \/ StartLoad
    \/ \E l \in loads : LoadServed(l) \/ LoadSucceeds(l) \/ LoadRefused(l) \/ LoadFails(l) \/ LoadIgnored(l)
    \/ \E t \in Tabs : SelectTab(t)
    \/ Act \/ Dismiss \/ Confirm
    \/ \E d \in DialogNames : OpenDialog(d) \/ CloseDialog(d) \/ SendForm(d) \/ FormDone(d) \/ FormFails(d)

PanelSpec == PanelInit /\ [][PanelNext]_panelVars

---------------------------------------------------------------------------
(* Properties.                                                             *)

\* "the page behind doesn't scroll" (Modal.tsx:7) while any dialog is mounted, in
\* whatever order dialogs came and went; and with none it does again, as long as it was
\* always the newest that went: when two go together, or one from below another, the
\* page is left as the inner one found it.
PageScrolls ==
    /\ stack # {} => ~ scrolls
    /\ stack = {} /\ orderly => scrolls
=============================================================================
