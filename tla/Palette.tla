------------------------------ MODULE Palette ------------------------------
(***************************************************************************)
(* The colour of a card and the theme of the page (web/app/lib/color.ts,   *)
(* lib/theme.tsx, components/ColorPickerModal.tsx).  Only the hue of a     *)
(* colour means something: it is stored in one band of saturation and      *)
(* lightness, 24 bits wide, and read back from there into the band of      *)
(* whichever theme is on screen.                                           *)
(*                                                                         *)
(* A hue is a fraction <<num, den>> of degrees, and what the code computes *)
(* with floats is computed exactly: over the hues of the slider the two    *)
(* differ only where a channel lies halfway, by one level, in the dark     *)
(* band at 20, 260 and 340 degrees.                                        *)
(***************************************************************************)
EXTENDS Integers

CONSTANTS
    SliderHues, \* what the slider can be set to
    SeedHues    \* degrees the address of a device may stand for

ASSUME PaletteAssumption == SliderHues \subseteq 0..359 /\ SeedHues \subseteq 0..359

VARIABLES
    seedHue,    \* hueOf(address)
    colour,     \* the stored override, Automatic for none
    picker,     \* the open dialog: where the slider is, and what it was opened on
    choice,     \* the theme chosen, as the page has it
    stored,     \* and as the browser has it
    storable,   \* the browser lets the page store things
    dark,       \* the system prefers a dark theme
    painted     \* the data-theme of the page

paletteVars == <<seedHue, colour, picker, choice, stored, storable, dark, painted>>

Automatic == <<>>
ClosedPicker == [hue |-> <<0, 1>>, auto |-> TRUE, of |-> <<-1, -1, -1>>]
Degrees(h) == <<h, 1>>

Bands == [light |-> [sat |-> 40, light |-> 74], dark |-> [sat |-> 50, light |-> 28]]
PickerBand == Bands.light

Smaller(a, b) == IF a < b THEN a ELSE b
Larger(a, b)  == IF a < b THEN b ELSE a

---------------------------------------------------------------------------
(* Conversions.                                                            *)

\* One channel of hslToHex: k is in units of 30 degrees over the hue's denominator, and
\* the result is rounded to the nearest of 256 levels.
Channel(hue, band, n) ==
    LET unit  == 30 * hue[2]
        k     == (n * unit + hue[1]) % (12 * unit)
        blend == Larger(- unit, Smaller(k - 3 * unit, Smaller(9 * unit - k, unit)))
        depth == band.sat * Smaller(band.light, 100 - band.light)
        level == 51 * (100 * band.light * unit - depth * blend)
    IN  (2 * level + 2000 * unit) \div (4000 * unit)

HslToHex(hue, band) == <<Channel(hue, band, 0), Channel(hue, band, 8), Channel(hue, band, 4)>>

HueFromHex(rgb) ==
    LET r == rgb[1]
        g == rgb[2]
        b == rgb[3]
        top == Larger(r, Larger(g, b))
        d   == top - Smaller(r, Smaller(g, b))
    IN  IF d = 0 THEN Degrees(0)
        ELSE <<(60 * CASE top = r -> g - b
                       [] top # r /\ top = g -> b - r + 2 * d
                       [] OTHER -> r - g + 4 * d) % (360 * d), d>>

ReadableTextColor(rgb) ==
    IF 299 * rgb[1] + 587 * rgb[2] + 114 * rgb[3] > 150000 THEN "dark" ELSE "white"

HueOfNode == IF colour = Automatic THEN Degrees(seedHue) ELSE HueFromHex(colour)
NodeColor(theme) == HslToHex(HueOfNode, Bands[theme])

---------------------------------------------------------------------------
(* The theme.                                                              *)

Resolved == CASE choice = "system" /\ dark -> "dark"
              [] choice = "system" /\ ~ dark -> "light"
              [] OTHER -> choice

ReadStored == IF storable /\ stored # "none" THEN stored ELSE "system"

BootedBySystem == IF dark THEN "dark" ELSE "light"

\* THEME_BOOT_SCRIPT, before the page has run.
Booted == IF ~ storable \/ stored = "dark" \/ (stored \in {"none", "system"} /\ dark) THEN "dark" ELSE "light"

PaletteInit ==
    /\ seedHue \in SeedHues
    /\ colour = Automatic /\ picker = ClosedPicker
    /\ dark \in BOOLEAN /\ storable \in BOOLEAN
    /\ stored = "none" /\ choice = "system" /\ painted = Booted

\* The provider's layout effect, whenever what the theme resolves to has changed.
Paint == painted' = Resolved'

Mount ==
    /\ painted # Resolved
    /\ UNCHANGED <<seedHue, colour, picker, choice, stored, storable, dark>>
    /\ Paint

SetChoice(c) ==
    /\ c # choice
    /\ choice' = c
    /\ stored' = IF storable THEN c ELSE stored
    /\ UNCHANGED <<seedHue, colour, picker, storable, dark>>
    /\ Paint

SystemChanges ==
    /\ dark' = ~ dark
    /\ UNCHANGED <<seedHue, colour, picker, choice, stored, storable>>
    /\ Paint

Reload ==
    /\ choice' = ReadStored
    /\ picker' = ClosedPicker
    /\ painted' = Booted
    /\ UNCHANGED <<seedHue, colour, stored, storable, dark>>

---------------------------------------------------------------------------
(* The picker.                                                             *)

PickerOpen == picker # ClosedPicker

OpenPicker ==
    /\ ~ PickerOpen
    /\ picker' = [hue |-> HueOfNode, auto |-> colour = Automatic, of |-> colour]
    /\ UNCHANGED <<seedHue, colour, choice, stored, storable, dark, painted>>

DragSlider(h) ==
    /\ PickerOpen
    /\ picker' = [picker EXCEPT !.hue = Degrees(h), !.auto = FALSE]
    /\ UNCHANGED <<seedHue, colour, choice, stored, storable, dark, painted>>

BackToAutomatic ==
    /\ PickerOpen /\ ~ picker.auto
    /\ picker' = [picker EXCEPT !.hue = Degrees(seedHue), !.auto = TRUE]
    /\ UNCHANGED <<seedHue, colour, choice, stored, storable, dark, painted>>

Swatch == HslToHex(IF picker.auto THEN Degrees(seedHue) ELSE picker.hue, Bands[Resolved])

SaveSlider ==
    /\ PickerOpen
    /\ colour' = HslToHex(picker.hue, PickerBand)
    /\ picker' = ClosedPicker
    /\ UNCHANGED <<seedHue, choice, stored, storable, dark, painted>>

\* onSave and onClose, and the call that follows.
SaveColour ==
    /\ PickerOpen
    /\ colour' = IF picker.auto THEN Automatic ELSE HslToHex(picker.hue, PickerBand)
    /\ picker' = ClosedPicker
    /\ UNCHANGED <<seedHue, choice, stored, storable, dark, painted>>

CancelPicker ==
    /\ PickerOpen
    /\ picker' = ClosedPicker
    /\ UNCHANGED <<seedHue, colour, choice, stored, storable, dark, painted>>

\* Another browser picks a colour, too.
PickedElsewhere(h) ==
    /\ colour' = HslToHex(Degrees(h), PickerBand)
    /\ UNCHANGED <<seedHue, picker, choice, stored, storable, dark, painted>>

ThemeNext == Mount \/ SystemChanges \/ Reload \/ \E c \in {"system", "light", "dark"} : SetChoice(c)
DialogNext == OpenPicker \/ BackToAutomatic \/ SaveColour \/ CancelPicker
PickHue(h) == DragSlider(h) \/ PickedElsewhere(h)

PaletteNext == ThemeNext \/ DialogNext \/ \E h \in SliderHues : PickHue(h)

PaletteSpec == PaletteInit /\ [][PaletteNext]_paletteVars

---------------------------------------------------------------------------
(* Properties.                                                             *)

Untouched ==
    /\ picker.auto = (picker.of = Automatic)
    /\ picker.hue = IF picker.of = Automatic THEN Degrees(seedHue) ELSE HueFromHex(picker.of)

\* The picker writes what it was opened on unless the slider was moved ("so the stored
\* value stays stable no matter which theme picked it", color.ts:24-25), although the
\* hue it reads from 24 bits is not the hue that was picked; and the card that is saved
\* looks as the preview did, but for one level of a channel.
PickerShowsTheCard ==
    [][SaveColour =>
         /\ Untouched => colour' = picker.of
         /\ \A i \in 1..3 : NodeColor(Resolved)'[i] - Swatch[i] \in -1..1]_paletteVars

\* Every card of a light page carries dark text and every card of a dark page white
\* text, whatever hue was picked or drawn from an address ("so every card lands on dark
\* text", color.ts:12-13); and the page is in the theme its cards are drawn for, unless
\* the browser stores nothing and the page has not run yet.
CardsReadable ==
    /\ ReadableTextColor(NodeColor("light")) = "dark"
    /\ ReadableTextColor(NodeColor("dark")) = "white"
    /\ storable => painted = Resolved
=============================================================================
