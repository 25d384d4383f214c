--------------------------- MODULE KeyTranslation ---------------------------
(***************************************************************************)
(* How the three ways a key is named become a Key, and a Key a modifier:   *)
(* evdev codes (Wayland and DRM), X11 keysyms, which depend on Shift, and  *)
(* Windows virtual keys, which do not.  One key of each kind the tables    *)
(* treat alike stands for its kind.                                        *)
(***************************************************************************)

\* The keys on the keyboard.
PhysicalKeys == {"a", "1", "keypad enter", "left shift", "right shift", "other"}

KeyFromEvdevCode ==
    [k \in PhysicalKeys |->
        CASE k = "a" -> "A"
          [] k = "1" -> "Digit1"
          [] k = "keypad enter" -> "Enter"
          [] k \in {"left shift", "right shift"} -> "Shift"
          [] OTHER -> "Unknown"]

\* Both Enter keys are VK_RETURN: keyEventFromMessage() looks at the flag that
\* tells them apart and renames the keypad's.
VirtualKey(k) == IF k = "keypad enter" THEN "VK_RETURN" ELSE k
KeyFromVirtualKey(vk) ==
    CASE vk = "a" -> "A"
      [] vk = "1" -> "Digit1"
      [] vk = "VK_RETURN" -> "Return"
      [] vk \in {"left shift", "right shift"} -> "Shift"
      [] OTHER -> "Unknown"

\* What XLookupString makes of a key, and what that is called here: a letter
\* is the same key in both cases, while a digit with Shift has a keysym of
\* its own, which the table does not list.
KeySym(k, shifted) ==
    CASE k = "a" -> IF shifted THEN "XK_A" ELSE "XK_a"
      [] k = "1" -> IF shifted THEN "XK_exclam" ELSE "XK_1"
      [] k = "keypad enter" -> "XK_KP_Enter"
      [] k = "left shift" -> "XK_Shift_L"
      [] k = "right shift" -> "XK_Shift_R"
      [] OTHER -> "NoSymbol"

KeyFromKeySym(sym) ==
    CASE sym \in {"XK_a", "XK_A"} -> "A"
      [] sym = "XK_1" -> "Digit1"
      [] sym = "XK_KP_Enter" -> "Enter"
      [] sym \in {"XK_Shift_L", "XK_Shift_R"} -> "Shift"
      [] OTHER -> "Unknown"

ModifierForKey(key) == IF key = "Shift" THEN {"Shift"} ELSE {}
ModifiersOf(keys) == UNION {ModifierForKey(KeyFromEvdevCode[k]) : k \in keys}

\* Linux back ends: the modifiers after a key changed.
Accumulated(modifiers, key, pressed) ==
    IF pressed THEN modifiers \cup ModifierForKey(key)
    ELSE modifiers \ ModifierForKey(key)

\* History: the modifiers so lost although another key of theirs is down; key k has
\* changed and `keys' are down after it.
Lost(lost, k, pressed, keys) ==
    LET own == ModifierForKey(KeyFromEvdevCode[k])
    IN (lost \ own) \cup IF pressed THEN {} ELSE own \cap ModifiersOf(keys)
=============================================================================
