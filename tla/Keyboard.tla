------------------------------ MODULE Keyboard ------------------------------
(***************************************************************************)
(* The keyboard: _KeyboardIsr of keyboard.c and getch of keyboard_utils.c, *)
(* which the one thread that runs the command line calls.                  *)
(*                                                                         *)
(* The interrupt is delivered to any CPU, so a handler may start on one    *)
(* CPU while another is still working on the code before.  The handlers    *)
(* and the reader share m_keyboardData without a lock: what the reader can *)
(* see in between is a step.  KeyPressedEvt is a notification event;       *)
(* ExEvent models the list and the scheduling of its waiters.              *)
(***************************************************************************)
EXTENDS Naturals, Functions

CONSTANTS
    KbdCpus,
    Codes,              \* scan codes without KEY_BREAK
    ScancodeStd,        \* _kkybrd_scancode_std
    ScancodeExt,        \* _kkybrd_scancode_ext
    MaxCodes            \* bound on the codes the keyboard sends

KEY_UNKNOWN == "unknown"
PREFIX == "prefix"      \* 0xE0 and 0xE1

ASSUME KeyboardAssumption ==
    /\ PREFIX \notin Codes
    /\ DOMAIN ScancodeStd = Codes /\ DOMAIN ScancodeExt = Codes
    /\ MaxCodes \in Nat

\* A code as the controller holds it.  The number tells presses of one key apart, and
\* "means" is the key it is when the codes are read in order; the code knows neither.
Sent == [code : Codes \cup {PREFIX}, break : BOOLEAN, id : 1 .. MaxCodes,
         means : Range(ScancodeStd) \cup Range(ScancodeExt) \cup {KEY_UNKNOWN}]
Nothing == [code |-> PREFIX, break |-> FALSE, id |-> 0, means |-> KEY_UNKNOWN]

VARIABLES
    outputBuffer,       \* the code in the controller, or Nothing
    kbdIsr,                \* kbdIsr[c]: the point in _KeyboardIsr, with the local variables code and key
    extendedCode,       \* _extendedCode
    Keycode,            \* Keycode, with the press it came from
    Modifiers,          \* those of Shift, Alt, Ctrl that are TRUE
    Locks,              \* those of NumLock, ScrollLock, CapsLock that are TRUE
    Signaled,           \* KeyPressedEvt
    reader,             \* the point in getch; "blocked" is listed in KeyPressedEvt
    result,             \* getch's local variable
    lastCode,           \* the code sent last, its id the number of codes sent
    overlapped,         \* two handlers were active at a time
    returned            \* the presses getch has returned

kbdVars == <<outputBuffer, kbdIsr, extendedCode, Keycode, Modifiers, Locks, Signaled, reader, result,
             lastCode, overlapped, returned>>

NoHandler == [at |-> "idle", sent |-> Nothing, key |-> KEY_UNKNOWN]
NoKey == [key |-> KEY_UNKNOWN, press |-> Nothing]

ModifierOf == [lctrl |-> "Ctrl", rctrl |-> "Ctrl", lshift |-> "Shift", rshift |-> "Shift",
               lalt |-> "Alt", ralt |-> "Alt"]
LockOf == [capslock |-> "CapsLock", numlock |-> "NumLock", scrolllock |-> "ScrollLock"]
Affected(table, key) == {table[k] : k \in DOMAIN table \cap {key}}

KeyboardInitialize ==
    /\ outputBuffer = Nothing
    /\ kbdIsr = [c \in KbdCpus |-> NoHandler]
    /\ extendedCode = FALSE /\ Keycode = NoKey
    /\ Modifiers = {} /\ Locks = {} /\ Signaled = FALSE
    /\ reader = "idle" /\ result = NoKey
    /\ lastCode = Nothing /\ overlapped = FALSE /\ returned = {}

----------------------------------------------------------------------------
\* The keyboard sends the next code when the buffer was read; a prefix is followed by a code.
SendCode(code, break) ==
    LET id == lastCode.id + 1
        table == IF lastCode.code = PREFIX /\ lastCode.id > 0 THEN ScancodeExt ELSE ScancodeStd
        sent == [code |-> code, break |-> break, id |-> id,
                 means |-> IF code = PREFIX THEN KEY_UNKNOWN ELSE table[code]]
    IN  /\ outputBuffer = Nothing /\ id <= MaxCodes
        /\ code = PREFIX => ~break /\ id < MaxCodes /\ (lastCode.code # PREFIX \/ lastCode.id = 0)
        /\ outputBuffer' = sent /\ lastCode' = sent
        /\ UNCHANGED <<kbdIsr, extendedCode, Keycode, Modifiers, Locks, Signaled, reader, result, overlapped, returned>>

\* The interrupt: _KeyboardIsr reads the buffer.
IsrReadBuffer(c) ==
    /\ kbdIsr[c] = NoHandler /\ outputBuffer # Nothing
    /\ kbdIsr' = [kbdIsr EXCEPT ![c] = [NoHandler EXCEPT !.at = "decode", !.sent = outputBuffer]]
    /\ outputBuffer' = Nothing
    /\ overlapped' = (overlapped \/ \E d \in KbdCpus : kbdIsr[d] # NoHandler)
    /\ UNCHANGED <<extendedCode, Keycode, Modifiers, Locks, Signaled, reader, result, lastCode, returned>>

\* A prefix is remembered; another code is looked up in the table it asks for.
IsrDecode(c) ==
    LET sent == kbdIsr[c].sent
    IN  /\ kbdIsr[c].at = "decode"
        /\ IF sent.code = PREFIX
              THEN extendedCode' = TRUE /\ kbdIsr' = [kbdIsr EXCEPT ![c] = NoHandler]
              ELSE /\ kbdIsr' = [kbdIsr EXCEPT ![c].at = "store",
                                         ![c].key = IF extendedCode THEN ScancodeExt[sent.code]
                                                                    ELSE ScancodeStd[sent.code]]
                   /\ UNCHANGED extendedCode
        /\ UNCHANGED <<outputBuffer, Keycode, Modifiers, Locks, Signaled, reader, result, lastCode,
                       overlapped, returned>>

\* Mutant: the prefix stays in force.
StoreKeepsPrefix(c) ==
    LET key == kbdIsr[c].key
    IN  /\ kbdIsr[c].at = "store"
        /\ Keycode' = IF kbdIsr[c].sent.break THEN Keycode ELSE [key |-> key, press |-> kbdIsr[c].sent]
        /\ kbdIsr' = [kbdIsr EXCEPT ![c].at = "signal"]
        /\ UNCHANGED <<outputBuffer, extendedCode, Modifiers, Locks, Signaled, reader, result, lastCode,
                       overlapped, returned>>

\* A key that is pressed becomes the Keycode; the modifiers follow both kinds of codes.
IsrStore(c) ==
    LET key == kbdIsr[c].key
        break == kbdIsr[c].sent.break
        toggled == Affected(LockOf, key)
    IN  /\ kbdIsr[c].at = "store"
        /\ Keycode' = IF break THEN Keycode ELSE [key |-> key, press |-> kbdIsr[c].sent]
        /\ Modifiers' = IF break THEN Modifiers \ Affected(ModifierOf, key)
                                 ELSE Modifiers \cup Affected(ModifierOf, key)
        /\ Locks' = IF break THEN Locks ELSE (Locks \ toggled) \cup (toggled \ Locks)
        /\ extendedCode' = FALSE
        /\ kbdIsr' = [kbdIsr EXCEPT ![c].at = "signal"]
        /\ UNCHANGED <<outputBuffer, Signaled, reader, result, lastCode, overlapped, returned>>

\* ExEventSignal, for a break code too.
IsrSignalKey(c) ==
    /\ kbdIsr[c].at = "signal"
    /\ Signaled' = TRUE
    /\ reader' = IF reader = "blocked" THEN "read" ELSE reader
    /\ kbdIsr' = [kbdIsr EXCEPT ![c] = NoHandler]
    /\ UNCHANGED <<outputBuffer, extendedCode, Keycode, Modifiers, Locks, result, lastCode,
                   overlapped, returned>>

----------------------------------------------------------------------------
handlerVars == <<outputBuffer, kbdIsr, extendedCode, Modifiers, Locks, lastCode, overlapped>>

Getch == /\ reader = "idle" /\ reader' = "test"
         /\ UNCHANGED <<handlerVars, Keycode, Signaled, result, returned>>

\* KeyboardWaitForKey: the test of Signaled is outside the lock of the event.
WaitKeyTest == /\ reader = "test"
               /\ reader' = IF Signaled THEN "read" ELSE "insert"
               /\ UNCHANGED <<handlerVars, Keycode, Signaled, result, returned>>

WaitKeyInsert == /\ reader = "insert" /\ reader' = "blocked"
                 /\ UNCHANGED <<handlerVars, Keycode, Signaled, result, returned>>

ReadKeycode == /\ reader = "read" /\ reader' = "clear"
               /\ result' = Keycode
               /\ UNCHANGED <<handlerVars, Keycode, Signaled, returned>>

\* The end of the loop of getch.
LoopEnd == /\ reader' = IF result.key = KEY_UNKNOWN THEN "test" ELSE "idle"
           /\ returned' = IF result.key = KEY_UNKNOWN THEN returned ELSE returned \cup {result.press.id}

\* KeyboardDiscardLastKey is two steps: ExEventClearSignal, then the Keycode.
\* Mutant: the Keycode is forgotten before the signal is cleared.
ForgetThenClear ==
    \/ /\ reader = "clear" /\ reader' = "forget"
       /\ Keycode' = NoKey
       /\ UNCHANGED <<handlerVars, Signaled, result, returned>>
    \/ /\ reader = "forget"
       /\ Signaled' = FALSE
       /\ LoopEnd
       /\ UNCHANGED <<handlerVars, Keycode, result>>

KeyboardDiscardLastKey ==
    \/ /\ reader = "clear" /\ reader' = "forget"
       /\ Signaled' = FALSE
       /\ UNCHANGED <<handlerVars, Keycode, result, returned>>
    \/ /\ reader = "forget"
       /\ Keycode' = NoKey
       /\ LoopEnd
       /\ UNCHANGED <<handlerVars, Signaled, result>>

KbdIsrStep(c) == IsrReadBuffer(c) \/ IsrDecode(c) \/ IsrStore(c) \/ IsrSignalKey(c)
ReaderStep == Getch \/ WaitKeyTest \/ WaitKeyInsert \/ ReadKeycode \/ KeyboardDiscardLastKey

KbdNext == \/ \E code \in Codes \cup {PREFIX}, break \in BOOLEAN : SendCode(code, break)
           \/ \E c \in KbdCpus : KbdIsrStep(c)
           \/ ReaderStep

\* The scheduler runs the thread of the command line, and a handler runs to its end.
KbdFairness == WF_kbdVars(ReaderStep) /\ \A c \in KbdCpus : WF_kbdVars(KbdIsrStep(c))

KbdSpec == KeyboardInitialize /\ [][KbdNext]_kbdVars /\ KbdFairness

----------------------------------------------------------------------------
KeyboardTypeOK ==
    /\ outputBuffer \in Sent \cup {Nothing}
    /\ \A c \in KbdCpus : /\ kbdIsr[c].at \in {"idle", "decode", "store", "signal"}
                          /\ kbdIsr[c].sent \in Sent \cup {Nothing}
    /\ extendedCode \in BOOLEAN /\ Signaled \in BOOLEAN
    /\ Modifiers \subseteq {"Shift", "Alt", "Ctrl"} /\ Locks \subseteq {"NumLock", "ScrollLock", "CapsLock"}
    /\ reader \in {"idle", "test", "insert", "blocked", "read", "clear", "forget"}

Holding == reader \in {"clear", "forget"} /\ result.key # KEY_UNKNOWN

\* getch returns a press once, although the signal outlives the key it stands for and a
\* handler may set both at any moment of KeyboardDiscardLastKey.
OncePerPress == Holding => result.press.id \notin returned

\* Keys come back in the order they were pressed, and a code behind a prefix is the key of
\* the second table, unless two CPUs were in _KeyboardIsr at once.
KeysInOrder ==
    ~overlapped /\ Holding =>
        /\ result.key = result.press.means
        /\ \A p \in returned : p < result.press.id

KeyboardInv == KeyboardTypeOK /\ OncePerPress /\ KeysInOrder

\* The reader went to sleep on an event that is signalled: the signal came between the
\* test of ExEventWaitForSignal and the insertion in the waiting list.
Overslept == reader = "blocked" /\ Signaled

\* No key stays in Keycode for good: it is read, overwritten or discarded, unless the
\* reader overslept its signal.
KeyIsTaken == (Keycode.key # KEY_UNKNOWN) ~> (Keycode.key = KEY_UNKNOWN \/ Overslept)

=============================================================================
