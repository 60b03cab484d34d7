---------------------------- MODULE CommandLine -----------------------------
(***************************************************************************)
(* The line editor of the command interpreter: gets_s of keyboard_utils.c, *)
(* called by CmdRun again and again.  An iteration of its loop, from the   *)
(* key that getch returned, is a step.  Buffer is a C string in an array:  *)
(* what is behind the terminator stays there.                              *)
(***************************************************************************)
EXTENDS Keyboard, SequencesExt

CONSTANTS
    Chars,                  \* what KeyboardKeyToAscii can yield for a key
    CHARS_PER_LINE,         \* also the size of CmdRun's buffer
    CMD_SHELL_SIZE,
    CMD_HISTORY_MAX_SIZE

NUL == "nul"
Space == "space"

maxBufferSize == CHARS_PER_LINE - CMD_SHELL_SIZE + 1

ASSUME LineAssumption ==
    /\ CMD_SHELL_SIZE \in Nat /\ CMD_SHELL_SIZE > 2
    /\ CHARS_PER_LINE \in Nat /\ maxBufferSize > 2
    /\ CMD_HISTORY_MAX_SIZE \in Nat \ {0}
    /\ NUL \notin Chars

VARIABLES
    Buffer,             \* 0 .. CHARS_PER_LINE - 1 -> Chars and NUL
    cursor,             \* i, the position in Buffer
    Column,             \* cursorPosition.Column
    cmdHistoryIndex,    \* None is MAX_DWORD
    m_CmdHistory,       \* slot -> string
    m_CmdHistoryFirstIndex,
    m_CmdHistorySize,
    editing,            \* gets_s is active
    text,               \* the line as a user understands it
    fits,               \* text has not been longer than a line since it was last set
    commands            \* the commands entered last

lineVars == <<Buffer, cursor, Column, cmdHistoryIndex, m_CmdHistory, m_CmdHistoryFirstIndex, m_CmdHistorySize,
              editing, text, fits, commands>>

NoIndex == CMD_HISTORY_MAX_SIZE
Slots == 0 .. CMD_HISTORY_MAX_SIZE - 1

\* cl_strlen_s: the first terminator below max, or max.
EndsAt(buffer, max, n) == /\ n \in 0 .. max /\ \A k \in 0 .. n - 1 : buffer[k] # NUL
                          /\ n = max \/ buffer[n] = NUL
strlen_s(buffer, max) == CHOOSE n \in 0 .. max : EndsAt(buffer, max, n)

StringIn(buffer) == [k \in 1 .. strlen_s(buffer, CHARS_PER_LINE) |-> buffer[k - 1]]

\* cl_strncpy: at most n characters, and the terminator behind them.
Prefix(s, n) == IF Len(s) < n THEN s ELSE SubSeq(s, 1, n)
strncpy(buffer, s, n) ==
    LET copied == Prefix(s, n)
    IN  [k \in DOMAIN buffer |-> IF k < Len(copied) THEN copied[k + 1]
                                 ELSE IF k = Len(copied) THEN NUL ELSE buffer[k]]

strtrim(s) ==
    LET solid == {k \in DOMAIN s : s[k] # Space}
    IN  IF solid = {} THEN <<>>
        ELSE SubSeq(s, CHOOSE k \in solid : \A j \in solid : k <= j, CHOOSE k \in solid : \A j \in solid : j <= k)

LastIndex == (m_CmdHistoryFirstIndex + m_CmdHistorySize - 1) % CMD_HISTORY_MAX_SIZE

\* The reference moves no array elements.
SetText(s, ok) == text' = s /\ fits' = ok

LineInit ==
    /\ Buffer = [k \in 0 .. CHARS_PER_LINE - 1 |-> NUL]
    /\ cursor = 0 /\ Column = CMD_SHELL_SIZE /\ cmdHistoryIndex = NoIndex
    /\ m_CmdHistory = [k \in Slots |-> <<>>]
    /\ m_CmdHistoryFirstIndex = 0 /\ m_CmdHistorySize = 0
    /\ editing = FALSE /\ text = <<>> /\ fits = TRUE /\ commands = <<>>

cmdVars == <<m_CmdHistory, m_CmdHistoryFirstIndex, m_CmdHistorySize, commands>>

gets_s ==
    /\ ~editing /\ editing' = TRUE
    /\ Buffer' = [k \in DOMAIN Buffer |-> NUL]
    /\ cursor' = 0 /\ Column' = CMD_SHELL_SIZE /\ cmdHistoryIndex' = NoIndex
    /\ SetText(<<>>, TRUE)
    /\ UNCHANGED cmdVars

----------------------------------------------------------------------------
\* KEY_RETURN: a line that is not empty is trimmed and becomes the last entry of the history.
KeyReturn ==
    /\ editing /\ editing' = FALSE
    /\ IF strlen_s(Buffer, maxBufferSize) = 0 THEN UNCHANGED <<Buffer, cmdVars>>
       ELSE LET full == m_CmdHistorySize = CMD_HISTORY_MAX_SIZE
                size == IF full THEN m_CmdHistorySize ELSE m_CmdHistorySize + 1
                first == IF full THEN (m_CmdHistoryFirstIndex + 1) % CMD_HISTORY_MAX_SIZE ELSE m_CmdHistoryFirstIndex
                line == strtrim(StringIn(Buffer))
                entry == Prefix(line, maxBufferSize - 1)
                all == Append(commands, entry)
            IN  /\ Buffer' = strncpy(Buffer, line, CHARS_PER_LINE)
                /\ m_CmdHistorySize' = size /\ m_CmdHistoryFirstIndex' = first
                /\ m_CmdHistory' = [m_CmdHistory EXCEPT ![(first + size - 1) % CMD_HISTORY_MAX_SIZE] = entry]
                /\ commands' = SubSeq(all, Len(all) - size + 1, Len(all))
    /\ UNCHANGED <<cursor, Column, cmdHistoryIndex, text, fits>>

\* KEY_BACKSPACE: the loop moves the characters from the cursor on to the left.
KeyBackspace ==
    /\ editing
    /\ IF cursor = 0 THEN UNCHANGED <<Buffer, cursor, Column, text, fits>>
       ELSE /\ Buffer' = [k \in DOMAIN Buffer |-> IF k \in cursor - 1 .. strlen_s(Buffer, maxBufferSize - 1) - 1
                                                  THEN Buffer[k + 1] ELSE Buffer[k]]
            /\ cursor' = cursor - 1 /\ Column' = Column - 1
            /\ SetText(IF fits THEN RemoveAt(text, cursor) ELSE text, fits)
    /\ UNCHANGED <<cmdHistoryIndex, editing, cmdVars>>

\* KEY_UP and KEY_DOWN show the entry before or behind the one that is shown.
ShowEntry(index) ==
    /\ cmdHistoryIndex' = index
    /\ Buffer' = strncpy(Buffer, m_CmdHistory[index], maxBufferSize - 1)
    /\ cursor' = strlen_s(Buffer', maxBufferSize)
    /\ Column' = CMD_SHELL_SIZE + cursor'
    /\ SetText(m_CmdHistory[index], TRUE)
    /\ UNCHANGED <<editing, cmdVars>>

KeyUp ==
    /\ editing /\ m_CmdHistorySize # 0
    /\ ShowEntry(IF cmdHistoryIndex = NoIndex THEN LastIndex
                 ELSE IF cmdHistoryIndex = m_CmdHistoryFirstIndex THEN cmdHistoryIndex
                 ELSE (cmdHistoryIndex + CMD_HISTORY_MAX_SIZE - 1) % CMD_HISTORY_MAX_SIZE)

KeyDown ==
    /\ editing /\ m_CmdHistorySize # 0 /\ cmdHistoryIndex # NoIndex
    /\ ShowEntry(IF cmdHistoryIndex = LastIndex THEN cmdHistoryIndex
                 ELSE (cmdHistoryIndex + 1) % CMD_HISTORY_MAX_SIZE)

MoveCursor(n) == /\ editing
                 /\ cursor' = n /\ Column' = CMD_SHELL_SIZE + n
                 /\ UNCHANGED <<Buffer, cmdHistoryIndex, editing, text, fits, cmdVars>>

KeyLeft == cursor # 0 /\ MoveCursor(cursor - 1)
KeyRight == cursor < maxBufferSize - 2 /\ Buffer[cursor] # NUL /\ MoveCursor(cursor + 1)
KeyHome == MoveCursor(0)
KeyEnd == MoveCursor(strlen_s(Buffer, maxBufferSize))

\* A character: the ones from the cursor on are moved to the right, the last one first.
\* The line is taken when the cursor reaches the end of it.
KeyAscii(c) ==
    LET len == strlen_s(Buffer, maxBufferSize - 1)
        shifted == [k \in DOMAIN Buffer |-> IF k \in cursor + 1 .. len + 1 THEN Buffer[k - 1] ELSE Buffer[k]]
    IN  /\ editing
        /\ Buffer' = [shifted EXCEPT ![cursor] = c]
        /\ cursor' = cursor + 1 /\ Column' = Column + 1
        /\ LET ok == fits /\ Len(text) < maxBufferSize - 1
           IN  SetText(IF ok THEN InsertAt(text, cursor + 1, c) ELSE text, ok)
        /\ editing' = (cursor + 1 < maxBufferSize - 1)
        /\ UNCHANGED <<cmdHistoryIndex, cmdVars>>

\* A key that yields no character: the line is taken too when the cursor is at its end.
KeyOther == /\ editing /\ editing' = (cursor < maxBufferSize - 1)
            /\ UNCHANGED <<Buffer, cursor, Column, cmdHistoryIndex, text, fits, cmdVars>>

LineNext == \/ gets_s \/ KeyReturn \/ KeyBackspace \/ KeyUp \/ KeyDown
            \/ KeyLeft \/ KeyRight \/ KeyHome \/ KeyEnd \/ KeyOther
            \/ \E c \in Chars : KeyAscii(c)

LineSpec == LineInit /\ [][LineNext]_lineVars

----------------------------------------------------------------------------
LineTypeOK ==
    /\ Buffer \in [0 .. CHARS_PER_LINE - 1 -> Chars \cup {NUL}]
    /\ cmdHistoryIndex \in Slots \cup {NoIndex}
    /\ m_CmdHistorySize \in 0 .. CMD_HISTORY_MAX_SIZE /\ m_CmdHistoryFirstIndex \in Slots
    /\ editing \in BOOLEAN /\ fits \in BOOLEAN

\* However keys are combined, the string keeps its terminator in CmdRun's buffer, and the cursor is
\* inside the string and on the screen where the next character goes.
StringIsTerminated ==
    /\ Buffer[CHARS_PER_LINE - 1] = NUL
    /\ editing => cursor <= Len(StringIn(Buffer)) /\ Column = CMD_SHELL_SIZE + cursor

\* While the line has room for it, the moving of characters does what a user
\* expects of insertion and deletion at the cursor.
LineIsText == editing /\ fits => StringIn(Buffer) = text

\* The ring of the history holds the last commands in the order they were entered, and
\* KEY_UP and KEY_DOWN stay among them.
HistoryIsExact ==
    /\ Len(commands) = m_CmdHistorySize
    /\ \A k \in 1 .. m_CmdHistorySize :
           m_CmdHistory[(m_CmdHistoryFirstIndex + k - 1) % CMD_HISTORY_MAX_SIZE] = commands[k]
    /\ editing /\ cmdHistoryIndex # NoIndex =>
           \E k \in 1 .. m_CmdHistorySize :
               cmdHistoryIndex = (m_CmdHistoryFirstIndex + k - 1) % CMD_HISTORY_MAX_SIZE

ConsoleInv == KeyboardInv /\ LineTypeOK /\ StringIsTerminated /\ LineIsText /\ HistoryIsExact

=============================================================================
