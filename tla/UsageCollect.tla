------------------------------ MODULE UsageCollect ------------------------------
(***************************************************************************)
(* Collection of provider usage (runtime/src/usage/collect.ts, claude.ts,  *)
(* codex.ts, opencode.ts, consent.ts, and the tables of runtime/src/       *)
(* usage.ts they write): a source file is read from a stored cursor on,    *)
(* what is found is recorded row by row, and enabling or disabling the     *)
(* integration changes the settings and clears the rows.                   *)
(*                                                                         *)
(* One source of one provider.  A JSONL source is a sequence of cells: the *)
(* text of line e is Width(e) cells e, and Newline ends it; an OpenCode    *)
(* source is the sequence of its message rows.  Lines and rows may share   *)
(* a time, a Codex line may lack one (0), and an OpenCode table may have   *)
(* no column for it.  Collections come from the limits command and the web *)
(* dashboard, so several processes work on the database side by side; each *)
(* statement commits alone, and a process may be killed between two.       *)
(* The time a file was changed need not move between two changes.          *)
(***************************************************************************)
EXTENDS Integers, Sequences, FiniteSets, SequencesExt

CONSTANTS
  Shape,             \* for every provider, what the lines (or rows) of its source are
  Time,              \* and when they were written
  Slots,             \* process slots: how many commands work side by side
  MaxCommands,       \* commands ever given (a bound of the model)
  MaxTime,           \* the last time the source is changed (a bound of the model)
  MaxCollectFaults   \* kills, cut and failed collections, rewrites of the source (a bound)

Providers == {"claude", "codex", "opencode"}
Shapes == {"named", "bare", "total", "limit"}

ASSUME CollectAssumption ==
  /\ \A p \in Providers : Shape[p] \in Seq(Shapes) /\ Time[p] \in [DOMAIN Shape[p] -> Nat]
  /\ \A p \in Providers \ {"codex"} : \A e \in DOMAIN Shape[p] : Time[p][e] > 0
  /\ \A d, e \in DOMAIN Shape["opencode"] : d <= e => Time["opencode"][d] <= Time["opencode"][e]
  /\ MaxCommands \in Nat /\ MaxTime \in Nat /\ MaxCollectFaults \in Nat

Newline == 0
Width(e) == 1 + (e % 2)
Text(e) == [i \in 1..Width(e) |-> e]

VARIABLES
  provider,      \* the provider looked at
  timed,         \* whether the messages of its database have a time column
  file,          \* its source file
  mtime,         \* when the file was changed last
  written,       \* lines begun so far
  cursor,        \* source_cursors: what was seen of the file
  total,         \* codex_totals: the last cumulative total
  external,      \* external_usage: the rows, in the order of their ids
  limits,        \* limits: who observed the limit of the provider's window
  settings,      \* settings: the switch and the consent of the integration
  command,       \* the running commands
  forgotten,     \* tokens of rows deleted by a disable
  overlap,       \* whether two commands ever ran side by side
  commandsGiven, \* commands so far
  collectFaults  \* faults so far

source == <<provider, timed, file, mtime, written>>
tables == <<cursor, total, external, limits, settings>>
history == <<forgotten, overlap, commandsGiven>>
collectVars == <<source, tables, command, history, collectFaults>>

Events == DOMAIN Shape[provider]
TimeOf(e) == Time[provider][e]
NoCursor == [size |-> -1, mtime |-> -1, offset |-> 0]
NoCommand == [pc |-> "idle", size |-> 0, mtime |-> 0, cursor |-> NoCursor, obs |-> << >>, limit |-> "no"]

CollectInit ==
  /\ provider \in Providers
  /\ timed \in IF provider = "opencode" THEN {"yes", "no"} ELSE {"yes"}
  /\ file = << >> /\ mtime = 0 /\ written = 0
  /\ cursor = NoCursor /\ total = 0
  /\ external = << >> /\ limits = "none"
  /\ settings \in {[enabled |-> "unset", credentials |-> "off"], [enabled |-> "on", credentials |-> "on"]}
  /\ command = [c \in Slots |-> NoCommand]
  /\ forgotten = 0 /\ overlap = "no" /\ commandsGiven = 0 /\ collectFaults = 0

Given == commandsGiven < MaxCommands /\ commandsGiven' = commandsGiven + 1
CollectFault == collectFaults < MaxCollectFaults /\ collectFaults' = collectFaults + 1

--------------------------------------------------------------------------------
(***************************************************************************)
(* The provider writes its source                                          *)
(***************************************************************************)

Writes(f) == file' = f /\ mtime' \in mtime..MaxTime

OpenLine == provider # "opencode" /\ file # << >> /\ Last(file) # Newline

\* A line, or a row; of a long line perhaps only the beginning yet.
Append1(n) ==
  /\ ~ OpenLine /\ written < Len(Shape[provider])
  /\ n \in 1..Width(written + 1)
  /\ written' = written + 1
  /\ IF provider = "opencode" THEN n = 1 /\ Writes(Append(file, written + 1))
     ELSE Writes(file \o SubSeq(Text(written + 1), 1, n)
                      \o (IF n = Width(written + 1) THEN <<Newline>> ELSE << >>))
  /\ UNCHANGED <<provider, timed, tables, command, history, collectFaults>>

\* The rest of a line begun.
FinishLine ==
  /\ OpenLine
  /\ Writes(Append(Append(file, Last(file)), Newline))
  /\ UNCHANGED <<provider, timed, written, tables, command, history, collectFaults>>

\* The source is replaced by one without its first line, or emptied.
Rewrite ==
  /\ CollectFault
  /\ file # << >> /\ ~ OpenLine
  /\ \E n \in {Len(file), IF provider = "opencode" THEN 1 ELSE Width(file[1]) + 1} :
       Writes(SubSeq(file, n + 1, Len(file)))
  /\ UNCHANGED <<provider, timed, written, tables, command, history>>

--------------------------------------------------------------------------------
(***************************************************************************)
(* parseSessionFile and parseDb, as functions of what was read             *)
(***************************************************************************)

\* Mutant: the end of the file, with the line that is still being written.
EndOfFile(raw) == Len(raw)

\* completeEnd: the end of the last complete line.
CompleteEnd(raw) == Max({0} \cup {i \in DOMAIN raw : raw[i] = Newline})

\* Where reading begins: the cursor's offset, while the file is long enough, and either its
\* time has not moved or a line ends there.
Offset(cur, size, mt, raw) ==
  LET boundary == cur.offset = 0 \/ (cur.offset <= Len(raw) /\ raw[cur.offset] = Newline)
      kept == IF cur # NoCursor /\ cur.offset <= size /\ (mt = cur.mtime \/ boundary) THEN cur.offset ELSE 0
  IN IF CompleteEnd(raw) < kept THEN 0 ELSE kept

\* The lines between two offsets: the number of the event, 0 for a line that is not JSON.
Parsed(raw, from, to) ==
  LET ends == {i \in (from + 1)..to : raw[i] = Newline}
      end(k) == CHOOSE i \in ends : Cardinality({j \in ends : j <= i}) = k
      begin(k) == IF k = 1 THEN from + 1 ELSE end(k - 1) + 1
      text(k) == SubSeq(raw, begin(k), end(k) - 1)
      event(t) == IF t # << >> /\ t = Text(t[1]) THEN t[1] ELSE 0
  IN [k \in 1..Cardinality(ends) |-> event(text(k))]

\* eventToObservation of Claude, recordToObservation of Codex: the id of the event is its key,
\* or its time and the number of the line counted from the offset; two lines may share that.
Keyed(e, lineNo) ==
  [key |-> IF Shape[provider][e] = "named" THEN <<"id", e, 0>> ELSE <<"line", TimeOf(e), lineNo>>,
   event |-> e, tokens |-> 1]

\* totalsToObservation: what a cumulative total adds to the last one.
Cumulative(e, last) == [key |-> <<"cum", e, 0>>, event |-> e, tokens |-> e - last]

\* hasExternal, and the unique key of external_usage.
hasExternal(key) == \E i \in DOMAIN external : external[i].key = key

\* One line of a JSONL source: acc is what the lines before it gave.
ReadLine(acc, e, lineNo) ==
  LET shape == IF e = 0 THEN "none" ELSE Shape[provider][e]
      add(o) == IF hasExternal(o.key) THEN acc.obs ELSE Append(acc.obs, o)
  IN CASE shape \in {"named", "bare"} -> [acc EXCEPT !.obs = add(Keyed(e, lineNo))]
       [] shape = "total" /\ provider = "codex" /\ e > acc.total ->
            [acc EXCEPT !.obs = add(Cumulative(e, acc.total)), !.total = e]
       [] shape = "limit" /\ provider = "codex" -> [acc EXCEPT !.limit = "yes"]
       [] OTHER -> acc

\* What the first n lines give.
Read(lines, n) ==
  LET read[k \in 0..n] ==
        IF k = 0 THEN [obs |-> << >>, total |-> total, limit |-> "no"]
        ELSE ReadLine(read[k - 1], lines[k], k)
  IN read[n]

\* The complete lines of the source from the offset on, for a command that looked at it.
Lines(p) == Parsed(file, Offset(p.cursor, p.size, p.mtime, file), CompleteEnd(file))

--------------------------------------------------------------------------------
(***************************************************************************)
(* collectProvidersSync                                                    *)
(***************************************************************************)

Active == {c \in Slots : command[c] # NoCommand}
Becomes(c, p) == command' = [command EXCEPT ![c] = p]

\* A command of several steps begins.
Begins(c, pc) ==
  /\ command[c] = NoCommand /\ Given
  /\ Becomes(c, [NoCommand EXCEPT !.pc = pc])
  /\ overlap' = IF Active = {} THEN overlap ELSE "yes"

enabled == settings.enabled # "off"
consent == settings.credentials = "on"

CollectBegin(c) ==
  /\ enabled /\ consent
  /\ Begins(c, "stat")
  /\ UNCHANGED <<source, tables, forgotten, collectFaults>>

\* collectLocalLimits: Claude's limits lie in its own config file; the consent is read again.
LocalLimit(found) == IF provider = "claude" /\ consent THEN "yes" ELSE found

\* The adapter finds the integration disabled by now, or the time is up before its walk over
\* the provider's directory comes to the source.
Unread(c) ==
  /\ command[c].pc = "stat"
  /\ \/ ~ enabled /\ Becomes(c, [NoCommand EXCEPT !.pc = "record"]) /\ UNCHANGED collectFaults
     \/ enabled /\ CollectFault /\ Becomes(c, [NoCommand EXCEPT !.pc = "record", !.limit = LocalLimit("no")])
  /\ UNCHANGED <<source, tables, history>>

\* A file with the size and the time of the cursor is not read.
CollectStat(c) ==
  /\ command[c].pc = "stat" /\ enabled
  /\ IF cursor.size = Len(file) /\ cursor.mtime = mtime
     THEN Becomes(c, [NoCommand EXCEPT !.pc = "record", !.limit = LocalLimit("no")])
     ELSE Becomes(c, [NoCommand EXCEPT !.pc = "parse", !.size = Len(file), !.mtime = mtime,
                                       !.cursor = cursor])
  /\ UNCHANGED <<source, tables, history, collectFaults>>

setCodexTotal(t) == total' = t

setSourceCursor(p, offset) == cursor' = [size |-> p.size, mtime |-> p.mtime, offset |-> offset]

\* The file is read and its lines parsed, n of them before the time is up; the cursor moves to
\* the end of the last complete line, wherever the parsing stopped.
ParseSessionFile(c, n) ==
  /\ command[c].pc = "parse"
  /\ LET lines == Lines(command[c])
         found == Read(lines, n) IN
     /\ n <= Len(lines)
     /\ IF n < Len(lines) THEN CollectFault ELSE UNCHANGED collectFaults
     /\ setCodexTotal(found.total)
     /\ setSourceCursor(command[c], CompleteEnd(file))
     /\ Becomes(c, [NoCommand EXCEPT !.pc = "record", !.obs = found.obs, !.limit = LocalLimit(found.limit)])
  /\ UNCHANGED <<source, external, limits, settings, history>>

\* The rows later than an offset, none of those that share its time; they lie in the order of
\* their times.
RowsAfter(offset) ==
  LET seen == Cardinality({i \in DOMAIN file : TimeOf(file[i]) <= offset})
  IN SubSeq(file, seen + 1, Len(file))

\* What a command reads: the rows later than the cursor, or all without a time column.
RowsFor(p) == IF timed = "yes" THEN RowsAfter(p.cursor.offset) ELSE file

\* One row: without tokens it is skipped.
ReadRow(acc, e) ==
  IF Shape[provider][e] = "named" THEN [obs |-> Append(acc.obs, Keyed(e, 0)), offset |-> TimeOf(e)] ELSE acc

\* What the first n rows give, and the time of the last one that has tokens.
ReadRows(rows, n, offset) ==
  LET read[k \in 0..n] ==
        IF k = 0 THEN [obs |-> << >>, offset |-> offset] ELSE ReadRow(read[k - 1], rows[k])
  IN read[n]

\* The cursor moves to the last row that has tokens, or to the size of the file.
ParseDb(c, n) ==
  /\ command[c].pc = "parse"
  /\ LET rows == RowsFor(command[c])
         found == ReadRows(rows, n, command[c].cursor.offset) IN
     /\ n <= Len(rows)
     /\ IF n < Len(rows) THEN CollectFault ELSE UNCHANGED collectFaults
     /\ setSourceCursor(command[c], IF timed = "yes" THEN found.offset ELSE command[c].size)
     /\ Becomes(c, [NoCommand EXCEPT !.pc = "record", !.obs = found.obs])
  /\ UNCHANGED <<source, total, external, limits, settings, history>>

\* An error inside an adapter: what it has read is dropped, the Codex totals of the first n
\* lines are stored, and neither the cursor nor the limits are.
AdapterError(c, n) ==
  /\ command[c].pc = "parse" /\ CollectFault
  /\ IF provider = "codex"
     THEN n <= Len(Lines(command[c])) /\ setCodexTotal(Read(Lines(command[c]), n).total)
     ELSE n = 0 /\ UNCHANGED total
  /\ Becomes(c, [NoCommand EXCEPT !.pc = "record"])
  /\ UNCHANGED <<source, cursor, external, limits, settings, history>>

\* The adapters; n is how far they come before the time is up.
collectClaude(c, n) ==
  /\ provider = "claude"
  /\ Unread(c) \/ CollectStat(c) \/ ParseSessionFile(c, n) \/ AdapterError(c, n)

collectCodex(c, n) ==
  /\ provider = "codex"
  /\ Unread(c) \/ CollectStat(c) \/ ParseSessionFile(c, n) \/ AdapterError(c, n)

collectOpencode(c, n) ==
  /\ provider = "opencode"
  /\ Unread(c) \/ CollectStat(c) \/ ParseDb(c, n) \/ AdapterError(c, n)

\* INSERT OR IGNORE.
recordExternal(o) == external' = IF hasExternal(o.key) THEN external ELSE Append(external, o)

CollectRecord(c) ==
  /\ command[c].pc = "record" /\ command[c].obs # << >>
  /\ recordExternal(Head(command[c].obs))
  /\ command' = [command EXCEPT ![c].obs = Tail(@)]
  /\ UNCHANGED <<source, cursor, total, limits, settings, history, collectFaults>>

\* upsertLimit: one row for the window, the last observation wins.
upsertLimit(by) == limits' = by

CollectLimits(c) ==
  /\ command[c].pc = "record" /\ command[c].obs = << >>
  /\ IF command[c].limit = "yes" THEN upsertLimit("local") ELSE UNCHANGED limits
  /\ Becomes(c, NoCommand)
  /\ UNCHANGED <<source, cursor, total, external, settings, history, collectFaults>>

(***************************************************************************)
(* integrations enable and disable, limits set                             *)
(***************************************************************************)

Enabled(credentials) ==
  [enabled |-> "on", credentials |-> IF credentials = "keep" THEN settings.credentials ELSE credentials]

\* enable with --credentials or only --live; the settings of one request are written together.
Enable(credentials) ==
  /\ Given
  /\ settings' = Enabled(credentials)
  /\ UNCHANGED <<source, cursor, total, external, limits, command, forgotten, overlap, collectFaults>>

\* The web API's request to enable: it may withdraw the consent too, and collect at once.
POST(c, credentials, collect) ==
  /\ settings' = Enabled(credentials)
  /\ IF collect = "yes" /\ Enabled(credentials).credentials = "on" THEN Begins(c, "stat")
     ELSE Given /\ UNCHANGED <<command, overlap>>
  /\ UNCHANGED <<source, cursor, total, external, limits, forgotten, collectFaults>>

\* revokeProvider: the consent goes, then the rows, then the limits.
Disable(c) ==
  /\ settings' = [settings EXCEPT !.credentials = "off"]
  /\ Begins(c, "clear")
  /\ UNCHANGED <<source, cursor, total, external, limits, forgotten, collectFaults>>

\* What a sequence of rows adds up to.
Tokens(rows) ==
  LET sum[n \in 0..Len(rows)] == IF n = 0 THEN 0 ELSE sum[n - 1] + rows[n].tokens
  IN sum[Len(rows)]

\* Mutant: only the limits are deleted.
ClearLimitsOnly(c) ==
  /\ command[c].pc = "clear"
  /\ limits' = "none"
  /\ Becomes(c, [NoCommand EXCEPT !.pc = "off"])
  /\ UNCHANGED <<source, cursor, total, external, settings, history, collectFaults>>

\* clearProviderUsage; the cursor and the Codex total stay.
ClearProviderUsage(c) ==
  /\ command[c].pc = "clear"
  /\ external' = << >> /\ forgotten' = forgotten + Tokens(external)
  /\ limits' = "none"
  /\ Becomes(c, [NoCommand EXCEPT !.pc = "off"])
  /\ UNCHANGED <<source, cursor, total, settings, overlap, commandsGiven, collectFaults>>

DisableSetting(c) ==
  /\ command[c].pc = "off"
  /\ settings' = [settings EXCEPT !.enabled = "off"]
  /\ Becomes(c, NoCommand)
  /\ UNCHANGED <<source, cursor, total, external, limits, history, collectFaults>>

\* setManualLimit, of the window that is collected too.
SetManualLimit ==
  /\ Given
  /\ upsertLimit("manual")
  /\ UNCHANGED <<source, cursor, total, external, settings, command, forgotten, overlap, collectFaults>>

\* The web API's request to set a limit.
PUT == SetManualLimit

CommandKilled(c) ==
  /\ command[c] # NoCommand /\ CollectFault
  /\ Becomes(c, NoCommand)
  /\ UNCHANGED <<source, tables, history>>

CommandStep(c) ==
  \/ CollectBegin(c) \/ CollectRecord(c) \/ CollectLimits(c)
  \/ \E n \in 0..Len(file) : collectClaude(c, n) \/ collectCodex(c, n) \/ collectOpencode(c, n)
  \/ Disable(c) \/ ClearProviderUsage(c) \/ DisableSetting(c)

CollectNext ==
  \/ \E n \in 1..2 : Append1(n)
  \/ FinishLine \/ Rewrite
  \/ \E c \in Slots : CommandStep(c) \/ CommandKilled(c)
  \/ \E credentials \in {"keep", "on"} : Enable(credentials)
  \/ \E c \in Slots, credentials \in {"keep", "on", "off"}, collect \in {"no", "yes"} :
       POST(c, credentials, collect)
  \/ SetManualLimit \/ PUT

CollectSpec == CollectInit /\ [][CollectNext]_collectVars

--------------------------------------------------------------------------------

\* A source of which only what is new is read.
Incremental == provider # "opencode" \/ timed = "yes"

\* The events before the cursor, and their tokens.
Passed ==
  {e \in Events : IF provider = "opencode" THEN TimeOf(e) <= cursor.offset /\ \E i \in DOMAIN file : file[i] = e
                  ELSE \E i \in 1..cursor.offset : file[i] = e}
Expected ==
  LET of(shape) == {e \in Passed : Shape[provider][e] = shape}
  IN Cardinality(of("named"))
     + (IF provider = "opencode" THEN 0 ELSE Cardinality(of("bare")))
     + (IF provider = "codex" THEN Max({0} \cup of("total")) ELSE 0)

\* No two of the lines without an id, or of the rows, share a time.
TimesApart ==
  LET told == {e \in 1..written : provider = "opencode" \/ Shape[provider][e] = "bare"}
  IN \A d, e \in told : TimeOf(d) = TimeOf(e) => d = e

\* Commands that do not overlap, run to their end, over a source that only grows, record no
\* event twice and never more than lies before the cursor; they count exactly that, unless
\* two lines without an id, or two rows, share a time: nothing is lost where a line was half
\* written or the source grew while it was read, and Codex totals add up.  Without a time
\* column, every row of the file that was looked at is recorded, until the first disable.
Orderly == collectFaults = 0 /\ overlap = "no" /\ Active = {}
CountsExactly ==
  Orderly =>
    /\ \A i, j \in DOMAIN external : external[i].event = external[j].event => i = j
    /\ Incremental =>
         /\ Tokens(external) + forgotten <= Expected
         /\ TimesApart => Tokens(external) + forgotten = Expected
    /\ ~ Incremental /\ forgotten = 0 =>
         \A e \in 1..cursor.offset :
           Shape[provider][file[e]] = "named" => \E i \in DOMAIN external : external[i].event = file[e]

\* A disabled integration keeps nothing it collected, whatever becomes of its source and
\* whichever command is killed, as long as no command overlaps another.
DisableForgets ==
  overlap = "no" /\ settings.enabled = "off" => external = << >> /\ limits # "local"

================================================================================
