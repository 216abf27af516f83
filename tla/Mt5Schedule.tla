---------------------------- MODULE Mt5Schedule ----------------------------
(***************************************************************************)
(* The local trading calendar of an MT5 symbol (market/mt5_schedule.py)    *)
(* and the pause of the outbox that rests on it.  Time is counted in half  *)
(* minutes, the finest step of the templates, from a Monday at midnight;   *)
(* the moments visited are the edges of every window and their neighbours, *)
(* between which no answer changes.                                        *)
(***************************************************************************)
EXTENDS Integers, FiniteSets

CONSTANTS
  Templates,   \* template names an operator or infer_template selects
  Own          \* the windows an operator typed in for manual_custom

Minute == 2
Day == 24 * 60 * Minute
Week == 7 * Day
Days == 0 .. 6           \* Monday is 0, as datetime.weekday() says
Never == -1              \* seconds_to_open is None

(* A time of day, as _parse_time reads it; 24:00 is the next midnight. *)
At(hour, minute) == (hour * 60 + minute) * Minute
Window(days, start, end) == [days |-> days, start |-> start, end |-> end]
MonThu == 0 .. 3
MonFri == 0 .. 4
Fri == {4}
Sun == {6}
Nothing == [regular |-> {}, closeOnly |-> {}, quoteOnly |-> {}]

(* How long a window lasts; an end that is not after its start belongs to  *)
(* the next day.                                                           *)
Length(item) == IF item.end <= item.start THEN item.end + Day - item.start ELSE item.end - item.start

(* What can be typed in: days, all of them when none is named, and times   *)
(* of day up to 24:00 (from 24:00 to 00:00 there is nothing).              *)
Windows == {item \in [days : (SUBSET Days) \ {{}}, start : 0 .. Day, end : 0 .. Day] : Length(item) > 0}
ScheduleAssumption ==
  Own \in [regular : SUBSET Windows, closeOnly : SUBSET Windows, quoteOnly : SUBSET Windows]

Payload(template) ==
  CASE template \in {"always", "crypto_major"} ->
         [Nothing EXCEPT !.regular = {Window(Days, 0, Day)}]
    [] template = "fx" ->
         [Nothing EXCEPT !.regular = {Window(Sun, At(21, 5), Day), Window(MonThu, 0, Day),
                                      Window(Fri, 0, At(20, 59))}]
    [] template = "stock_us_close_only" ->
         [Nothing EXCEPT !.regular = {Window(MonFri, At(13, 40), At(19, 45))},
                         !.closeOnly = {Window(MonFri, At(10, 0), At(13, 40))}]
    [] template = "index_us_jp" ->
         [regular |-> {Window(Sun, At(22, 5), Day), Window(MonThu, 0, At(20, 59)),
                       Window(MonThu, At(22, 1), Day), Window(Fri, 0, At(20, 55))},
          closeOnly |-> {Window(Sun, At(22, 0), At(22, 5)), Window(MonThu, At(20, 59), At(21, 0)),
                         Window(MonThu, At(22, 0), At(22, 1))},
          quoteOnly |-> {Window(MonThu, At(21, 0), At(22, 0))}]
    [] template = "xauusd" ->
         [regular |-> {Window(Sun, At(22, 5), Day), Window(MonThu, 0, At(22, 0)),
                       Window(MonThu, At(22, 2), Day), Window(Fri, 0, At(20, 58))},
          closeOnly |-> {Window(Sun, At(22, 1) + 1, At(22, 5)), Window(MonThu, At(22, 0) + 1, At(22, 2))},
          quoteOnly |-> {Window(MonThu, At(20, 58), At(22, 0) + 1)}]
    [] template = "energy" ->
         [Nothing EXCEPT !.regular = {Window(Sun, At(22, 10), Day), Window(MonThu, 0, At(20, 59)),
                                      Window(MonThu, At(22, 1), Day), Window(Fri, 0, At(20, 45))},
                         !.quoteOnly = {Window(MonThu, At(20, 59), At(22, 1))}]
    [] OTHER -> Nothing

VARIABLES
  template,   \* mt5_session_template
  stored,     \* the three JSON columns of the mapping
  now         \* half minutes since the Monday before last

vars == <<template, stored, now>>

-----------------------------------------------------------------------------
(* _window_datetimes: the spans of a window yesterday, today and tomorrow; *)
(* an end that is not after its start belongs to the next day.             *)
Spans(item, time) ==
  LET date(delta) == time \div Day + delta
      start(delta) == date(delta) * Day + item.start
      end(delta) == date(delta) * Day + item.end
  IN {[start |-> start(delta),
       end |-> IF end(delta) <= start(delta) THEN end(delta) + Day ELSE end(delta)] :
        delta \in {e \in -1 .. 1 : date(e) % 7 \in item.days}}

(* _matching_window *)
Matches(windows, time) ==
  \E item \in windows : \E span \in Spans(item, time) : span.start <= time /\ time < span.end

(* A bug the run must notice: only the coming day is looked through.       *)
SecondsToNextToday(windows, time) ==
  LET starts == UNION {{span.start : span \in Spans(item, time)} : item \in windows}
      later == {s - time : s \in {t \in starts : t > time}}
  IN IF later = {} THEN Never ELSE CHOOSE n \in later : \A m \in later : n <= m

(* _seconds_to_next: the nearest later start, looked for over eight days.  *)
SecondsToNext(windows, time) ==
  LET starts == UNION {UNION {{span.start : span \in Spans(item, time + offset * Day)} :
                                 item \in windows} : offset \in 0 .. 7}
      later == {s - time : s \in {t \in starts : t > time}}
  IN IF later = {} THEN Never ELSE CHOOSE n \in later : \A m \in later : n <= m

(* The windows local_schedule_state looks at: those stored, or those of    *)
(* the template while nothing is stored.                                   *)
Effective ==
  IF template \notin {"manual_custom", "auto"} /\ stored = Nothing
  THEN Payload(template) ELSE stored

(* local_schedule_state; "none" when no calendar is kept for the symbol.   *)
Status(time) ==
  LET w == Effective
  IN IF w = Nothing THEN "none"
     ELSE IF Matches(w.closeOnly, time) THEN "reduce_only"
     ELSE IF Matches(w.quoteOnly, time) THEN "quote_only"
     ELSE IF Matches(w.regular, time) THEN "normal_trade"
     ELSE "closed"

SecondsToOpen(time) ==
  LET w == Effective
  IN CASE Status(time) = "quote_only" -> SecondsToNext(w.regular, time)
       [] Status(time) = "closed" -> SecondsToNext(w.regular \cup w.closeOnly \cup w.quoteOnly, time)
       [] OTHER -> Never

(* mt5_symbol_flow_paused, of a state that comes from the calendar.        *)
Paused(time) == Status(time) = "closed"

(* _mt5_dispatch_retry_seconds, of a command the calendar held back: from  *)
(* half a minute to five minutes.                                          *)
RetrySeconds(time) ==
  LET wait == IF SecondsToOpen(time) = Never THEN 5 * Minute ELSE SecondsToOpen(time)
      atLeast == IF wait < 1 THEN 1 ELSE wait
  IN IF atLeast < 5 * Minute THEN atLeast ELSE 5 * Minute

-----------------------------------------------------------------------------
(* The moments at which something can change, in any template.             *)
Kinds(w) == w.regular \cup w.closeOnly \cup w.quoteOnly
TimesOfDay ==
  UNION {UNION {{i.start, i.end} : i \in Kinds(w)} :
           w \in {Payload(t) : t \in Templates} \cup {Own}}
Moments ==
  {Week + d * Day + ((t + near) % Day) : d \in Days, t \in TimesOfDay, near \in {-1, 0, 1}}

Init ==
  /\ template \in Templates \cup {"auto"}
  /\ stored = Nothing
  /\ now \in {Week, Week + 2 * Day}

(* infer_template: the class of the symbol decides for "auto".             *)
Inferred(selected) == IF selected = "auto" THEN Templates ELSE {selected}

(* apply_mt5_session_template: the windows of a template are stored.       *)
ApplyTemplate(selected) ==
  /\ template' \in Inferred(selected)
  /\ stored' = Payload(template')
  /\ UNCHANGED now

(* sync_mt5_session_templates leaves a symbol with windows of its own be.  *)
SyncTemplates == template # "manual_custom" /\ ApplyTemplate(template)

(* The settings page selects a template, or writes windows of its own.     *)
SelectTemplate == \E selected \in Templates \cup {"auto"} : ApplyTemplate(selected)
EditWindows ==
  /\ template' = "manual_custom"
  /\ stored' = Own
  /\ UNCHANGED now

Wait ==
  /\ now' \in Moments
  /\ UNCHANGED <<template, stored>>

Next == SyncTemplates \/ SelectTemplate \/ EditWindows \/ Wait

Spec == Init /\ [][Next]_vars

-----------------------------------------------------------------------------
(* Reference: a moment is in a window when its distance from the start of  *)
(* the window, round the week, is less than the window is long.            *)
Inside(windows, time) ==
  \E item \in windows : \E d \in item.days :
     (time - (d * Day + item.start)) % Week < Length(item)

TypeOK ==
  /\ template \in Templates \cup {"manual_custom", "auto"}
  /\ stored \in {Payload(t) : t \in Templates} \cup {Own, Nothing}
  /\ now \in Moments \cup {Week, Week + 2 * Day}

(* The scan over three days finds what the calendar of the week says, with *)
(* close-only before quote-only before regular windows.                    *)
StatusIsTheCalendar ==
  LET w == Effective
  IN Status(now) =
       IF w = Nothing THEN "none"
       ELSE IF Inside(w.closeOnly, now) THEN "reduce_only"
       ELSE IF Inside(w.quoteOnly, now) THEN "quote_only"
       ELSE IF Inside(w.regular, now) THEN "normal_trade"
       ELSE "closed"

(* A symbol that is closed opens when it is said to, not before, and a     *)
(* command held back by the calendar is tried again within half a minute   *)
(* of that moment, or every five minutes until then.                       *)
OpensWhenSaid ==
  (Status(now) = "closed") =>
    LET opening == now + SecondsToOpen(now)
        retry == now + RetrySeconds(now)
    IN /\ SecondsToOpen(now) # Never
       /\ Status(opening) # "closed"
       /\ \A t \in {m \in Moments \cup {m + Week : m \in Moments} : now < m /\ m < opening} :
             Status(t) = "closed"
       /\ retry <= opening + 1
       /\ retry - now \in 1 .. 5 * Minute

ScheduleIsTrue == StatusIsTheCalendar /\ OpensWhenSaid
=============================================================================
