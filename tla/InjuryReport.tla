---------------------------- MODULE InjuryReport ----------------------------
(***************************************************************************)
(* What ESPN's injury report says of a player Sleeper knows                *)
(* (backend/app/nfl_data/injuries.py).  The report is a list of entries,   *)
(* several for an athlete, each with a designation and a date; Sleeper's   *)
(* own label has the date of the player's latest news.  Dates are numbers, *)
(* NoDate when there is none.                                              *)
(***************************************************************************)
EXTENDS Integers, Sequences

NoDate == -1
Nobody == "nobody"

\* Designations ESPN uses: one that clears a player, those with a label of
\* Sleeper's, and others, which leave Sleeper's label alone.
Cleared == "Active"
Labels == {"Out", "Questionable"}
Healthy == "none"

\* (known, label) of an entry: the fantasy designation before the plain one.
Designated(word) == word \in Labels \cup {Cleared}
Word(entry) == IF Designated(entry.fantasy) THEN entry.fantasy ELSE entry.status
LabelOf(entry) == IF Word(entry) = Cleared THEN Healthy ELSE Word(entry)

\* An old clearance is a past injury, not news.
Counts(entry, now, clearedFor) ==
  /\ Designated(Word(entry))
  /\ Word(entry) = Cleared => entry.date # NoDate /\ now - entry.date <= clearedFor

LastEntry(report, entry) == TRUE

\* Does entry take the place of the athlete's earlier one?
Replaces(report, entry) ==
  \/ report.date = NoDate \/ entry.date = NoDate
  \/ report.date < entry.date

ReportOf(entry) == [athlete |-> entry.athlete, name |-> entry.name,
                label |-> LabelOf(entry), date |-> entry.date]

\* What one more entry makes of the reports of those before it.
WithEntry(reports, entry, now, clearedFor) ==
  LET old == {r \in reports : r.athlete = entry.athlete}
  IN IF Counts(entry, now, clearedFor) /\ \A r \in old : Replaces(r, entry)
     THEN (reports \ old) \cup {ReportOf(entry)} ELSE reports

\* parse_injuries: one report for each athlete the entries name.
Reports(entries, now, clearedFor) ==
  LET read[n \in 0..Len(entries)] ==
        IF n = 0 THEN {} ELSE WithEntry(read[n - 1], entries[n], now, clearedFor)
  IN read[Len(entries)]

\* A player Sleeper has no ESPN id for goes by name, if one athlete has it.
Matching(player, reports) ==
  IF player.espn # Nobody THEN {r \in reports : r.athlete = player.espn}
  ELSE LET named == {r \in reports : r.name = player.name}
       IN {r \in named : \A s \in named : s = r}

NewerOrEqual(report, player) ==
  player.news = NoDate \/ report.date >= player.news

NewerThanSleeper(report, player) ==
  player.news = NoDate \/ (report.date # NoDate /\ report.date > player.news)

\* apply_injury_reports: the label the player is saved with.
Overlay(player, reports) ==
  LET newer == {r \in Matching(player, reports) : NewerThanSleeper(r, player)}
  IN IF newer = {} THEN player.label ELSE (CHOOSE r \in newer : TRUE).label

\* The reference: of everything that is said of an athlete, with a date, the
\* newest, and Sleeper's word when nothing of ESPN's is newer.
SaidOf(athlete, entries, now, clearedFor) ==
  {i \in 1..Len(entries) :
     entries[i].athlete = athlete /\ Counts(entries[i], now, clearedFor)}

Newest(athlete, player, entries, now, clearedFor) ==
  LET said == SaidOf(athlete, entries, now, clearedFor)
      last == {i \in said : \A j \in said :
                 \/ entries[j].date < entries[i].date
                 \/ entries[j].date = entries[i].date /\ j >= i}
      newer == {i \in last : entries[i].date > player.news}
  IN IF newer = {} THEN player.label ELSE LabelOf(entries[CHOOSE i \in newer : TRUE])
=============================================================================
