---------------------------- MODULE CodeqlBadge ----------------------------
(***************************************************************************)
(* The daily job that runs scripts/update_codeql_badge.py and commits the  *)
(* badge (.github/workflows/codeql-badge.yml): fetch the list of alerts    *)
(* page by page, count them, write the badge.  Alerts are opened and       *)
(* closed meanwhile; a page may be answered with an HTTP error, and the    *)
(* connection or the disk may fail.                                        *)
(*                                                                         *)
(* The listing is GitHub's: newest first, a page is a slice of the list as *)
(* it is when the page is asked for, and its Link header names a next page *)
(* while there is more.                                                    *)
(***************************************************************************)
EXTENDS Integers, Sequences, SequencesExt, FiniteSetsExt

CONSTANTS PerPage,    \* alerts on a page: 100 in API_TEMPLATE
          Critical,   \* the alerts of severity critical
          Alerts,     \* bound: alerts are numbered 1..Alerts as they open
          Days        \* bound: how often the job runs

ASSUME BadgeAssumption == /\ PerPage \in Nat \ {0}
                          /\ Critical \subseteq Nat
                          /\ Alerts \in Nat
                          /\ Days \in Nat

VARIABLES
  open,       \* the alerts open on the server, newest first
  opened,     \* how many have been opened so far
  pc,         \* where the job is
  url,        \* alerts before the next page, as its url says
  alerts,     \* what fetch_alerts() has so far
  file,       \* badges/codeql_alerts.json in the job's checkout
  badge,      \* the badge last committed
  failed,     \* history: this run was answered an HTTP error
  count,      \* history: alerts open when the last page was answered
  before,     \* history: alerts open when this run started
  calm,       \* history: no alert has closed since
  day

server == <<open, opened>>
history == <<failed, count, before, calm, day>>
vars == <<server, pc, url, alerts, file, badge, history>>

Torn == [total |-> -1, color |-> "torn"]
-----------------------------------------------------------------------------
Init == /\ open = <<>>
        /\ opened = 0
        /\ pc = "done"
        /\ url = 0
        /\ alerts = <<>>
        /\ file = Torn
        /\ badge = Torn
        /\ failed = FALSE
        /\ count = 0
        /\ before = {}
        /\ calm = TRUE
        /\ day = 0

alert_opens == /\ opened < Alerts
               /\ opened' = opened + 1
               /\ open' = <<opened'>> \o open
               /\ UNCHANGED <<pc, url, alerts, file, badge, history>>

alert_closes == /\ \E i \in DOMAIN open : open' = RemoveAt(open, i)
                /\ calm' = FALSE
                /\ UNCHANGED <<opened, pc, url, alerts, file, badge, failed, count, before,
                               day>>

(* The schedule starts the job in a fresh checkout. *)
start == /\ pc = "done"
         /\ day < Days
         /\ day' = day + 1
         /\ pc' = "fetch"
         /\ url' = 0
         /\ alerts' = <<>>
         /\ file' = badge
         /\ failed' = FALSE
         /\ count' = 0
         /\ before' = ToSet(open)
         /\ calm' = TRUE
         /\ UNCHANGED <<server, badge>>

(* What the server answers to the url: the end of a slice. *)
PageEnd == Min({url + PerPage, Len(open)})

(* _parse_next_link() *)
HasNext == Len(open) > url + PerPage

(* Variants: an error returns what there is; pages overlap by one.         *)
fetch_error_partial == /\ pc = "fetch"
                       /\ failed' = TRUE
                       /\ pc' = "write"
                       /\ UNCHANGED <<server, url, alerts, file, badge, count, before, calm, day>>

fetch_page_overlap == /\ pc = "fetch"
                      /\ alerts' = alerts \o SubSeq(open, url + 1, PageEnd)
                      /\ count' = Len(open)
                      /\ \/ HasNext /\ url' = url + PerPage + 1 /\ UNCHANGED pc
                         \/ ~HasNext /\ pc' = "write" /\ UNCHANGED url
                      /\ UNCHANGED <<server, file, badge, failed, before, calm, day>>

fetch_page == /\ pc = "fetch"
              /\ alerts' = alerts \o SubSeq(open, url + 1, PageEnd)
              /\ count' = Len(open)
              /\ \/ HasNext /\ url' = url + PerPage /\ UNCHANGED pc
                 \/ ~HasNext /\ pc' = "write" /\ UNCHANGED url
              /\ UNCHANGED <<server, file, badge, failed, before, calm, day>>

(* except HTTPError: return [], whatever the earlier pages held. *)
fetch_error == /\ pc = "fetch"
               /\ failed' = TRUE
               /\ alerts' = <<>>
               /\ pc' = "write"
               /\ UNCHANGED <<server, url, file, badge, count, before, calm, day>>

(* Any other error of the connection is an exception: no badge. *)
fetch_breaks == /\ pc = "fetch"
                /\ pc' = "done"
                /\ UNCHANGED <<server, url, alerts, file, badge, history>>

(* Variant: the tests in another order. *)
pick_color_size_first(total, critical) == IF total = 0 THEN "success"
                                     ELSE IF total <= 5 THEN "warning"
                                     ELSE IF critical > 0 THEN "critical"
                                     ELSE "orange"

pick_color(total, critical) == IF total = 0 THEN "success"
                          ELSE IF critical > 0 THEN "critical"
                          ELSE IF total <= 5 THEN "warning"
                          ELSE "orange"

(* summarize() counts by severity; the badge shows two of its counts. *)
summarize == [total    |-> Len(alerts),
              critical |-> Cardinality({i \in DOMAIN alerts : alerts[i] \in Critical})]

Badge == [total |-> summarize.total,
          color |-> pick_color(summarize.total, summarize.critical)]

(* write_text() truncates the file and may then fail. *)
write_badge == /\ pc = "write"
               /\ \/ file' = Badge /\ pc' = "commit"
                  \/ file' \in {file, Torn} /\ pc' = "done"
               /\ UNCHANGED <<server, url, alerts, badge, history>>

(* The next step of the job, taken only when the script has succeeded. *)
commit == /\ pc = "commit"
          /\ badge' = file
          /\ pc' = "done"
          /\ UNCHANGED <<server, url, alerts, file, history>>

Next == \/ start \/ fetch_page \/ fetch_error \/ fetch_breaks \/ write_badge
        \/ commit \/ alert_opens \/ alert_closes
        \/ pc = "done" /\ day = Days /\ UNCHANGED vars

Spec == Init /\ [][Next]_vars
-----------------------------------------------------------------------------
Fetched == pc \in {"write", "commit"} /\ ~failed

(***************************************************************************)
(* However alerts move between pages, the total is the number of alerts    *)
(* open when the last page was answered, unless so many closed that this   *)
(* page lay beyond the end: an alert skipped because the list moved up is  *)
(* balanced by one already counted that has closed (fetch_alerts()).       *)
(***************************************************************************)
TotalIsLastCount == Fetched => Len(alerts) = Max({count, url})

(***************************************************************************)
(* If no alert closes while the pages are fetched, none is overlooked: new *)
(* ones push the others to later pages, which repeats but never skips.  So *)
(* a critical alert open all the time makes the badge critical.            *)
(***************************************************************************)
NoneOverlooked ==
  Fetched /\ calm => /\ before \subseteq ToSet(alerts)
                     /\ before \cap Critical # {} => Badge.color = "critical"

(***************************************************************************)
(* What is committed is a whole listing, or the empty one after an error:  *)
(* never some of its pages, and never a file whose write failed.           *)
(***************************************************************************)
CommitsAreWhole ==
  [][badge'.total = IF failed THEN 0 ELSE Max({count, url})]_badge

=============================================================================
