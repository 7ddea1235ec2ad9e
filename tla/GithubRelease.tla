--------------------------- MODULE GithubRelease ---------------------------
(***************************************************************************)
(* Jobs that run scripts/update_github_release.py for one tag: look the    *)
(* release up, then create it or update it by its id, over HTTP.  A        *)
(* request may be answered, lost, or handled after the 60 s the client     *)
(* waits; a failed or killed job may be run again while what it sent       *)
(* before is still on its way.                                             *)
(*                                                                         *)
(* The server is GitHub's, modelled from what the script relies on: a      *)
(* lookup by tag finds the published release and no draft, a second one    *)
(* published under the tag is refused, and drafts are not.                 *)
(***************************************************************************)
EXTENDS Integers, Sequences

CONSTANTS Updaters,   \* the jobs
          Nobody,
          Tries       \* bound: how often a job is run

ASSUME GithubAssumption == /\ Nobody \notin Updaters
                           /\ Tries \in Nat

VARIABLES
  drafts,     \* the jobs that pass --draft
  releases,   \* the releases of the tag by id: whose notes, and if a draft
  transit,    \* requests sent and not handled yet: method, by, id and try
  reply,      \* reply[p]: the answer to p's pending request
  pc,         \* where p is in main(): the request it waits for
  try,        \* try[p]: which run of p this is
  code,       \* exit code of p's last run
  written,    \* history: those whose notes have been put on a release
  alone       \* history: the last job started, if nothing of another was
              \* pending then, else Nobody

vars == <<drafts, releases, transit, reply, pc, try, code, written, alone>>

Running == 99
Silence == [status |-> 0, id |-> 0]

Methods == {"GET", "POST", "PATCH"}

Published == {i \in DOMAIN releases : ~releases[i].draft}

Waiting(p) == pc[p] \in Methods
-----------------------------------------------------------------------------
Init == /\ drafts \in SUBSET Updaters
        /\ releases = <<>>
        /\ transit = {}
        /\ reply = [p \in Updaters |-> Silence]
        /\ pc = [p \in Updaters |-> "idle"]
        /\ try = [p \in Updaters |-> 0]
        /\ code = [p \in Updaters |-> Running]
        /\ written = {}
        /\ alone = Nobody

Goto(p, to) == pc' = [pc EXCEPT ![p] = to]

Exit(p, c) == /\ Goto(p, "done")
              /\ code' = [code EXCEPT ![p] = c]

(* _request(): send, and wait for the answer. *)
Send(p, method, id, n) ==
  /\ transit' = transit \union
       {[method |-> method, by |-> p, id |-> id, try |-> n]}
  /\ reply' = [reply EXCEPT ![p] = Silence]
  /\ Goto(p, method)

(* main() up to the lookup.  A job that failed is run again; what it sent  *)
(* before may still arrive.                                                *)
start(p) == /\ pc[p] = "idle" \/ (pc[p] = "done" /\ code[p] = 1)
            /\ try[p] < Tries
            /\ try' = [try EXCEPT ![p] = @ + 1]
            /\ Send(p, "GET", 0, try[p] + 1)
            /\ code' = [code EXCEPT ![p] = Running]
            /\ alone' = IF /\ \A q \in Updaters \ {p} : ~Waiting(q)
                           /\ \A r \in transit : r.by = p
                        THEN p ELSE Nobody
            /\ UNCHANGED <<drafts, releases, written>>

(* No token in the environment, or no body file: nothing is sent. *)
refuse(p) == /\ pc[p] = "idle"
             /\ Exit(p, 2)
             /\ UNCHANGED <<drafts, releases, transit, reply, try, written, alone>>

(* Variant: a release that exists is left as it is. *)
get_release_by_tag_only(p) ==
  /\ pc[p] = "GET"
  /\ \/ reply[p].status = 404 /\ Send(p, "POST", 0, try[p]) /\ UNCHANGED code
     \/ reply[p].status = 200 /\ Exit(p, 0) /\ UNCHANGED <<transit, reply>>
  /\ UNCHANGED <<drafts, releases, try, written, alone>>

get_release_by_tag(p) ==
  /\ pc[p] = "GET"
  /\ \/ reply[p].status = 404 /\ Send(p, "POST", 0, try[p])
     \/ reply[p].status = 200 /\ Send(p, "PATCH", reply[p].id, try[p])
  /\ UNCHANGED <<drafts, releases, try, code, written, alone>>

(* Variant: a refusal counts as the release being there already. *)
create_release_exists(p) ==
  /\ pc[p] = "POST"
  /\ reply[p].status \in {201, 422} /\ Exit(p, 0)
  /\ UNCHANGED <<drafts, releases, transit, reply, try, written, alone>>

create_release(p) ==
  /\ pc[p] = "POST"
  /\ \/ reply[p].status = 201 /\ Exit(p, 0)
     \/ reply[p].status = 422 /\ Exit(p, 1)
  /\ UNCHANGED <<drafts, releases, transit, reply, try, written, alone>>

update_release(p) ==
  /\ pc[p] = "PATCH"
  /\ \/ reply[p].status = 200 /\ Exit(p, 0)
     \/ reply[p].status = 422 /\ Exit(p, 1)
  /\ UNCHANGED <<drafts, releases, transit, reply, try, written, alone>>

(* Variant: without an answer the run goes on waiting. *)
give_up_never(p) == FALSE /\ UNCHANGED vars

(* No answer in 60 s, an answer that is lost or an error of the server: an *)
(* exception.  A job that is cancelled looks the same.                     *)
give_up(p) == /\ Waiting(p)
              /\ Exit(p, 1)
              /\ UNCHANGED <<drafts, releases, transit, reply, try, written, alone>>
-----------------------------------------------------------------------------
(* The server handles a request; p hears of it if it still waits for it.   *)
Answer(r, status, id) ==
  /\ transit' = transit \ {r}
  /\ reply' = IF pc[r.by] = r.method /\ try[r.by] = r.try
              THEN [reply EXCEPT ![r.by] = [status |-> status, id |-> id]]
              ELSE reply
  /\ UNCHANGED <<drafts, pc, try, code, alone>>

Sent(r) == [notes |-> r.by, draft |-> r.by \in drafts]

(* Whether another published release stands in the way of what r asks. *)
Taken(r) == r.by \notin drafts /\ Published \ {r.id} # {}

serve_get(r) == /\ r.method = "GET"
                /\ \/ Published = {} /\ Answer(r, 404, 0)
                   \/ \E i \in Published : Answer(r, 200, i)
                /\ UNCHANGED <<releases, written>>

serve_post(r) == /\ r.method = "POST"
                 /\ ~Taken(r)
                 /\ releases' = Append(releases, Sent(r))
                 /\ written' = written \union {r.by}
                 /\ Answer(r, 201, Len(releases) + 1)

serve_patch(r) == /\ r.method = "PATCH"
                  /\ ~Taken(r)
                  /\ releases' = [releases EXCEPT ![r.id] = Sent(r)]
                  /\ written' = written \union {r.by}
                  /\ Answer(r, 200, r.id)

serve_refuses(r) == /\ r.method \in {"POST", "PATCH"}
                    /\ Taken(r)
                    /\ Answer(r, 422, 0)
                    /\ UNCHANGED <<releases, written>>

serve(r) == \/ serve_get(r) \/ serve_post(r) \/ serve_patch(r)
            \/ serve_refuses(r)
-----------------------------------------------------------------------------
main(p) == \/ get_release_by_tag(p) \/ create_release(p) \/ update_release(p)
           \/ give_up(p)

Done == /\ \A p \in Updaters : pc[p] = "done" /\ (code[p] = 1 => try[p] = Tries)
        /\ UNCHANGED vars

Next == \/ \E p \in Updaters : start(p) \/ refuse(p) \/ main(p)
        \/ \E r \in transit : serve(r)
        \/ Done

(* A run goes on when it is answered or its time is up.  Nothing is        *)
(* assumed of the server.                                                  *)
Spec == Init /\ [][Next]_vars /\ \A p \in Updaters : WF_vars(main(p))
-----------------------------------------------------------------------------
(***************************************************************************)
(* To its users the release is a register: what is published are the notes *)
(* of one writer, a draft can only take them away, and exit code 0 means   *)
(* that one's own notes were put there, whatever was lost, delayed or run  *)
(* twice.                                                                  *)
(***************************************************************************)
Shown == IF Published = {} THEN Nobody
         ELSE releases[CHOOSE i \in Published : TRUE].notes

Register == INSTANCE ReleaseRegister WITH
              notes <- Shown,
              succeeded <- {p \in Updaters : code[p] = 0}

RegisterSpec == Register!Spec

(***************************************************************************)
(* Jobs run one after the other leave the notes of the last: when a job    *)
(* without --draft that started with nothing of another pending has        *)
(* succeeded, and nobody has started since, the published release shows    *)
(* its notes, whatever its own earlier tries still do.                     *)
(***************************************************************************)
LastJobShows ==
  \A p \in Updaters \ drafts : alone = p /\ code[p] = 0 => Shown = p

(***************************************************************************)
(* A run ends whatever the server does: no request waits for longer than   *)
(* its time-out (line 49).                                                 *)
(***************************************************************************)
EveryRunEnds == \A p \in Updaters : Waiting(p) ~> pc[p] = "done"
=============================================================================
