------------------------------- MODULE Issues -------------------------------
(***************************************************************************)
(* A publication's day, from search results to public posts: the           *)
(* harvest_candidates tool (src/julio/harvest.cpp) writes a numbered pool, *)
(* the publish_issue tool (src/julio/issue.cpp) resolves a model's         *)
(* selection against it and starts publishing/publish_issue.py, which      *)
(* checks the links, mails the issue (send_newsletter.py) and writes the   *)
(* run record, and cron posts one slot at a time with                      *)
(* publishing/post_tweet.py.  They share files only: pools, issues, run    *)
(* records, the record of posts.                                           *)
(*                                                                         *)
(* A page is its title's and its sentences' word sets, a post its word     *)
(* set; how text is cut into words is left out.                            *)
(***************************************************************************)
EXTENDS Integers, Sequences, FiniteSets, SequencesExt

CONSTANTS
  Agents,        (* runs of a model with the two tools                     *)
  Publications, DefaultPublication,
  MinItems,      (* publication to its floor                               *)
  Page,          (* link to what is behind it                              *)
  Draft,         (* text of a post to its words and length                 *)
  Searches,      (* publication to the result lists its queries may get    *)
  Calls,         (* publish_issue calls a model may make                   *)
  Subscribers, Mortal,   (* readers; links that may stop working           *)
  MinOverlap, MinShared, MaxAge, MaxPerSource, MaxPerStory,
  MaxCandidates, DedupIssues,
  None,
  (* bounds *)
  MaxDay, MaxSlot, MaxHarvests, MaxCalls, MaxFaults

Links == DOMAIN Page
Texts == DOMAIN Draft
Days == 1..MaxDay
Slots == 1..MaxSlot
Keys == Publications \X Days
Lengths == {"blank", "short", "long", "far"}

ASSUME IssuesAssumption ==
  /\ DefaultPublication \in Publications
  /\ \A u \in Links :
       Page[u].sentences \subseteq SUBSET UNION Page[u].sentences
  /\ \A t \in Texts : /\ Draft[t].length \in Lengths
                      /\ Draft[t].length = "long" => Draft[t].shorter \in Texts
  /\ \A p \in Publications : Searches[p] \subseteq Seq(Links)
  /\ Mortal \subseteq Links
  /\ MinItems \in [Publications -> Nat]
  /\ MinOverlap \in Nat \ {0} /\ MaxDay \in Nat \ {0} /\ MaxSlot \in Nat
(* What a call may name: of a pool, a publication and a day or neither.     *)
Modes == {"send", "dry", "render"}
ASSUME CallsAssumption ==
  \A c \in Calls : /\ c.publication \in Publications \cup {None}
                   /\ c.date \in Days \cup {0} /\ c.mode \in Modes
                   /\ c.items \in Seq([id : Nat, text : Texts, emoji : BOOLEAN])
(* With nobody to mail to there is nothing to promise.                      *)
ASSUME ReadersAssumption == Subscribers # {}

VARIABLES
  today, dead,       (* the day; links that answer with an error           *)
  pools,             (* issue key to its pool file: <<>> is no file        *)
  newest,            (* publication of the pool written last               *)
  results,           (* ids given by the result store                      *)
  issues, runs,      (* issue key to its issue file and run record         *)
  retries,           (* length_retries of this process                     *)
  run,               (* agent to the tool call it is in                    *)
  posted, poster,    (* the posts on record; the slot run in progress      *)
  (* history *)
  mails,             (* mail delivered                                     *)
  public,            (* how often a slot of an issue was posted            *)
  comments,          (* link comments on posts                             *)
  harvested,         (* links ever in an issue's pool                      *)
  checked,           (* links a script found working for an issue          *)
  warned,            (* issues with a rejection naming the length limit    *)
  spent              (* of the bounds                                      *)

files == <<pools, newest, results, issues, runs>>
world == <<today, dead>>
outside == <<mails, public, comments>>
seen == <<harvested, checked, warned>>
slots == <<posted, poster>>
vars == <<world, files, retries, run, slots, outside, seen, spent>>

Idle == [at |-> "idle", key |-> None, items |-> <<>>, mode |-> "send", left |-> {}]
NoSlot == [at |-> "idle", key |-> None, slot |-> 0, items |-> <<>>, todo |-> {}]
Least(S) == CHOOSE n \in S : \A m \in S : n <= m

Init ==
  /\ today = 1 /\ dead = {}
  /\ pools = [k \in Keys |-> <<>>] /\ newest = DefaultPublication /\ results = 0
  /\ issues = [k \in Keys |-> <<>>] /\ runs = [k \in Keys |-> "none"]
  /\ retries = {} /\ run = [a \in Agents |-> Idle]
  /\ posted = [k \in Keys |-> [s \in Slots |-> "none"]] /\ poster = NoSlot
  /\ mails = {} /\ public = [k \in Keys |-> [s \in Slots |-> 0]] /\ comments = {}
  /\ harvested = [k \in Keys |-> {}] /\ checked = [k \in Keys |-> {}] /\ warned = {}
  /\ spent = [harvests |-> 0, calls |-> 0, faults |-> 0]

Spend(what) == spent' = [spent EXCEPT ![what] = @ + 1]
Reach(a, at) == run' = [run EXCEPT ![a].at = at]
Rest(a) == run' = [run EXCEPT ![a] = Idle]

-----------------------------------------------------------------------------
(* Harvesting.                                                             *)

(* title_similarity of at least one half, on enough common words.          *)
SameStory(u, v) ==
  LET shared == Cardinality(Page[u].title \cap Page[v].title)
      fewer == Least({Cardinality(Page[u].title), Cardinality(Page[v].title)})
  IN shared >= MinShared /\ 2 * shared >= fewer

(* What ran in the newest issue files of a publication.                    *)
RecentlyPublished(p) ==
  LET with == {d \in Days : issues[<<p, d>>] # <<>>}
      last == {d \in with : Cardinality({e \in with : e > d}) < DedupIssues}
  IN {Page[it.url].key : it \in UNION {ToSet(issues[<<p, d>>]) : d \in last}}

(* Where link u goes among the candidates taken so far: a story's number,  *)
(* or 0 where it is turned down.                                           *)
StoryFor(u, taken, ran, day) ==
  LET same == {i \in DOMAIN taken : SameStory(u, taken[i].url)}
      story == IF same = {}
               THEN Cardinality({taken[i].story : i \in DOMAIN taken}) + 1
               ELSE taken[Least(same)].story
      of_site == {i \in DOMAIN taken : Page[taken[i].url].site = Page[u].site}
      of_story == {i \in DOMAIN taken : taken[i].story = story}
      twins == {i \in DOMAIN taken : \/ Page[taken[i].url].key = Page[u].key
                                    \/ Page[taken[i].url].title = Page[u].title}
  IN IF \/ Page[u].key \in ran
        \/ twins # {}
        \/ Page[u].day # 0 /\ day - Page[u].day > MaxAge
        \/ MaxPerSource > 0 /\ Cardinality(of_site) >= MaxPerSource
        \/ same # {} /\ MaxPerStory > 0 /\ Cardinality(of_story) >= MaxPerStory
     THEN 0 ELSE story

Take(taken, u, ran, day) ==
  LET story == StoryFor(u, taken, ran, day)
  IN IF story = 0 THEN taken ELSE Append(taken, [url |-> u, story |-> story])

Shortlist(hits, ran, day) ==
  LET taken[n \in 0..Len(hits)] ==
        IF n = 0 THEN <<>> ELSE Take(taken[n - 1], hits[n], ran, day)
  IN taken[Len(hits)]

(* Only pages that come back, and with enough text, up to the maximum.     *)
Keep(kept, c) ==
  IF /\ Len(kept) < MaxCandidates
     /\ c.url \notin dead /\ Page[c.url].sentences # {}
  THEN Append(kept, c) ELSE kept

Fetched(list) ==
  LET kept[n \in 0..Len(list)] == IF n = 0 THEN <<>> ELSE Keep(kept[n - 1], list[n])
  IN kept[Len(list)]

(* The pool: ids by position, stories numbered without gaps, and a handle   *)
(* in the result store where storing worked.                               *)
Numbered(list, stored) ==
  LET First(i) == Least({j \in DOMAIN list : list[j].story = list[i].story})
  IN [i \in DOMAIN list |->
       [url |-> list[i].url,
        story |-> Cardinality({list[j].story : j \in 1..First(i)}),
        result |-> IF stored THEN results + i ELSE 0]]

(* harvest_handler up to the fetches: the search, and the filters on it.    *)
HarvestSearch(a, p) ==
  /\ run[a].at = "idle" /\ spent.harvests < MaxHarvests
  /\ \E hits \in Searches[p] :
       run' = [run EXCEPT ![a] = [Idle EXCEPT !.at = "fetching", !.key = <<p, today>>,
                 !.items = Shortlist(hits, RecentlyPublished(p), today)]]
  /\ Spend("harvests")
  /\ UNCHANGED <<world, files, retries, slots, outside, seen>>

(* The rest of it: nothing is written where no candidate is left.           *)
HarvestPool(a) ==
  /\ run[a].at = "fetching"
  /\ \E stored \in BOOLEAN :
       LET k == run[a].key
           kept == Fetched(run[a].items)
       IN IF kept = <<>>
          THEN UNCHANGED <<pools, newest, results, harvested>>
          ELSE /\ pools' = [pools EXCEPT ![k] = Numbered(kept, stored)]
               /\ newest' = k[1]
               /\ results' = IF stored THEN results + Len(kept) ELSE results
               /\ harvested' = [harvested EXCEPT ![k] = @ \cup {c.url : c \in ToSet(kept)}]
  /\ Rest(a)
  /\ UNCHANGED <<world, issues, runs, retries, slots, outside, checked, warned, spent>>

-----------------------------------------------------------------------------
(* Building an issue.                                                      *)

(* extract_evidence: a sentence of the page shares enough of the words.     *)
Grounded(t, u) ==
  \E s \in Page[u].sentences : Cardinality(Draft[t].words \cap s) >= MinOverlap

(* The candidate a number names: its id first, then its result_id; or 0.    *)
Resolve(pool, id) ==
  LET by_result == {i \in DOMAIN pool : pool[i].result = id}
  IN IF id \in DOMAIN pool THEN id
     ELSE IF by_result # {} THEN Least(by_result) ELSE 0

(* Mutant of Support: the candidate named is taken at its word.              *)
SupportDeclared(pool, t, c, used) == c

(* The candidate whose page carries text t: c itself, or the first one that *)
(* no item has; or 0.                                                      *)
Support(pool, t, c, used) ==
  LET others == {i \in DOMAIN pool \ (used \cup {c}) : Grounded(t, pool[i].url)}
  IN IF Grounded(t, pool[c].url) THEN c
     ELSE IF others # {} THEN Least(others) ELSE 0

(* What is wrong with one entry of a selection, in the order of the code.    *)
Fault(pool, sel, used, trim) ==
  LET c == Resolve(pool, sel.id)
      length == Draft[sel.text].length
  IN CASE c = 0                        -> "unknown"
       [] c \in used                   -> "duplicate"
       [] length = "blank"             -> "empty"
       [] length = "far"               -> "article"
       [] length = "long" /\ ~trim     -> "limit"
       [] ~sel.emoji                   -> "emoji"
       [] OTHER                        -> "none"

(* build_issue over the selection.  An entry no page supports is dropped     *)
(* and gives its candidate back; one that another page supports moves there. *)
Entry(pool, trim, acc, sel) ==
  LET c == Resolve(pool, sel.id)
      fault == Fault(pool, sel, acc.used, trim)
      cut == Draft[sel.text].length = "long"
      text == IF cut THEN Draft[sel.text].shorter ELSE sel.text
      by == Support(pool, text, c, acc.used)
  IN IF fault # "none"
     THEN [acc EXCEPT !.faults = @ \cup {fault}, !.used = @ \cup ({c} \ {0})]
     ELSE IF by = 0 THEN acc
     ELSE [acc EXCEPT !.used = @ \cup {by},
             !.items = Append(@, [text |-> text, url |-> pool[by].url,
                                  id |-> by, trimmed |-> cut])]

NothingBuilt == [used |-> {}, items |-> <<>>, faults |-> {}]
BuildIssue(pool, selection, trim) ==
  LET built[n \in 0..Len(selection)] ==
        IF n = 0 THEN NothingBuilt ELSE Entry(pool, trim, built[n - 1], selection[n])
  IN built[Len(selection)]

-----------------------------------------------------------------------------
(* publish_issue_handler up to the script.                                  *)

(* infer_publication and resolve_pool_date: the pool written last, and      *)
(* today unless the call names a day.                                      *)
KeyOf(c) == <<IF c.publication = None THEN newest ELSE c.publication,
              IF c.date = 0 THEN today ELSE c.date>>

(* A call with a pool behind it; without one it is refused and changes      *)
(* nothing.                                                                *)
Called(a, c) ==
  /\ run[a].at = "idle" /\ spent.calls < MaxCalls
  /\ pools[KeyOf(c)] # <<>>
  /\ Spend("calls")

(* A record that says sent is not replaced by write_blocked_record.         *)
Block(k) == runs' = [runs EXCEPT ![k] = IF @ = "sent" THEN @ ELSE "blocked"]

PublishTooFew(a, c) ==
  /\ Called(a, c)
  /\ Len(c.items) < MinItems[KeyOf(c)[1]]
  /\ Block(KeyOf(c))
  /\ UNCHANGED <<world, pools, newest, results, issues, retries, run, slots, outside, seen>>

(* Mutant of Arms: any rejection does.                                      *)
ArmsAny(built) == TRUE

(* A rejection that names the limit arms the trimming of the next attempt.   *)
Arms(built) == "limit" \in built.faults

PublishRejected(a, c) ==
  LET k == KeyOf(c)
      built == BuildIssue(pools[k], c.items, k \in retries)
  IN /\ Called(a, c)
     /\ Len(c.items) >= MinItems[k[1]]
     /\ built.faults # {} \/ Len(built.items) < MinItems[k[1]]
     /\ retries' = IF Arms(built) THEN retries \cup {k} ELSE retries
     /\ warned' = IF "limit" \in built.faults THEN warned \cup {k} ELSE warned
     /\ Block(k)
     /\ UNCHANGED <<world, pools, newest, results, issues, run, slots, outside,
                    harvested, checked>>

PublishBuilt(a, c) ==
  LET k == KeyOf(c)
      built == BuildIssue(pools[k], c.items, k \in retries)
  IN /\ Called(a, c)
     /\ built.faults = {} /\ Len(built.items) >= MinItems[k[1]]
     /\ issues' = [issues EXCEPT ![k] = built.items]
     /\ run' = [run EXCEPT ![a] = [Idle EXCEPT !.at = "script", !.key = k,
                                               !.mode = c.mode]]
     /\ UNCHANGED <<world, pools, newest, results, runs, retries, slots, outside, seen>>

-----------------------------------------------------------------------------
(* publishing/publish_issue.py.                                             *)

(* find_replacement: another candidate of the item's story whose page       *)
(* carries the text and whose link works; or 0.                            *)
Replacement(pool, it, used) ==
  LET fits == {i \in DOMAIN pool \ (used \cup {it.id}) :
                 /\ it.id \in DOMAIN pool /\ pool[i].story = pool[it.id].story
                 /\ Grounded(it.text, pool[i].url)
                 /\ pool[i].url \notin dead}
  IN IF fits = {} THEN 0 ELSE Least(fits)

(* repair_and_check: what is left of the items, and how many were dropped.  *)
Check(pool, acc, it) ==
  LET by == Replacement(pool, it, acc.used)
  IN IF it.url \notin dead THEN [acc EXCEPT !.kept = Append(@, it)]
     ELSE IF by = 0 THEN [acc EXCEPT !.dropped = @ + 1]
     ELSE [acc EXCEPT !.used = @ \cup {by},
             !.kept = Append(@, [it EXCEPT !.url = pool[by].url, !.id = by])]

Unrepaired(items) == [used |-> {it.id : it \in ToSet(items)}, kept |-> <<>>, dropped |-> 0]
RepairAndCheck(items, pool) ==
  LET after[n \in 0..Len(items)] ==
        IF n = 0 THEN Unrepaired(items) ELSE Check(pool, after[n - 1], items[n])
  IN after[Len(items)]

(* The script writes its record over any other.                            *)
WriteRunRecord(k, status) == runs' = [runs EXCEPT ![k] = status]

(* publish up to the mail.  The repaired items are mailed; the issue file    *)
(* stays as it is.                                                         *)
ScriptChecks(a) ==
  LET k == run[a].key
      r == RepairAndCheck(issues[k], pools[k])
      blocked == r.dropped > 0 \/ Len(r.kept) < MinItems[k[1]]
  IN /\ run[a].at = "script"
     /\ checked' = [checked EXCEPT ![k] = @ \cup {it.url : it \in ToSet(r.kept)}]
     /\ IF blocked \/ run[a].mode = "render"
        THEN WriteRunRecord(k, IF blocked THEN "blocked" ELSE "rendered") /\ Rest(a)
        ELSE /\ run' = [run EXCEPT ![a].at = "mailing", ![a].items = r.kept,
                          ![a].left = IF run[a].mode = "dry" THEN {} ELSE Subscribers]
             /\ UNCHANGED runs
     /\ UNCHANGED <<world, pools, newest, results, issues, retries, slots, outside,
                    harvested, warned, spent>>

(* send_newsletter.py: one mail after the other; a dry run has none.        *)
ScriptMails(a) ==
  /\ run[a].at = "mailing"
  /\ \E s \in run[a].left :
       /\ mails' = mails \cup {[key |-> run[a].key, items |-> run[a].items, to |-> s]}
       /\ run' = [run EXCEPT ![a].left = @ \ {s}]
  /\ UNCHANGED <<world, files, retries, slots, public, comments, seen, spent>>

(* Rendering or the mail server fails, possibly after some of the mail.     *)
ScriptMailFails(a) ==
  /\ run[a].at = "mailing"
  /\ spent.faults < MaxFaults
  /\ WriteRunRecord(run[a].key, "blocked") /\ Rest(a) /\ Spend("faults")
  /\ UNCHANGED <<world, pools, newest, results, issues, retries, slots, outside, seen>>

ScriptRecords(a) ==
  /\ run[a].at = "mailing" /\ run[a].left = {}
  /\ WriteRunRecord(run[a].key, IF run[a].mode = "dry" THEN "dry-run" ELSE "sent")
  /\ Rest(a)
  /\ UNCHANGED <<world, pools, newest, results, issues, retries, slots, outside, seen, spent>>

(* The handler kills the script at its time limit, wherever it is.          *)
ScriptTimesOut(a) ==
  /\ run[a].at \in {"script", "mailing"}
  /\ spent.faults < MaxFaults
  /\ Block(run[a].key) /\ Rest(a) /\ Spend("faults")
  /\ UNCHANGED <<world, pools, newest, results, issues, retries, slots, outside, seen>>

-----------------------------------------------------------------------------
(* publishing/post_tweet.py, one slot of today's issue per run.             *)

Owed(k) == {s \in Slots : posted[k][s] = "pending"}

(* Mutant of MayPost: any record of a run will do.                          *)
MayPostAnyRecord(k) == runs[k] # "none"

(* load_sent_issue: only from an issue whose record says it went out.       *)
MayPost(k) == runs[k] = "sent"

PostLoad(p, s) ==
  LET k == <<p, today>>
      already == posted[k][s] # "none"
  IN /\ poster.at = "idle"
     /\ MayPost(k) /\ s <= Len(issues[k])
     /\ ~already \/ Owed(k) # {}
     /\ poster' = [at |-> IF already THEN "commenting" ELSE "posting", key |-> k,
                   slot |-> s, items |-> issues[k], todo |-> Owed(k)]
     /\ UNCHANGED <<world, files, retries, run, posted, outside, seen, spent>>

PostToLinkedIn ==
  /\ poster.at = "posting"
  /\ public' = [public EXCEPT ![poster.key][poster.slot] = @ + 1]
  /\ poster' = [poster EXCEPT !.at = "saving"]
  /\ UNCHANGED <<world, files, retries, run, posted, mails, comments, seen, spent>>

(* The service reports an error; the post may be public all the same.       *)
PostFails ==
  /\ poster.at = "posting" /\ spent.faults < MaxFaults
  /\ \/ public' = [public EXCEPT ![poster.key][poster.slot] = @ + 1]
     \/ UNCHANGED public
  /\ poster' = NoSlot /\ Spend("faults")
  /\ UNCHANGED <<world, files, retries, run, posted, mails, comments, seen>>

SavePosted ==
  /\ poster.at = "saving"
  /\ posted' = [posted EXCEPT ![poster.key][poster.slot] = "pending"]
  /\ poster' = [poster EXCEPT !.at = "commenting", !.todo = @ \cup {poster.slot}]
  /\ UNCHANGED <<world, files, retries, run, outside, seen, spent>>

(* finish_comments, the lowest slot first; an item the issue no longer has   *)
(* stays owed, as does a comment the service refuses.                       *)
FinishComment ==
  LET s == Least(poster.todo)
      k == poster.key
  IN /\ poster.at = "commenting" /\ poster.todo # {}
     /\ \/ /\ s <= Len(poster.items)
           /\ comments' = comments \cup {[key |-> k, slot |-> s, url |-> poster.items[s].url]}
           /\ posted' = [posted EXCEPT ![k][s] = "done"]
           /\ UNCHANGED spent
        \/ /\ spent.faults < MaxFaults \/ s > Len(poster.items)
           /\ spent' = IF s > Len(poster.items) THEN spent
                       ELSE [spent EXCEPT !.faults = @ + 1]
           /\ UNCHANGED <<comments, posted>>
     /\ poster' = IF poster.todo = {s} THEN NoSlot ELSE [poster EXCEPT !.todo = @ \ {s}]
     /\ UNCHANGED <<world, files, retries, run, mails, public, seen>>

-----------------------------------------------------------------------------
(* Around them.                                                            *)

NextDay ==
  /\ today < MaxDay /\ today' = today + 1
  /\ UNCHANGED <<dead, files, retries, run, slots, outside, seen, spent>>

LinkDies ==
  /\ \E u \in Mortal \ dead : dead' = dead \cup {u}
  /\ UNCHANGED <<today, files, retries, run, slots, outside, seen, spent>>

(* The server ends: with it the scripts it started and the set of retries.   *)
ServerDies ==
  /\ spent.faults < MaxFaults /\ Spend("faults")
  /\ run' = [a \in Agents |-> Idle] /\ retries' = {}
  /\ UNCHANGED <<world, files, slots, outside, seen>>

PosterDies ==
  /\ poster.at # "idle" /\ spent.faults < MaxFaults /\ Spend("faults")
  /\ poster' = NoSlot
  /\ UNCHANGED <<world, files, retries, run, posted, outside, seen>>

AgentStep(a) ==
  \/ \E p \in Publications : HarvestSearch(a, p)
  \/ HarvestPool(a)
  \/ \E c \in Calls : PublishTooFew(a, c) \/ PublishRejected(a, c) \/ PublishBuilt(a, c)
  \/ ScriptChecks(a) \/ ScriptMails(a) \/ ScriptMailFails(a)
  \/ ScriptRecords(a) \/ ScriptTimesOut(a)

PosterStep ==
  \/ \E p \in Publications, s \in Slots : PostLoad(p, s)
  \/ PostToLinkedIn \/ PostFails \/ SavePosted \/ FinishComment \/ PosterDies

Next == \/ \E a \in Agents : AgentStep(a)
        \/ PosterStep \/ NextDay \/ LinkDies \/ ServerDies

Spec == Init /\ [][Next]_vars

-----------------------------------------------------------------------------
(* Properties.                                                             *)

Items == [text : Texts, url : Links, id : Nat \ {0}, trimmed : BOOLEAN]
RunStates == {"idle", "fetching", "script", "mailing"}

(* Types of the variables; an issue file never has an empty list of items    *)
(* once written, and a call holds a key exactly while it is in progress.     *)
TypeOK ==
  /\ today \in Days /\ dead \subseteq Links
  /\ \A k \in Keys : /\ \A i \in DOMAIN pools[k] :
                          pools[k][i].url \in Links /\ pools[k][i].story \in 1..i
                     /\ \A i \in DOMAIN issues[k] : issues[k][i] \in Items
                     /\ runs[k] \in {"none", "blocked", "rendered", "dry-run", "sent"}
                     /\ runs[k] \in {"rendered", "dry-run", "sent"} => issues[k] # <<>>
  /\ retries \subseteq Keys
  /\ \A a \in Agents : /\ run[a].at \in RunStates /\ run[a].left \subseteq Subscribers
                       /\ (run[a].at = "idle") = (run[a].key = None)
  /\ \A k \in Keys, s \in Slots : posted[k][s] \in {"none", "pending", "done"}
  /\ poster.at \in {"idle", "posting", "saving", "commenting"}

(* The wrong link is unreachable (the header of issue.h): every item of an   *)
(* issue, of a mail or of a comment has a link that was harvested for that   *)
(* publication and day, items name different pages, and the page behind an   *)
(* item's link carries its text, also after links were repaired.             *)
LinksComeFromPools ==
  /\ \A k \in Keys :
       /\ \A it \in ToSet(issues[k]) : it.url \in harvested[k] /\ Grounded(it.text, it.url)
       /\ \A i, j \in DOMAIN issues[k] :
            Page[issues[k][i].url].key = Page[issues[k][j].url].key => i = j
  /\ \A m \in mails : /\ Len(m.items) >= MinItems[m.key[1]]
                      /\ \A it \in ToSet(m.items) : /\ it.url \in harvested[m.key]
                                                    /\ Grounded(it.text, it.url)
  /\ \A c \in comments : c.url \in harvested[c.key]

(* The tool edits a model's prose only after it told the model so (issue.h:  *)
(* one chance to shorten its own prose): an item with trimmed text is in an  *)
(* issue that was rejected for its length before, whatever else was          *)
(* rejected, and across restarts.                                            *)
TrimOnlyAfterWarning ==
  \A k \in Keys : (\E it \in ToSet(issues[k]) : it.trimmed) => k \in warned

(* What the profile's readers are promised.                                 *)
Mailed == {k \in Keys : \A s \in Subscribers : \E m \in mails : m.key = k /\ m.to = s}
Recorded == {e \in Keys \X Slots : posted[e[1]][e[2]] # "none"}
Promise == INSTANCE IssuePromise WITH mailed <- Mailed, recorded <- Recorded

(* Posts follow the mail and no slot on record is posted again: the scripts  *)
(* and files implement IssuePromise, over failed sends, killed scripts,      *)
(* rewritten run records and crashes between a post and its record.          *)
PromiseKept == Promise!Spec

(* post_tweet.py says that the link it posts is one the publisher            *)
(* link-checked: every link comment names a link a script found working.     *)
(* The code does not keep this: see "Known differences" in the README.       *)
CommentLinksChecked == \A c \in comments : c.url \in checked[c.key]
=============================================================================
