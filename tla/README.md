# A verification project for whatsmeow-odoo

whatsmeow-odoo lets an Odoo database send and receive WhatsApp messages. It is
two programs: a Go **gateway** (`gateway/`) that keeps one whatsmeow client per
WhatsApp number and offers an HTTP API, and a family of **Odoo addons**
(`addons/`) that keep sessions, messages, campaigns and Discuss channels in
PostgreSQL, call the gateway over HTTP and receive its events on a webhook.

This directory holds TLA+ models of the parts where the order of events decides
whether the system is right, the TLC configurations that check them, and
theorems about them that TLAPS proves.

    tlc -workers 2 -config MCSendPipeline.cfg MCSendPipeline
    tlapm SendPipelineProofs.tla

All source paths below are relative to `src/`.

## 1. Inventory

Status is that of the model: M modelled, P partly, - not modelled (yet).

| component | state it keeps | operations | M? |
|---|---|---|---|
| **Send pipeline**: `action_send` (`whatsmeow_message.py`), `_call` (`whatsmeow_connection.py`), `handleSend`, `handleSendMedia`, `sendCache` (`gateway/main.go`) | the record's `state` and `wa_message_id`; the gateway's map from idempotency key to outcome | send from the cron or a button, POST, claim / wait / replay / resolve a key, hourly sweep, receipt | M |
| **Webhook delivery**: `webhookSender` (`gateway/webhook.go`) | a bounded channel of jobs, consecutive failures, last attempt, `stopped`, `done` | enqueue, run, deliver (retry, backoff, breaker), stop, health | M |
| **Session registry and manager** (`gateway/registry.go`, `gateway/main.go`) | registry entries in memory and in `registry.json`, the map of running sessions, store files, clients, senders | claim, setWebhook, remove, save, StartSession, restoreExisting, forget, logout, client events | M |
| **Outgoing queue**: `cron_process_outgoing`, pacing and caps (`whatsmeow_message.py`, `whatsmeow_session.py`) | `next_send_at`, failure streak, paused, ramp start, sent dates | one run over all sessions, turns, sleep, savepoint per send, caps, hours, pause on failures, opt-out check | M |
| **Inbound**: `controllers/webhook.py` | inbound rows, unique index on the WhatsApp id | find or insert, merge duplicate, opt-out keyword, deliver, read receipt, reactions | P |
| **Filter and routing rules** (`whatsmeow_match_mixin.py`, `whatsmeow_session_rule.py`, `whatsmeow_route.py`) | none | accept / reject / opt out, whom to route to | M |
| **Media**: `downloadMedia`, `mediaGC`, `action_fetch_media`, `cron_fetch_media` | files on the gateway, `media_state` | download, announce, fetch, store, delete, collect | P |
| **Discuss** (`addons/whatsmeow_discuss`) | one channel per chat, its contact, name and members | find or create, refresh, post; relay and react | P |
| **Marketing** (`addons/whatsmeow_marketing`) | campaigns, ledger of traces, opt-out flags | resolve, materialise, drip, cancel, relaunch, credit a reply, stop and start, convert | M |
| **Broadcast lists and imports** (`addons/whatsmeow_marketing`) | contacts, lists, subscriptions | import, archive, opt out, convert | P |
| **Templates and composer** (`addons/whatsmeow_template`) | a template and its menu entry, an open wizard | open, edit, send, server action, render, resolve | M |
| **Groups** (`whatsmeow_group.py`) | a directory | listing, upsert from a message | M |
| **Session record** (`whatsmeow_session.py`) | status, QR, registered webhook, pause | refresh, resume, re-register, connect, forget | P |
| **Number checks**: `checkCache`, `handleCheck`, `cron_check_numbers` | a cache per number, an hourly budget, the answers on contacts | ask in batches, cache, ration, skip, write, block, forget a changed number's answer | M |
| **Rendering, markup, keys, packaging** | none, or read once | | - |

How they interact:

    people, crons --> whatsmeow.message --POST /send--> handler --> whatsmeow client --> WhatsApp
                          ^    ^                          |guard|            |
                          |    +---------- answer --------+                  | events
                          |                                                  v
                   webhook controller <---- POST (retried) ---- webhookSender (one per session)

Odoo runs every request and cron in one PostgreSQL transaction at REPEATABLE
READ: it sees a snapshot, its writes appear at commit, and a write to a row
that changed since the snapshot rolls the transaction back. The gateway runs
every request on its own goroutine, and each session's events on whatsmeow's.

What is hard, and what must hold:

* **Send pipeline.** A POST cannot be rolled back but its transaction can; the
  answer can come after Odoo stopped listening; the cron and a person can send
  one record at once. It must hold that a key has one sender at a time, that an
  acknowledged message is what every later attempt is answered with, that a row
  that says sent names a message WhatsApp acknowledged, and that it stays so.
* **Webhook delivery.** The channel fills up while Odoo is down; retries hold up
  what is behind them; stop comes at any moment. Events must not overtake one
  another, a dead target must not cost the full backoff per event, recovery must
  be noticed, and a stop must end the goroutine.
* **Registry and manager.** Two requests on one name, a save that fails, a crash
  between the registry and the map. What the map publishes must be complete, no
  client may go on for a session nobody holds, and a saved registration must
  survive.
* **Outgoing queue.** One run is a series of long transactions: it sleeps in
  them, and a send is recorded only if nobody wrote its row or its session's
  meanwhile. Each number must keep its caps, its hours and its spacing, stop
  after its failures, and not starve another. All numbers share one search of the
  200 oldest rows.
* **Inbound.** Copies of a message come twice, at once, empty first; a file is
  fetched later and deleted before the commit that stored it. A message must be
  shown once and whole, and what it asks for must be heard.
* **Marketing.** An audience is resolved days before its last copy leaves.
  Nobody may get a campaign twice or after he said stop, and a small campaign
  must not wait for ever behind a large one or behind one that fails.
* **Number checks.** An answer is remembered twice, and about a number that may
  change meanwhile. WhatsApp may be silent, and a budget used up. Not to know
  must never become a no, and one number must not keep the others from being
  asked about.
* **Composer.** A wizard is open while its template, its groups and its records
  change; a template's menu entry must follow it; an import does all or nothing.

PROJECT.json lists each hazard at its line.

## 2. Modules

| module | what it is |
|---|---|
| `SendOnce` | abstract: at most one delivery per memory of a message |
| `SendPipeline` | the record, the transactions, the handlers and the guard; implements `SendOnce` |
| `MCSendPipeline` | two workers (the cron and a person), one message |
| `SendPipelineProofs` | types, one sender per key, sent is final; the ids that rows, answers and the guard hold, what the gateway remembers, and that it implements `SendOnce` |
| `WebhookSender` | the channel, the goroutine, the breaker, stop |
| `MCWebhookSender` | its instance for TLC |
| `WebhookSenderProofs` | theorems about `WebhookSender` |
| `SessionManager` | registry, file, map, clients, senders, requests, crash and reload |
| `MCSessionManager` | its instance, with the requests and names symmetric |
| `SessionManagerProofs` | types, saved registrations, the cap; what is in the map is whole, what is connected is in the map |
| `OutgoingQueue` | the cron's run, the session rows, and what happens beside it |
| `OutgoingQueueProofs` | types, failure pause, spacing, opt-outs of a run, caps |
| `MCOutgoingQueue` | two numbers, three messages, a search of two; `MCQueueBurst` has no caps |
| `Inbound` | webhook, filter, merge, files, chatter and Discuss delivery |
| `InboundProofs` | types; shown once and whole, stops heard, conversations routed as they arrived |
| `MCInbound` | three messages of two people, two calls at a time |
| `Marketing` | campaigns, ledger, headroom, the queue's send and the gateway's memory in short, replies |
| `MarketingProofs` | types; one copy to a number, a finished campaign, credit and attendance, stops |
| `MCMarketing` | two campaigns over six records, sent from one number |
| `Composer` | template, wizard, server action, groups, broadcast imports |
| `MCComposer` | two orders, three contacts, two groups, two spreadsheets |
| `ComposerProofs` | types; imports read cell by cell, copies as they were meant |
| `NumberChecks` | the cron that asks, the gateway's cache and budget, the answers on contacts |
| `MCNumberChecks` | two sessions, two numbers of which one is silent |
| `NumberChecksProofs` | every no was said by WhatsApp |

A definition preceded by `Mutation:` is a plausible bug in the operation that
follows it; no specification uses it. Replacing the operation by it breaks a
property, which shows that the property depends on the code.

### SendPipeline

| model | code |
|---|---|
| `row[m]` | the committed `whatsmeow.message`: `state`, `wa_message_id`, and `ver`, PostgreSQL's row version |
| `lock[m]` | the row lock a writing transaction holds until it ends |
| `tx[w]` | a worker inside `action_send` (598-645): `begun`, `posting`, `answered`, `written` |
| `hnd[w]` | the handler goroutine serving that POST (main.go 1522-1574, 1878-1966) |
| `guard[m]` | `sendCache.byKey` (main.go 977-1076): absent, open, ok (a result is kept), err (closed, about to be deleted) |
| `wire[m]` | what WhatsApp received, with the id and whether the sender learned it |
| `swept` | keys the hourly sweep dropped after a day; only the properties read it |

`sendCache.resolve` is two actions because it is two steps in the code: it
closes the channel, which releases every waiter, and then takes the mutex to
delete a failed key. An attempt in between replays the failure. A handler
outlives the transaction that gave up on it, but a worker POSTs again only when
its previous handler is done; a second attempt that meets the first still
running is what the second worker is for.

Left out: the answer's wording; a 200 whose body Odoo cannot decode; calls
without an idempotency key, which skip the guard by design; the upload itself,
which may fail but changes nothing; reactions.

### WebhookSender

`queue` is the channel, `offered` the event inside `enqueue` between its look at
`stopped` and its non-blocking send, `phase` / `cur` / `attempt` / `budget` are
the goroutine inside `deliver`, `fails` counts failures up to the threshold, and
`cool` says that the degraded interval since the last attempt is over. `healthy`
and `target` are the environment's: whether Odoo answers 2xx, and whether the
session has a webhook registered that a request can be made of. `last` is the
latest event that has reached Odoo; a POST that counts as failed may have
(`PerhapsReceived`). How long Odoo works on a POST the gateway has given up is
Odoo's affair: the order is that of the POSTs. Left out: the `dropped` counter
and the times that `health()` reports.

### SessionManager

`reg` and `disk` are the registry in memory and in its file; `saveLocked`
replaces the file whole or fails, and what it could not save stays in memory,
as the code has it. `mgr` is the map, `objs` the Session objects (each with the
sender it uses, whether a client is connected, and whether its status is one
`StartSession` leaves alone), `running` the sender goroutines. A request's `pc`
marks where the code lets go of a mutex: the cap is read apart from the claim,
the map is looked at, the client built, published and connected apart from one
another, and forget removes the entry, drops the session from the map, stops its
sender, disconnects its client and deletes the files in five steps. `promise` and
`raced` are history: what a successful save told the caller, and the UIDs that
were forgotten during a start. Left out: the one-off `adoptLegacy`, the media
directory, the API keys (the client half of the registry's key, so a name stands
for a client and a name).

### OutgoingQueue

| model | code |
|---|---|
| `row[m]` | the committed message: `state`, the age of `sent_date`, and who sent it |
| `ses[s]` | the committed session: the wait until `next_send_at`, `consecutive_failures`, `queue_paused`, status, the ramp's days |
| `run` | the local variables of `cron_process_outgoing` (647-706): deadline, queues, due sessions, the message in the savepoint |
| `snap` | the snapshot the run's transaction reads, with the rows written since by others |
| `last`, `streak`, `run.barred` | history, read by properties only |

`Sleep` and `Wake` are `time.sleep`, `TakeTurns` the pass over due sessions,
`Post` what `action_send` does outside the database, `Record` the end of the
savepoint with `_schedule_next_send` and `_commit_progress`, `Conflict` the
savepoint that is rolled back. A date is kept as its age or as the wait until
it. `ses[s].next` in a snapshot ages too, because the code compares it with the
present time. Two counts are taken from the rows by a query, as in the code:
rows sent by hand count. `Limit` is `CRON_MAX_MESSAGES`: a run reads the oldest
rows of all numbers together, so the rows of a number that cannot send keep their
places. Left out: the typing indicator. The warm-up ramp is the sequence `Ramp` of its rounded values:
`daily_cap_base * daily_cap_growth ** days`, of which only what `_check_caps`
guarantees (a growth of 1.0 at least) is assumed: it never falls, and a base of
zero stays zero. TLC has it double, the theorems hold for any.

### Inbound

A call - a webhook request or the fetch of a file - is two steps, its snapshot
and its end: `Result` computes what it does from the snapshot, `Commit` merges
its writes, `Retry` is a serialization failure (Odoo runs a request again, the
cron only in its next run), `Kill` a worker that dies before or after the
outside world saw the call. Unique indexes see committed rows the snapshot does
not show; that is the argument `now` of `OnNew` and `OpenChannel`. A message's
body is the one word the rules look for. `shown` is the list of bubbles made of
a message. Left out: quotes, reactions, edits of a location or a poll.

### Marketing

`trace[c][r]` is the ledger's row of a record in a campaign, together with the
message it became; `State` is `_compute_state`. A request or a batch of the cron
is one step, because two of them that write the same campaign or trace cannot
both commit; the send of a copy is three (`Open`, `Post`, `Record`), because a POST
lies between its snapshot and its record. `Number[r]` is the last ten digits, by
which the code recognises a person everywhere.

| model | code |
|---|---|
| `camp`, `trace`, `pass` | the campaigns, the ledger with the messages, the local variables of `cron_process_marketing` |
| `trace[c][r].known` | the gateway remembers the key of the row's message; `Forget` is a restart or a sweep |
| `send` | the queue's or a person's `action_send`: its snapshot, then the copy it posted. A row deleted under it is `gone`, and the gateway's memory of its key goes on in the snapshot |
| `line` | the session: whether its number is up (connected, within its hours, in reach of the queue's search), its failures in a row, `queue_paused` |
| `people`, `link`, `out` | contacts that exist, conversions, opt-outs |
| `wire`, `deleted`, `forgot`, `asked`, `unheard` | history: copies that left, rows deleted although their copy had left or was leaving, copies the gateway forgot before the row said sent, whose last word was stop, and whom that word made a contact |

An attempt that ends in an error may have left or not, and its key is forgotten
(`sendCache.resolve`); one that times out in Odoo leaves the key known. A batch
that cannot be rendered (`Broken`) raises before anything is queued, is logged,
and comes again in the next pass; the opt-outs it had marked are committed with
the next batch's commit in the code, at once in the model. Left out: what a text
says and its attachments, other sessions' campaigns in the same cron pass (they
share nothing with these). `up` stands for what `OutgoingQueue` has in full.

### Composer

A request is one step. `wiz` keeps the wizard's values from its opening or last
edit; `Surviving` and the template are read when it is sent. A rendered text is
the record it was rendered from and the name it shows, whose markers are inert
(`_escape_markup`) or, in the author's own words, live. A file is a pair, a
report one that names its record. A spreadsheet is a sequence of rows; `"none"`
is an empty cell and a phone column that holds nothing.

### NumberChecks

| model | code |
|---|---|
| `run` | the local variables of `cron_check_numbers` and `_check_numbers`: the session's questions, the batch that is asked, the answers so far |
| `cache`, `spent` | `checkCache`: answers with their age, the window of each session |
| `contact[c]` | the `res.partner`: its number, opt-out, answer and the age of the answer |
| `row[m]` | a message that waits, is blocked or is sent |
| `onWhatsApp`, `connected` | the environment's: who is registered, whose client is connected |
| `noSaid`, `about` | history: when WhatsApp last said no of a number, and the number an answer was about |

`Post` is the request up to the lookup and `Answer` what follows it, because the
answer of WhatsApp lies between. `run.moved` are the contacts that others wrote
since the pass read them; `Abort` is the commit that fails for them. A pass takes
no tick: it lasts seconds, the memories days. `Limit` is the search's, before
anything is filtered; `AskLimit` is what a pass asks of a session. Left out: a
batch the gateway refuses as too large, the contact that is looked up by its
number when a message names none.

## 3. What is checked

| run | result | states |
|---|---|---|
| `send_pipeline` | the pipeline's safety, `WaitersReleased`, and the refinement of `SendOnce` hold | 92 460 |
| `send_restart` | `NeverSentTwice` fails: send, roll back, restart, send again | |
| `webhook_sender` | order, breaker and liveness hold; no deadlock | 24 976 |
| `session_manager` | the map, the clients and the senders agree | 2.05 million |
| `registry` | the cap and the saved registrations hold as stated | 298 000 |
| `outgoing_queue` | caps, pause, spacing, opt-outs and progress hold | 109 000 |
| `queue_burst` | `PacedApart` fails: a status event between send and commit undoes the pacing | |
| `inbound` | once, whole, heard, routed as it should be | 306 000 |
| `marketing` | no copy twice, none after stop, finished is done, credit is attended, campaigns end | 216 000 |
| `marketing_relaunch` | `RelaunchSendsOnce` fails: cancelled under its POST, relaunched | |
| `composer` | copies, menu entry and imports as documented | 174 000 |
| `number_checks` | a no was said by WhatsApp, and every number in reach is asked about | 105 000 |

**`send_pipeline`.** `OneSenderPerKey`, `AckedIsRemembered`, `SentRowOnWire` and
`SentIsFinal` hold with rollbacks, time-outs, receipts in any order, lost
acknowledgements, a sweep and a gateway restart. `ImplementsSendOnce` says it
once more from the caller's side. The promise is bounded by the guard's memory:
one life of the process and one day. `send_restart` shows that the README's
promise, which names no such condition, is not what the code keeps.

**`webhook_sender`.** `ClosesOnceHealthy` is not obvious: while the breaker is
open events are dropped as too soon, and only an event that arrives after the
interval probes the target.

**`session_manager`.** `PublishedIsWhole` and `ClientsAreManaged` hold, except for UIDs
forgotten while they were being started: there the code publishes a session
that is no longer registered (PROJECT.json lists it as a hazard). While a forget
is under way its client may be connected outside of the map, until the step that
cuts it.

**`registry`.** `CapBound` is what the code keeps: the cap, plus one for each
other request in flight. `PromiseKept`: whatever saves fail, a registration that
was answered 200 is in the file with its UID and its webhook until it is forgotten.

**`outgoing_queue`.** `WithinCaps` is about what the queue recorded: the caps are
read before the turns and used after, and people's own sends only lower what is
left. `PacedUnlessLost` says how far the spacing goes: every send that could be
recorded is followed by the pause, and `queue_burst` shows the other kind.
`OptOutBeforeRun` states the limit of the opt-out: who opts out during a run is
seen only after the next commit. `QueueDrains` is per message, for a number that
stays connected and is not paused, and as long as fewer than `Limit` older rows
belong to numbers that are not (`StuckAhead`). Rows of numbers that are merely
slow, closed for the night or at their caps, may fill the search for a time; they
leave in the end. Without the condition the property is false of the code: two
rows of a paused number, in a search of two, hold up the other number for good.

**`inbound`.** `ShownOnce` and `ShownWhole` hold over every order of copies, fetches,
collections and kills. What does not hold, and is therefore not stated: that
every message is shown. The real copy is lost when it arrives while the empty
copy's insert is not committed yet (webhook.py:211-217: the loser's snapshot does
not show the winner's row); the loser of the race for a channel posts nothing and
leaves a second contact; a file that was deleted on the gateway before a rollback
cannot be fetched again. `StopHeard` is for people who were contacts when they
wrote: a stranger's stop opts nobody out, though a contact is made of him.

**`marketing`.** `NobodyTwice` leaves out two kinds of copy. One is a copy whose
row was deleted although it had left or was leaving: `action_cancel` deletes a
queued row while the queue may be posting it, and the relaunch finds no trace of
it; `marketing_relaunch` shows that against what the code's comments promise. The
other is a copy the gateway forgot before its row said sent: an error after
WhatsApp took it, a restart or a sweep between a killed send and the next
(`send_restart` has it in detail). With the key remembered and the row kept, no
order of cancellations, relaunches, kills and sends by hand delivers twice.

`StopHonoured` is about the contact and the broadcast contact a copy is for. It
leaves out a contact with the number of an older one (`Shadowed`) and one whom
that very stop has made (`unheard`): the keyword is applied before the delivery
creates the contact. To both the code sends (section 6).

`CampaignEnds` asks that the number comes back again and
again, that its failures do not leave it paused for ever (only a person lifts a
pause), and that the campaign's own waiting recipients can be rendered; about the
campaign before it, it asks nothing. It needs the slice to be at least one.

**`composer`.** `CopiesAsMeant` is about every request that queues messages, over
everything that may change before it. It leaves out two cases the code treats
otherwise than its documentation would suggest: a template for groups only whose
groups are all archived writes to every record's own number, and a template that
was moved to another model after an automation or a wizard named it renders that
model's records. `ImportAsRead` compares each import with a reading of its file
cell by cell. A refused import changes nothing; an archived duplicate that sorts
first, or an archived list of the name, refuses it.

**`number_checks`.** `NoWasSaid` adds the two memories: an answer the gateway
serves on its last day is dated when Odoo reads it and trusted for the whole of
Odoo's own time, so a no may be twice as old as either. `EveryNumberAsked` holds
of a number in reach (`InReach`): fewer than `Limit` rows of any session wait
before it, and fewer silent numbers of its own than a batch, a pass or an hour
take. Outside of it TLC finds the number starved: the search comes before the
filter, every pass asks the oldest first, silence is not remembered, and an
answer that comes short ends the session's questions. In the program the silent
row leaves with the queue's next send; the starvation lasts as long as the queue
does not send it, because it is paused or outside its hours.

### Bounds

* Two workers: everything the guard does relates one sender to one that comes
  second; a third could only wait as the second does. One message: a key shares
  nothing with another key but the ids, and the proofs hold for any number.
  `MaxSends = 2` is one more than a correct life needs and what a send after a
  forgotten key takes. `MaxCommits = 3` lets error, retry, sent and one receipt
  happen. `MaxRestarts = 1`.
* `QueueSize = 2` with four events overflows; `Attempts = 3` as in the code;
  `BreakerAfter = 2` is the smallest that differs from the first failure. The
  event counter stays at its last value, so events never stop for good.
* `MaxUids = 2` is a name forgotten and claimed again, `MaxObjects = 3` a dead
  session replaced by two racing starts, `MaxCrashes = 1`. That run leaves
  webhook targets out (`Webhooks = {FALSE}`), which the map and the clients never
  look at; the registry run has them, and builds no session: cap and file do not
  depend on sessions.
* `outgoing_queue`: two messages of one number make a turn and a next turn, the
  other number stands for all others. A day of three ticks, an hour of one and a
  budget of two let a run cross midnight, sleep, and end too early to go on;
  hours that pass midnight are the harder case. The caps grow once, from one to
  two. One thing happens beside the runs, which is what a conflict, an opt-out,
  a kill or a resume takes. A search of two of the three rows lets the rows of
  one number fill it. Any number of them, in any combination, is what the
  theorems about this module cover (`QueueDrains` is not among them).
* `inbound`: a text in two copies, a file in two copies, a text whose reading
  depends on whether its sender is known; two calls at a time, three tries of a
  copy, one kill, collection, rename or new contact.
* `marketing`: the first campaign, by filter, meets one whose text cannot be
  rendered, one who is yet to become a contact, and a younger contact with the
  first one's number, who is not on WhatsApp; the second, to listed people, meets
  a number twice and one that is refused, and needs two days. A batch and a cap
  of two and a share of half make slices and shares run out. One cancellation
  with its relaunch, one other event (a stop, a start, a reply, a conversion, a
  kill, a restart of the gateway, a send by hand, ...), a pause after one failure.
  `marketing_relaunch` has the same without the other event. Two events at once are
  for the theorems, which cover any number of them (`CampaignEnds` is not
  among them).
* `composer`: three events beside opening and sending are a template rewritten,
  groups and records gone; two spreadsheets cover rows that name a list, lean on
  the row above or on the wizard, or are not usable.
* `number_checks`: a silent number ahead of one that answers, a batch and a budget
  of two, a search of two rows out of three, memories of one tick each, an hour
  of two; one thing happens beside the passes. Any number of them, and any lengths, is what the theorem covers.

### Fairness

* `SendPipeline`: weak fairness of each handler. Goroutines are scheduled, and
  the upload and `SendMessage` end with the request's context at the latest.
  Odoo is obliged to nothing.
* `WebhookSender`: weak fairness of time passing (`Cools`), of `enqueue` once
  begun, of `deliver` (each attempt has the client's time-out) and of the
  `close` after `stopped`; strong fairness of `Exit`, because Go's select picks
  at random among its ready branches, so a done channel that is ready every time
  is taken eventually. Nothing obliges WhatsApp, Odoo or a user.
* `OutgoingQueue`: weak fairness of the cron's steps and strong fairness of time
  (a run's sleeping and posting let it pass), and for each number strong fairness
  of a run that starts while it may send: the cron fires every minute, hours and
  caps stay open for longer. No person has to act.
* `Marketing`: weak fairness of the marketing cron, of a send once opened and of
  the days; strong fairness of the queue's opening one, as its cron comes every
  minute, more often than a number goes up and down. Nobody has to lift a pause,
  cancel or delete.
* `NumberChecks`: weak fairness of a pass, strong fairness of time, and of a pass
  that starts while a message wants one: the cron comes every quarter of an
  hour, an answer expires after days. Nobody is obliged to send.
* `SessionManager`, `Inbound` and `Composer` have no liveness property and no
  fairness.

`CHECK_DEADLOCK FALSE` appears where the model may really stop: a message that
is sent and read, with every worker idle, or a bound that is used up.

## 4. What is proved

For every value of the constants under the named assumptions (`None` is no
worker; the bounds are naturals; queue size, attempts and threshold are
positive):

| theorem | statement |
|---|---|
| `SendPipelineProofs!TypeCorrect` | `Spec => []TypeOK` |
| `SendPipelineProofs!OneSender` | `Spec => []OneSenderPerKey` |
| `SendPipelineProofs!SentStays` | `Spec => SentIsFinal` |
| `SendPipelineProofs!SentMeansSent` | `Spec => []SentRowOnWire` |
| `SendPipelineProofs!AckRemembered` | `Spec => []AckedIsRemembered` |
| `SendPipelineProofs!Implements` | `Spec => ImplementsSendOnce` |
| `WebhookSenderProofs!TypeCorrect` | `Spec => []TypeOK` |
| `WebhookSenderProofs!BreakerLimits` | `Spec => []BreakerLimitsAttempts` |
| `WebhookSenderProofs!InOrder` | `Spec => DeliveredInOrder` |
| `SessionManagerProofs!TypeCorrect` | `Spec => []TypeOK` |
| `SessionManagerProofs!PromisesKept` | `Spec => []PromiseKept` |
| `SessionManagerProofs!CapHolds` | `Spec => []CapBound` |
| `SessionManagerProofs!WholeSessions` | `Spec => []PublishedIsWhole` |
| `SessionManagerProofs!ManagedClients` | `Spec => []ClientsAreManaged` |
| `OutgoingQueueProofs!TypeCorrect` | `Spec => []TypeOK` |
| `OutgoingQueueProofs!FailuresDoPause` | `Spec => []FailuresPause` |
| `OutgoingQueueProofs!RecordedSendsArePaced` | `Spec => PacedUnlessLost` |
| `OutgoingQueueProofs!OptOutsRespected` | `Spec => OptOutBeforeRun` |
| `OutgoingQueueProofs!CapsAreKept` | `Spec => []WithinCaps` |
| `InboundProofs!TypeCorrect` | `Spec => []TypeOK` |
| `InboundProofs!NeverShownTwice` | `Spec => []ShownOnce` |
| `InboundProofs!NeverShownInPart` | `Spec => []ShownWhole` |
| `InboundProofs!StopIsHeard` | `Spec => []StopHeard` |
| `InboundProofs!RoutedRight` | `Spec => []RoutedAsArrived` |
| `MarketingProofs!TypeCorrect` | `Spec => []TypeOK` |
| `MarketingProofs!OneCopyToANumber` | `Spec => []NobodyTwice` |
| `MarketingProofs!FinishedMeansDone` | `Spec => []FinishedIsDone` |
| `MarketingProofs!CreditMeansAttended` | `Spec => []CreditIsAttended` |
| `MarketingProofs!StopIsHonoured` | `Spec => StopHonoured` |
| `ComposerProofs!TypeCorrect` | `Spec => []TypeOK` |
| `ComposerProofs!ImportsAsRead` | `Spec => ImportAsRead` |
| `ComposerProofs!CopiesMeant` | `Spec => CopiesAsMeant` |
| `NumberChecksProofs!TypeCorrect` | `Spec => []Types`, the types of what a no passes through |
| `NumberChecksProofs!NosWereSaid` | `Spec => []NoWasSaid` |

The argument for the pipeline: `OneSenderPerKey` alone is not inductive, because
`Claim` looks at the guard and not at the other handlers. `GuardInv` ties them:
an open key is held by the handler named in its entry and by no other, a key in
error is about to be deleted by the handler that failed, and a waiter waits for
the holder of its own key. `SentIsFinal` needs `RowInv`: a transaction that has
written holds the lock and saw the row's latest version, and a transaction whose
snapshot is the latest version saw a row that had not left, so a commit never
falls on a row that says sent. The sweep, the restart and the delete of a failed
key are where `GuardInv` is at risk; a key in error cannot be claimed by another
before its delete, because `begin` finds an entry and replays.

What the ids mean needs more. `OdooIds` and `GatewayIds` follow an id from the
acknowledgement through the handler, the guard's entry and the answer to the
row: wherever an id is held, WhatsApp acknowledged it for that message.
`MemoryInv` is the converse: an id acknowledged in this life of the process and
not swept is held, by the guard or by the one handler that is about to store it
(`GuardInv` says there is one). `SentRowOnWire` and `AckedIsRemembered` follow.

`Implements` uses these. Under the map, `memory` is the id the gateway holds of
a message, in the guard's entry or in the handler about to store it. A send is
`Deliver`: its guard, that nothing is remembered, is where `GuardInv` is
needed, since a handler that sends looked at its key long before. `Answer`
needs `OdooIds`: what a transaction was told is an id WhatsApp got. An acknowledgement that is lost is a `Deliver` that is not remembered. The
sweep is `Expire`, a restart `ForgetAll`; an answer read by Odoo is `Answer`,
and a commit, rollback or time-out of the transaction is `Leave`. Everything
else the guard does - open, wait, close, delete a failed key - is a stutter.

For the sender: an event that is queued is later than the one in hand, that one
is not earlier than the last Odoo saw, and the queue is in order; the breaker
cannot open or close under an event in hand except by that event's own outcome.

For the registry: `PromiseKept` is inductive with the types, because every save
writes the whole registry and a failed one leaves in memory an entry with the
same UID and at least the webhook it had. `CapBound` is not: a request that is
past the check registers its name later. `CapInv` counts the names registered
together with the names past the check, and separately the names in the file,
which a crash brings back. A check that succeeds finds at most `Cap - 1` names
registered, and there are no more claims than requests.

For the map, `Safe` adds six invariants to the types. A UID is one name's for
ever, because `minted` only grows (`RegInv`), so what is forgotten is registered
under no name and never will be (`ForgetInv`). An object and the sender it uses,
inherited or not, are of the same UID (`ObjInv`), so the sender that one forget
stops is no other session's. What is in the map or being started is registered or
about to be dropped (`StartInv`): this is where a forget in the middle of a start
breaks the argument, and `ForgetDrop` marks it as raced at that step. `WholeInv`
then keeps the store and the sender of what is in the map and of what a start has
in hand, and `ClientInv` follows a client from `Connect`, which comes after
`Publish`, to the step of a forget that cuts it: from the drop on, the request
holds the object it took from the map (`BeingCut`).

For the queue, from `QueueAssumption` (the lengths and counts are naturals, a day
has a tick, the shortest delay is not above the longest, the ramp never falls), `RunInv` says what a
run is between its steps: turns are held only while it takes them or sends, the
session that sends has given its turn back, a run that ended holds nothing. Each
of the four results has an invariant of its own beside it. All four relate the
rows to the snapshot, because a run decides from the snapshot:

* `BarredInv`: the opt-outs of the run's beginning are in the database and in
  whatever snapshot it has, so a POST that the snapshot allows is to none of
  them.
* `PaceInv`: the age of a recorded send and what is left of its window add up to
  the shortest delay at least; time takes from one what it gives to the other,
  and nobody but `Record` writes a window. The snapshot has the same windows
  (a conflict is what happens to a run whose session was written), and a session
  that holds a turn has its window open.
* `PauseInv`: the streak never runs ahead of the failures in the row, enough
  failures pause, and a session that is not paused in the snapshot has a streak
  below the threshold. The last part is what carries the argument over a person
  who resumes the queue or whose sends reset its count between the snapshot and
  the commit. A turn is worth one failure, since it is given back.
* `CapInv`: what the queue has sent is final, so every snapshot shows it and the
  count a run reads is the queue's own sends at least; the days of a snapshot's
  ramp are never ahead of the session's, so the cap a run reads is the present
  one at most. Hence a session that holds a turn has room for one message more,
  and a turn is one message. Time takes rows out of the hour and midnight all of
  them out of the day, while the ramp only grows (`CapsGrow`, `HoursGrow`).

For inbound messages, from `InboundAssumption` (a private chat is one
person's): a call computes on its snapshot and its result is merged, key by key,
into rows others have changed since. `Sound` says of a database what the properties need and a little more: how
often a row was shown and of what, that what was shown is stored, whose words a
contact was flagged for, and from which chats a contact was made (`from`). The
proof has three parts.

* `Served`: what a call makes of a sound snapshot is sound; one lemma per part of
  the delivery (merge, filter and opt-out, contact, channel, showing).
* `Before`: between a snapshot and the commit nothing that a call relied on is
  undone. A row does not become a stub again, a contact stays one and stays
  flagged, a channel stays open.
* `MergeIsSound`: the rows a call has written that were not changed meanwhile come
  from its result, all others from what is committed; a row that both changed
  makes the commit fail, a row that both created is the winner's. So each key is sound by `Served` or by induction, and
  what ties keys together - a message to its sender's flag, a channel to the
  contact it was routed for - is sound by `Before`.

`Inv` says that every call in flight has a sound snapshot, which is `Before` what
is committed.
`RoutedAsArrived` is where the private chat counts: the contact a delivery
creates is from that very chat, and two people's messages never meet in it.

For campaigns, from `MarketingAssumption`, the types carry most of the argument.
In every ledger at most one row of a number is not skipped: `Resolved` adds the
first row of a number the ledger does not have. The first exists, because a set
of numbers has a least one (well-founded induction on `<`, from the library). And
every contact a row was resolved to, or a broadcast contact is linked to, has the
number of that row. On these stand:

* `Once`: a number that received a copy has a row whose message the gateway
  remembers or that says sent (`Remembers`), or else a row was deleted or a copy
  forgotten; the ledger's one row per number makes that one copy. `Snap` says that
  what an open send has read of a row is still so, or the row was deleted under it
  and that number is among the deleted.
* `Ended`: a campaign is marked as sent only without rows that wait, and no step
  but a deletion or a relaunch makes one wait.
* `Credited`: a credited row's number is that of the conversation the credit was
  given in, by the number or through the contact; members are never taken out.
* `Flagged`: `asked`, the people whose last word was stop, are flagged as contact
  and broadcast contact alike, in the database and in the send's snapshot, but for
  the shadowed and the unheard.

Of two contacts with one number a stop flags only the older (`_find_partner`
takes one); the proof found this case, which the instance for TLC does not reach,
as its younger contact is not on WhatsApp.

For the desk, from `ComposerAssumption` (an owner's contacts start with one
active one for a number, a template has a file once, what cannot be dialled is no
number). The invariant, checked on the instance for TLC before it was proved, is
the types with two parts about an open wizard:

* `WizInv`: its text is the operator's, or it was rendered from the only one of
  its records that can still be sent to (`Speaks`). Inductive it is because
  nothing that was deleted comes back (`Ages`): an id is not given twice, so the
  records that survive only become fewer.
* `Named`: a wizard that says it has a template has one, since the deletion of a
  template tells the wizard.

`ImportsAsRead` is about one step that reads a whole file. `Progress` says what
holds after `k` rows: the numbers seen and the rows that brought them in, the
list that is current, who was touched and how, and that the ids which are free
suffice for the numbers to come (`Fits`). `SkipStep` and `SubscribeStep` keep it
for a row that is passed over and one that is used; if it failed somewhere it
would fail at a first row (`ImportedIs`, by the least number again, as induction
over data is not available). `CopiesMeant` rests on what a request queues for one
recipient of one record (`CopiesAre`): no file occurs in it twice, because the
operator's, the template's and the report are three kinds without repetitions
(`Media`), so as many copies as files are distinct ones and one of them has the
text.

For the checks, from `ChecksAssumption`: `NoWasSaid` speaks of contacts only, and
an answer comes to them from the cache through a pass. `NoInv` follows a no all
the way: in the cache it is as old as what WhatsApp said at least, in a pass it
was said within `CheckTTL`, and on a contact within `CheckTTL` before the contact
was written, which is where the sum of the two comes from. Whatever WhatsApp says
makes `noSaid` younger and keeps the rest; time adds one tick on both sides.

Only model-checked: the liveness properties (`WaitersReleased`,
`ClosesOnceHealthy`, `EveryEventSettles`, `StopEndsDelivery`, `QueueDrains`,
`CampaignEnds`, `EveryNumberAsked`), for fairness is out of the prover's reach
here. Every invariant and action property of the passing runs is a theorem.

## 5. Plan

1. Inbound reactions and quotes; the relay of what operators write in Discuss.
2. Composition: a session record of Odoo with `SessionManager` (status refresh,
   re-registration after a gateway restart), and delivery by `WebhookSender`
   into `Inbound`.

## 6. What is not modelled

Rendering of WhatsApp's protobufs, markup, views and packaging are conversions
or run once, and nothing they do depends on the order of events. API keys are
read once at start. Reactions and the relay from Discuss are in the plan.

Facts about the code that came up and that no property states:

* A message's WhatsApp id is unique over all sessions (`_inbound_wa_id_uniq`,
  `_find_existing`): two of our own numbers in one group share one stored row.
* A keyword that would reject a message is not applied to the real copy of a
  stand-in that was accepted (a test documents it).
* The read receipt is sent before the message that caused it is committed.
* `cron_fetch_media` takes the same rows first every time; rows whose fetch
  raises keep the later ones waiting.
* `action_reset_draft` keeps `scheduled_date`, so the cron starts the campaign
  again by itself.
* A search of 200 rows stands before the turns of the queue and before the filter
  of the number checks: what fills it and does not leave hides every later row, of
  the same number and of others. The docstring of `cron_process_outgoing`
  (whatsmeow_message.py:653) says that a backlog on one number does not stall the
  others, `addons/whatsmeow/README.md:34` the same.
* A number WhatsApp says nothing about ends the session's questions for the pass
  and is asked first in the next one; enough of them keep every later number from
  being asked about, where the comment at whatsmeow_session.py:556 says that the
  next pass takes the rest.
* Every restart of a dead session starts a webhook sender that the dead session's
  own replaces at once (main.go:230-233); its goroutine waits for ever. The
  comment at main.go:204 says that this cannot happen.
* A stranger's `/stop` is applied before its delivery makes a contact of him, so
  the contact is not opted out and the next campaign by filter is sent to it. The
  docstring of `_marketing_targets` (`whatsmeow_marketing`,
  whatsmeow_session.py:68) speaks of everyone the sender is.
* A recipient for whom the text cannot be rendered fails his campaign's whole
  batch, which is logged and tried again in every pass; the campaign stays at
  sending until somebody edits it, cancels it or removes him (`_render_bodies`
  is outside the savepoint that guards the single message).
* `Manager.forget` stops the sender before it disconnects the client: events in
  between, which the model has as steps of their own, are dropped.
* The share of a number's daily allowance is computed without the campaign rows
  already queued (`_session_headroom`): two passes before the queue sends are
  given it twice.
* A contact who changes number while a message to the old one waits is given the
  answer about the old number (`cron_check_numbers` asks about the message's
  number and writes to its contact), so sends to the new one may be blocked.
* Of two contacts with one number a stop from it flags the older one only
  (`_find_partner`), and a campaign that was resolved to the other is sent.
* The window of the lookup budget begins with its first lookup: an hour may see
  the budget twice, and a restart forgets what was spent.
* A reply that arrives between a copy's POST and its commit is credited to no
  campaign.
* `/stop` from a number whose broadcast contact is archived flags nothing, and a
  later import brings the contact back unflagged.
