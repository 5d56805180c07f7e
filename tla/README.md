# wh-panel: TLA+ models, model checking and proofs

wh-panel is a multi-tenant customer-service panel: a Go API (Fiber, PostgreSQL with row level security,
Redis) with a campaign dispatcher, a flow engine, queue routing, webhooks of messaging channels and a
websocket hub, and a React client. Several replicas of the API run against one database; almost all
coordination is done by single SQL statements, and most of what can go wrong lies *between* two of them.
The models of the server therefore take **one database statement, channel operation or external call as one action**.
In the browser everything runs on one thread, and what can go wrong lies between a call and its answer. The
models of the panel take **one event as one action**: an act of the operator, the continuation of an answer, a
timer, a message of a websocket or of a popup.

Contents: [inventory](#1-inventory), [how the parts interact](#2-how-the-parts-interact),
[modules](#3-modules-and-the-code-they-model), [runs](#4-runs-and-bounds), [fairness](#5-fairness),
[proofs](#6-proofs), [findings](#7-findings), [what is not modelled](#8-what-is-not-modelled), [plan](#9-plan).

To check: `tlc -workers 2 -config <cfg> <module>` and `tlapm <module>` in this directory. Which run uses which
cfg, the mutant that each property catches and the source lines of every definition are in `PROJECT.json`.

## 1. Inventory

Paths are relative to `src/`. "Hard" is what a test would hardly reach; "correct" is what should hold.

| component | state and operations | hard | correct when |
|---|---|---|---|
| campaigns (`internal/campaigns`) | rows `campaigns`, `campaign_recipients`; create, import, start, cancel; a dispatcher per replica: tick, advisory lock, claim, send, record | replicas race; crash between claim, call and result; cancel during a send | nobody is sent to twice; "sent" was accepted; a cancelled campaign stops; a started one ends |
| flow definitions (`internal/flows/nodes.go`) | pure: normalise, validate, first node, next node, best flow for a message | dangling, doubled and unlabelled edges; ties | the loops return the edge and the flow they mean; a valid flow has no dead output |
| flow catalog (`internal/flows/handler.go`) | rows `flows`; create, update (read, validate, write, stop runs), delete | two editors; a message between two statements | an active flow can run; one that is off has no runs |
| flow engine (`internal/flows/engine.go`) | rows `flow_executions`; inbound message, manual test, scheduler, node loop, cancellation | reply against timeout, cancel against node, two messages, lost goroutine, flow edited under a run | one bot per conversation, one runner per run, ended runs stay ended, every run ends or waits |
| tenant connections (`pkg/postgres/tenant.go`, `internal/tenant/middleware.go`) | the pool of connections and what each session is set to; bind, use, release, discard | a statement fails half way; everybody waits for a connection | a request runs in its company and nobody else does; no connection is lost |
| realtime hub (`internal/websocket/hub.go`) | a goroutine, two unbuffered channels, a queue of 256 events, two maps of sockets | a browser that stops reading; a handler that returns during a broadcast | events reach the live sockets of their company, only them, and nobody waits for ever |
| inbound intake (`internal/channels/handler.go`) | contact, conversation, message, CRM card of each webhook; starts flow, routing and card goroutines | two first messages at once, webhook retries | one contact per phone, one open conversation and one card per contact |
| queue routing (`internal/queues`) | rules by priority; round robin (Redis or memory counter), least busy, manual | operators come and go; two messages at once; routing against a transfer | everybody has a turn; a transfer is not undone |
| conversations (`internal/conversations`) | messages with a status, unread counter, owner, open/pending/resolved; outbound dispatch in a goroutine | lost dispatch; read against arrival | a message ends as sent or failed; unread counts what was not shown |
| channel setup (`pkg/meta/signup.go`, `pkg/waha`, `internal/channels`) | channels, credentials, sessions; embedded signup in one transaction with an advisory lock | calls to Meta inside a transaction; a retry of half a signup | a channel has one owner and usable credentials |
| contacts (`internal/contacts`) | contacts, tags; delete (cascades), merge | merge against a running conversation; a phone entered twice | a phone has one contact unless somebody entered it by hand |
| crm (`internal/crm`) | pipelines, stages, cards, history; read-then-write handlers | delete against create; move against move | one default pipeline; history agrees with the cards |
| templates (`internal/templates`) | rows per template: draft, pending, approved, rejected; submit, synchronise, status webhook | the webhook overtakes the answer | an approved template stays approved |
| authentication (`internal/auth`) | tokens, a denylist and a login counter in Redis | Redis down; refresh against logout | a revoked token is refused; nobody is locked out for ever |
| companies and users (`internal/tenant/handler.go`) | companies, users; create, deactivate | a session outlives its user | a deactivated user loses access |
| billing (`internal/billing`) | plans; the checker of limits is called by no handler | none | (nothing to state) |
| event publisher (`internal/integrations`) | webhooks of the customer; one goroutine per event, 10 s, no retry | none: fire and forget | (nothing promised) |
| statistics, dashboard, reports | read-only SQL | none | (queries) |
| web session and API client (`web/src/api/client.js`, `context`, `App.jsx`) | tokens in localStorage, the session check, requests that refresh after a 401, a websocket with a reconnect timer | refreshes race; logout while calls are out; timers of a layout that is gone | a logout holds; the websocket comes back |
| conversations page (`pages/Conversations.jsx`) | list, thread, composer, status, owner, tags | GET, POST and websocket bring the same messages in any order, after another thread was opened | a thread holds its own messages, each once |
| flow editor (`pages/Flows.jsx`, `pages/flows`) | a canvas with its own catalogue and validation; saves, tests, toggles | edits and saves overlap; two catalogues disagree | what is drawn is what the engine reads; "saved" is true; both validations agree |
| campaigns page (`pages/Campaigns.jsx`) | list with a poll, row buttons, a wizard that sends three calls | one of the three fails or is lost and the operator submits again | a submission sends once, with its audience; the list follows a send |
| templates page (`pages/Templates.jsx`) | list, synchronisation, builder with an upload | the form changes under an upload | what is submitted has the sample of its header |
| channels page, embedded signup (`pages/Channels.jsx`, `api/metaSignup.js`, `components/MetaEmbeddedSignupButton.jsx`) | sessions with a QR poll; attempts with timers and messages of a popup | answers and timers of an earlier attempt | only the attempt in progress has not ended, and it ends; the QR code of the session being scanned |
| crm page (`pages/CRM.jsx`) | board, pipelines, five forms, dragged cards | answers of another pipeline or form | an answer ends its own form; the board at rest is the server's |
| contacts page (`pages/Contacts.jsx`) | delayed search, pages, four forms | an older search answers last | an answer ends its own form; the list at rest is the one searched for |
| Meta review page (`pages/MetaReview.jsx`) | a guided tour of the other screens with sample data | none of its own | (planned) |
| other pages (queues, integrations, reports, dashboard, billing, legal, layout) | one read, forms of one write | none of their own | (views) |
| widget, scripts (`web/widget.js`, `scripts`) | posts what a visitor types; compares route lists at build time | none: no retry | (nothing promised) |
| provider clients (`pkg/meta`, `pkg/ai`, `pkg/crypto`, `pkg/sandbox`) | HTTP calls and pure functions | outcomes only | choices of the models that call them |
| process and schema (`cmd/api`, `migrations`) | starts goroutines and routes; constraints | - | enters through the models above |

## 2. How the parts interact

- A webhook of a channel stores the message (`ensureContactAndConversation`) and starts three goroutines: the
  flow engine (`HandleInbound`), the router and the CRM card. They share rows, not memory.
- An attendant's reply or `UpdateStatus` cancels the flow runs of the conversation. `UpdateFlow` and
  `DeleteFlow` cancel or cascade to the runs of a flow. A flow's `transfer_queue` node writes the owner and the
  queue of the conversation, which an attendant and the router write as well.
- Every logged-in request holds one database connection for its whole handler. At the end of many
  handlers it puts an event into the hub's queue, which may block. So a browser that does not read can hold
  up the hub, the queue, the requests, their connections, and with them everybody who needs one.
- Deleting a contact cascades to the recipients of campaigns, conversations and cards.
- Row level security reads a session setting; an unset one means "unrestricted", which webhooks and workers rely
  on (migration 000016). A connection that goes back to the pool must therefore carry no setting.
- In the browser, `App` shows a form, or a layout with one page at a time. The pages share nothing but the API client and
  the websocket of the layout: a page that is left forgets its state, but the calls it made go on, and so do the
  chains of calls it began. A page and the server meet in calls whose answers come in any order, or never.
- The editor of flows writes definitions that the engine reads: `catalog.js` repeats the node types, the migration
  of old types and the validation of `nodes.go`.

## 3. Modules and the code they model

| module | models |
|---|---|
| `AtMostOnceDelivery` | abstract: what a campaign promises each recipient, and the inbox each reply |
| `CampaignDispatch` | `internal/campaigns/handler.go` (create, import, start, cancel) and `worker.go` (the dispatcher), plus `DeleteContact` |
| `MCCampaignDispatch`, `CampaignDispatchProofs` | its instances, its proofs |
| `FlowGraph` | the pure operators of `nodes.go` |
| `FlowCanvas` | the pure half of the editor, `catalog.js`; extends `FlowGraph` |
| `FlowReading` | the loops of `NextNode`, `HandleInbound` and `validateFlow` turn by turn; the engine's reading of a definition against the editor's; extends `FlowCanvas` |
| `MCFlowReading`, `FlowReadingProofs` | its instance, its proofs |
| `FlowGraphProofs` | what validation guarantees, and what an edit does to a drawing, for every definition |
| `FlowCatalog` | the flow rows and the requests that edit them; extends `FlowGraph` |
| `ConversationSlot` | abstract: what the engine promises a conversation |
| `FlowEngine` | `engine.go` on top of `FlowCatalog`: messages, tests, scheduler, node loop, attendants, editors |
| `MCFlowEngine`, `FlowEngineProofs` | its instances, its proofs |
| `Tenants` | the companies, shared by the two modules below |
| `TenantPool` | `pkg/postgres/tenant.go`, the middleware and the statements of jobs |
| `RealtimeHub` | `internal/websocket/hub.go` |
| `Server` | the composition of both: requests and jobs publish events while requests hold their connection |
| `MCServer`, `ServerProofs` | its instance, its proofs |
| `Intake` | the message of a webhook (`channels/handler.go`), `conversations/handler.go` and the writes of `contacts/handler.go` |
| `MCIntake`, `IntakeProofs` | its instance, its proofs |
| `Positions` | lists as sequences over a set of positions (`ORDER BY`, `filter`), for `InboxPage` and `FlowCanvas` |
| `PanelCalls` | the calls a page has in flight, as `api/client.js` shows them to it |
| `WebSession` | `client.js`, `AuthContext`, `WebSocketContext`, `App`, `Login`, `Register` |
| `MetaSignup` | `metaSignup.js` and `MetaEmbeddedSignupButton.jsx` |
| `InboxPage` | `Conversations.jsx` |
| `FlowEditorPage` | `Flows.jsx` and `FlowEditor.jsx` around one flow; extends `FlowCanvas` |
| `CampaignsPage`, `TemplatesPage`, `ChannelsPage`, `CrmPage`, `ContactsPage` | the pages of these names |
| `WebPanel` | the composition of the nine session and page modules above: a behaviour is about one part of the panel |
| `MCWebPanel`, `WebPanelProofs` | its instance; the proofs about calls in general, the session, the signup, the forms, the thread, and what the pages of templates, channels, contacts and deals show |
| `DraftPagesProofs` | the proofs about the wizard and the flow editor |

**Campaigns.** A `campaigns` row is `camp[c]`, a recipient row `rcpt[r]`. A dispatcher is a program counter
named after what it has done (`locked`, `clear`, `configured`, `throttled`, `checked`, `sending`, `recording`):
`Tick` is the query of `StartStreamWorker`, `TryLock` the `pg_try_advisory_xact_lock`, `CheckInFlight` the query for
`processing` rows, `ReadConfig` the channel and template query with its failure path, `PickRecipient` the
`FOR UPDATE ... SKIP LOCKED` query with its completion path, `RecheckStatus` the read after the rate-limit pause,
`ClaimRecipient` the claim and its commit, `SendTemplate` the call to Meta (refused, accepted, accepted with the answer
lost) and `RecordOutcome` the last UPDATE. `Locked` and `RowLocked` are derived from the counters, since PostgreSQL drops both
locks with the transaction. Three history variables (`accepted`, `lateSends`, `stray`) only observe.

**Flow definitions.** A definition is a sequence of nodes and one of edges, as the canvas stores them; a node pointer
is a position, `nil` is 0. The data of a node is the set of readers that are content with it (`complete`): the engine and the browser parse
addresses and amounts differently, so one may accept what the other refuses. The output of an edge is its class as the engine's `edgeHandle`
finds it (in `sourceHandle`, else in `label`, else in `data.label`, whatever the case), with `exact` for whether it stands in `sourceHandle`,
spelled as in the catalogue, which is the only place `toCanvas` looks. The data of the trigger is kept, since matching depends on it. `FlowGraph` and `FlowCanvas` define the
three searches of the code as lookups (`NextNode`, `BestFlow`, the steps `validateFlow` warns of), which is what the engine, the catalog
and the editor use. `FlowReading` runs the loops themselves: a state is one input, the place the loop is at and what it has
found; an action is one turn (`FollowEdge`, `MatchFlow`, `SearchOn`, which takes any member of the queue where the code takes the first).

**Flow engine.** A run is `row[x]` (a `flow_executions` row: status, conversation, flow, `current_node_id`, whether
`resume_at` is set). A goroutine is a record `thread[t]` with its next statement: `claim`, `busy`, `owner`, `match`, `cancel`,
`insert` on the way in, `load` when it wakes a run, `loop`, `act`, `save` in `runFrom`. Time is abstracted to "an armed wait may be
due". Effects of nodes are their outcomes; only `transfer_queue` writes something the engine itself reads (the owner).
`late` counts nodes that took effect after their run had ended, `answers` remembers whether a question was open
when a message came. `FlowCatalog` gives the editors: `ReadCurrent`, `WriteFlow` and (here) `StopRuns` are the three
statements of `UpdateFlow`.

**Server.** A slot of the pool is closed, idle or busy, with the session settings `company` and `role` and
whether the server at the other end is gone. A request goes `reserve`, `company`, `role` (BindTenant), `serve`, `notify`,
`reset`, `clear` (Release); any statement may fail before or after it took effect, and the connection is
then discarded. A job takes a connection per statement. The hub is a state machine of its own (`select`, `write`) with a
snapshot `todo` and a list `failed`; the unbuffered channels are rendezvous (`Register`, `Unregister`), so a handler waits until
the hub selects. `owed` is history: events of its company a live socket has not got. Faults are a budget that is spent.

**Intake.** A handler of an inbound message is `hook[m]`, with the statement that comes next (`contact`, `enter`, `conversation`,
`open`, `store`, `count`, then `card`, `look` and `deal` for the goroutine of `ensureCRMCard`: it chooses the default pipeline, looks for
a card of the contact in it, and adds one). `main` is the pipeline new cards go to, which somebody may change at any moment
(`ChangePipeline`: another default, a new one, a deleted one). Rows are named after the request
that inserts them, which draws a new UUID: the contact, the conversation and the card that message `m` creates are all `m`.
Errors are what the code makes of them: a failed look for the contact drops the message (the webhook answers "received"),
a failed look for a conversation or a card counts as "none", and the errors of the INSERTs are not looked at, so the handler goes on with
an identifier that no row has. An attendant's `desk[d]` is the two statements of `GetMessages` or of `CreateConversation`; a reply
is `send[m]`: stored as pending, dispatched by a goroutine (`LookUpChannel`, `CallProvider`), recorded by its deferred UPDATE.
`overlaps` and `missed` are history: that somebody inserted, or brought back, a row while another one stood between look and
insert, that cards had been made for, or were about to be made for, another pipeline, and that a reset of the counter passed over a message nobody was shown.

**Panel.** Every page is three things: its React state (one record, `inbox`, `editor`, `wizard`, ...), its calls in
flight, and as much of the server as the page can tell apart. A call is sent, handled by the server in one step
(`...Server`: it takes effect and answers, takes effect and its answer is lost, or is refused) and answered
(`...Arrives`, `...Answered`: the continuation after the `await`, which reads the state of *that* moment where the code
uses a ref or a state setter, and what it captured, kept in the call's `about`, where the code uses a closure). Two
answers come in either order. A page that unmounts keeps its calls. The parts:

- *Session*: a request holds the token it was sent with, may be refused, and then refreshes and repeats (`RefreshStarts`,
  `RefreshEnds`, whose `setTokens` runs whatever happened meanwhile; the answer holds an access token only, so the refresh token
  stays the one that was there). `authed` changes when `AuthProvider` renders and
  not with localStorage. `out`, `since` and `late` are history: that a logout was the last word, the first form that opened after it, and
  whether the answer to an earlier form has signed in since. `socket.left` holds what earlier layouts left: a socket that closes, a timer, an open socket.
- *Signup*: an attempt collects a code and a number in either order, posts both once, and ends; its timers, listeners and
  the answer outlive the button that started it. `signupInProgress` is a global of `metaSignup.js`.
- *Conversations*: a message in the thread remembers whether it came from the GET, a POST or the websocket (`via`).
- *Flow editor*: a canvas in the records of `FlowGraph`, the flags of the toolbar (`dirty`, `saving`, `saved`), and the row.
- *Campaigns*: the wizard's chain create, import, start is one call at a time, each sent by the answer to the one before.
- *Templates, channels, crm, contacts*: list, dialog and forms; `about.form` is the form that a call belongs to.

Some pages have races that their authors live with: an older answer may overwrite a newer one, an upload may end under
another header, the answer to a form may come after a logout. A property that simply failed on them would say little about the rest, so a history flag remembers
the condition (`muddled`, `behind`, `crossed`, `late`, `unheard`: calls overlapped, one failed, the form moved on) and the
property holds elsewhere; section 7 lists what the flags set aside.

Definitions whose names end in an underscore and a word (`Locked_Never`, `Write_Retry`, ...) are deliberate bugs: each
shows that the property named in `PROJECT.json` notices it. No specification uses them.

## 4. Runs and bounds

| run | states | instance | shows |
|---|---|---|---|
| `campaign_dispatch` | 550,914 | 2 replicas, 1 campaign, 3 recipients (one with an unusable phone), 1 fault, 1 deleted contact | the safety properties, `ImplementsDelivery`, and `StartedCampaignEnds` |
| `flow_reading` | 517,308 | every definition of 2 nodes and up to 3 edges; every list of up to 3 flows; stored flows of 3 steps, two of which may share an identifier, and up to 2 edges, named in `sourceHandle` or by a label, with data that one reader, both or neither is content with | the loops return the lookups the other modules use; valid flows have no dead output; opening and saving in the editor keeps a flow whose outputs are named where it looks, and both validations agree but for the data of steps and repeated identifiers |
| `flow_labels` | violation | a condition whose two branches are named in `sourceHandle` or by a label | `LegacyKeepsMeaning` (finding 1) |
| `flow_safety` | 485,581 | 1 conversation, 2 message goroutines, 1 timer goroutine, 2 runs, 1 fault | one bot, one runner, no resurrection, `ImplementsSlot` (which allows one late node) |
| `flow_progress` | 18,070 | a flow with delay, cycle, AI and webhook; 1 editor, 2 definitions, 1 run, step limit 2, no fault | runs end, deadlines are left, no orphan without a fault |
| `flow_activation` | violation | 2 editors | `ActiveFlowsAreValid` (finding 2) |
| `flow_reply` | violation | 2 message goroutines | `RepliesAreHeard` (finding 3) |
| `flow_turnoff` | violation | 1 editor | `OffFlowsHaveNoWaitingRuns` (finding 4) |
| `server` | 51,570 | 1 connection, queue of 1, 2 companies, 5 workloads of up to 3 actors, up to 2 faults | isolation, accounting, completeness, everybody is served |
| `intake` | 654,768 | 1 phone, 2 inbound messages, 1 reply, 1 attendant, 1 contact and 1 conversation by hand, 2 pipelines, up to 1 fault and 2 changes by hand, in 5 populations | duplicates have a cause, messages are noticed, replies are dispatched at most once (`ImplementsDelivery`) and settle |
| `web_safety` | 1,175,628 | the nine parts of the panel in turn; 2 calls in flight, 3 acts (4 in the session), 1 lost call, 1 expired token, 2 attempts, 2 of everything a page can confuse | `LogoutHolds`, `ThreadShowsItsConversation`, `CanvasStaysLegible`, `SavedLabelIsTrue`, `WizardSendsOnce`, `FormsKeepTheirAnswers`, `PagesShowWhatWasAsked` |
| `web_progress` | 362,558 | session, signup, campaigns, channels with the same bounds, 3 acts in the session | `PanelCatchesUp`: websocket, signup and its button, the campaign list, the scanner |

Why the bounds are enough. A race needs two actors and one thing they share: the instances have two dispatchers per campaign,
two messages per conversation plus the scheduler, two requests per connection. A third dispatcher or message behaves like
one of the two (they are symmetric). Three recipients let one be claimed, one settled and one queued
at once. One fault already separates every pair of consecutive statements by a crash, and the safety theorems hold for
any number of faults. `MaxSteps` 3 and 2 stand for 60: the limit is reached in the middle of a flow, and waits start the count again.
A pool of one and a queue of one reach both limits with every workload (50 connections and
256 events in the code), and make "everybody waits for everybody" as easy as it can be. `Workloads`
lists who shows up together, so that one run covers five small populations; `Crowds` does the same for `intake`, where two
messages of one phone already meet at every look and insert, with or without an attendant, a fault or a contact that changes. `Execs` bounds
how many runs a behaviour starts; when they are used up, `InsertRun` can only fail as it does on a conflict, a
faulted statement or a vanished flow, and a goroutine at `insert` then rests there.

In the browser a race needs two calls and one piece of state, or one call and an operator who moves on: two calls in
flight, three acts (begin, move on, come back; four in the session, where a form is submitted, another one signs in and out, and the
first is answered), two conversations, channels, sessions, pipelines or searches to confuse,
and one call that fails or is lost. `MCBudgets` and `MCShifts` split the long visits into populations (much drawing
and no save; two saves in one visit; one save and two visits; writing, handling, tagging) the way `Workloads` does.
An operator who has used up `MaxActs` does nothing more, and a page that was left stands still: so the two runs of the
panel set `CHECK_DEADLOCK FALSE`, and so does `intake`, where a handler that has ended never runs again and a crowd may have used up its bounds,
and `flow_reading`, where a behaviour is over when its input has been read.
All other runs check deadlock.

Symmetry (runs and message goroutines) is used in `flow_safety` only, which checks no liveness.

## 5. Fairness

- *Dispatchers*: `WF(WorkerStep(w))`. A dispatcher is a loop around a ticker that never returns by itself; a statement or a
  call ends (the client of Meta has a timeout of 15 s). Handlers and operators owe nothing.
- *Flow goroutines*: `WF` of the next statement of each goroutine, and of waking a due run: the scheduler ticks
  for ever and selects the due rows, 25 at a time, oldest first. Nobody is obliged to write, edit or assign.
- *Requests, jobs and websocket handlers*: `SF` of each one's own step. `database/sql` serves those who wait for a connection
  in the order they came, Go's channels do the same, and a `select` picks among its ready cases at random; so nobody is
  overtaken for ever although what it waits for comes and goes (WF would not say that). An actor has one possible
  step at a time.
- *Inbound messages and replies*: `WF` of the next statement of each handler and of each dispatch. Statements end, and the
  clients of Meta and WAHA have timeouts of 15 s. Nobody owes a message, a reply or a look at a conversation.
- *Hub*: `SF` of `Dequeue` (a ready case of a random select), `WF` of writing. There is no write deadline in `hub.go`: that a
  write to a browser that has stopped reading ends is TCP's doing (its retransmissions give up), and it is the assumption
  everything else hangs on; the mutant `Write_Retry` shows that without it requests that never touch a websocket wait for ever.
- *Browser*: `WF` of timers that are armed (reconnect after 3 s, the polls every 5 s and 4 s, the timers of a signup), of a
  socket that opens or is refused, of the server's answer and of the continuation of an answer. The event loop runs
  what is due, and `fetch` ends. The operator, the contacts, phones and Meta's popup owe nothing. The reconnect timer
  reads the token but does not refresh it: with an expired token the socket comes back only once a request has
  refreshed it, which `SocketComesBack` says.

## 6. Proofs

All theorems hold for every value of the constants that satisfies the named assumptions (`CampaignAssumption`,
`ReadingAssumption`, `CatalogAssumption`, `EngineAssumption`, `TenantsAssumption`, `PoolConstants`, `IntakeAssumption`, `HubConstants`, `WorkloadsAssumption`, and for
the panel `PanelCallsAssumption`, `WebPanelAssumption` and one per page module).
These say that the null values are outside their sets, that bounds are natural numbers, and that what the
database holds at the start is well formed. TLC evaluates them on every run.

**CampaignDispatchProofs.** `IndInv` is `TypeOK`, what a dispatcher *knows* at each statement (`WorkerKnows`: for
instance, between the in-flight check and the commit no recipient of its campaign is `processing`, and while it sends, its
recipient was not sent to), `Exclusive` (one transaction per campaign, no recipient held twice), and what a recipient's status
tells about the messages it got. `AtMostOnce` alone is not inductive: a dispatcher at `sending` could send to a recipient
that already has a copy; that it cannot depends on the claim, the claim on the lock, and the lock on `Exclusive`.
Theorems: `TypeCorrect`, `SendsAtMostOnce`, `SentMeansAccepted`, `ClaimsAreExclusive`, `CompletionMeansDrained`,
`DispatcherImplementsDelivery` (every step of the dispatcher is a step of `AtMostOnceDelivery` or leaves it unchanged), and
`EndedCampaignsStayEnded` (an action property). Two more need `CauseInv` beside it: `ClaimIsHeld` (without a fault a claimed
recipient is the one some dispatcher has picked, and that one is at `sending` or `recording`) gives `OrphanedClaimsComeFromFaults`;
`LateSendIsLast` (once a message went out for a cancelled campaign no dispatcher is past its second look at the status,
and none can come there again) gives `CancelStopsAllButOne`. The latter holds while no contact is deleted: `DeleteContact` takes a
recipient away from under its claim, and then a second dispatcher may pass the in-flight check.

**FlowGraphProofs.** `ValidFlowLeadsSomewhere`: a definition of any size that `Validate` accepts has a first node, and
the outputs it demands lead to a node. The other half are the lemmas about `Positions` and `FlowCanvas` that the editor's
proof rests on: a filtered list has the chosen members, each one once and in order (`AtSelects`); adding a step or an edge and keeping
a part of either leaves a drawing legible (`StepAdded`, `EdgeAdded`, `EdgesKept`, `StepsKept`, `StepsFilled`); a legible drawing that is
saved and opened again is the same drawing (`SavedIsDrawnAgain`).

**FlowReadingProofs.** The lookups say what is found, the loops how; that they agree for every list is an induction over the list, and
`ReadingInv` is its hypothesis: what a loop has found is what the part of the list before its place leads to (`WalkInv`, `ArrivalInv`),
and the steps reached are all in every set that holds the start and is closed under edges, while an edge from a step that has left
the queue leads to a step reached (`SearchInv`). Theorems: `LoopsComeAsFar` (the invariant), `LoopsAreTheLookups`,
`ActivatedFlowsLeadSomewhere`, `EditorKeepsMeaning` and `BrowserValidatesLikeTheEngine`. The last two say of every stored flow, of
any size, what section 4 checks for three steps. `EditorKeepsMeaning` is for flows whose outputs are named in `sourceHandle` as the catalogue
spells them (`Spelled`; finding 1 is about the others), and `BrowserValidatesLikeTheEngine` speaks of steps, edges and reachability, not of
what either reader makes of a step's data. `EditorKeepsMeaning` compares the edges that leave a step by one output before and after:
`toCanvas` drops the edges without two ends and writes on each the output it draws it at, so these are the same edges (`FollowAlike`), and behind an added
start there is one (`UnstartedKeepsMeaning`). `BrowserValidatesLikeTheEngine` is for steps with identifiers of their own (section 7); that a run stays
among the steps without a warning is the closure of `SearchInv`. `LegibleFlowsAreWellDrawn` is about `toCanvas` alone: of a stored flow that
can be read one way only, by both readers, with one start at most and nothing leading to it, it makes a sound drawing, which is what the editor's page assumes. `ReadingAssumption` says that `newId` draws an identifier that no step has.

**FlowEngineProofs.** `IndInv` is `TypeOK`, `Known` (what each goroutine and each edit knows at its statement: that a runner has a
run, that its node exists in the definition *it loaded*, whatever the editors saved since) and `Safe` (rows, one runner, one bot, and
`CheckedIsClean`: a node that passed the cancellation check has no late node behind it, which makes "at most one late node"
inductive). Theorems: `EngineTypeCorrect`, `OneBot`, `OneRunner`, `OneLateNode`, `EndedStayEnded` (an action property),
`EngineImplementsSlot`, and `OrphanedRunsComeFromFaults`: with `IndInv` known, `OrphansComeFromFaults` is inductive by itself, since every
exit of `runFrom` writes the row before the goroutine forgets its run, and a row becomes `running` only with a runner.

**ServerProofs.** `Inv` is `PoolInv` and `HubInv`. `PoolInv` adds to isolation and accounting: `ActorShape` (who is past
the reservation holds a connection, who is not holds none), `Session` (what the session of a held connection is set to at each
statement of BindTenant and Release) and `RestingIsClean` (an idle connection has no company and no role); without the last one the next
holder's isolation does not follow. `HubInv` adds `RoomsAreLive` (whoever is in a room has a handler that has not returned, and
everybody who reads with a working socket is in the room) and `SnapshotIsCurrent` (the hub's snapshot is part of the room: handlers cannot leave
while it writes, since unregistering is a rendezvous). Theorems: `Invariance`, `ServerTypeCorrect`, `TenantIsolation`, `Accounting`,
`HubIsolation`, `HubCompleteness`.

**IntakeProofs.** `IndInv` is `TypeOK`, what each row says about the request it is named after (`RowsOfRequests`), what a handler
and a dispatch know at their statement (`HandlersKnow`, `DispatchesKnow`), and three invariants of one shape, `ContactsApart`,
`ConversationsApart` and `CardsApart`: while no overlap is on record, there is still no such row wherever a handler stands
between its look and its insert. Cards are apart per pipeline only (`FindCard` looks in one), so without a change of `main` on record all cards,
and all handlers about to add one, are of the pipeline that `main` still is. `DuplicatesHaveACause` alone says nothing of those about to insert, and so is not inductive.
`InboundIsNoticed` needs the other half: a message past `count` is counted since the last reset, and the reset that takes its count away
shows it or puts it in `missed`. Theorems: `IntakeTypeCorrect`, `DuplicatesAlwaysHaveACause`, `EveryMessageIsNoticed`,
`RepliesImplementDelivery` (a message deleted under its dispatch included).

**WebPanelProofs.** A step of the panel is a step of one part, so every part has an inductive invariant of its own.
`LogoutHolds` says who may come back after a logout: somebody whose form opened since, and,
as `late` records, the answer to a form submitted before. It follows from `SessionInv`, which adds `CheckIsAlone` (the session check is the only request of its kind, and nobody
has signed in or out since it was sent), without which a check answered after a logout could bring the user back.
`FormsKeepTheirAnswers` follows from `SignupInv`, `CrmInv` and `PeopleInv`. For the two pages with forms the argument is
`Held`: a call that belongs to a form is the only one that does, its form is open and submitting; the acts that open,
close or submit a form are guarded by `submitting`, and the answer that clears it is the last of its chain. For the
signup it is that an attempt that has not ended is the one `signupInProgress` names, and that an attempt which posts
ends its collecting in the same step. `ThreadShowsItsConversation` speaks of what is on the screen; its inductive invariant,
`InboxInv`, of what can still get there: the answer to the GET of a thread is a thread of the conversation it was asked for
(`CallsAreTrue`), a websocket event names the conversation of its message (`EventsAreTrue`), and messages stay in their conversation
(`MessagesStay`). `PagesShowWhatWasAsked` has one inductive invariant per page. `BoardInv` and `ListInv`: unless
the page is muddled, either nothing is in flight and what is shown is what the server has, or the one call in flight is a
read of what is selected, or a write that such a read will follow (`BoardIsComing`, `ListIsComing`); the property speaks only of the moment when
nothing is in flight, which no step can be shown to keep. For the card in the dialog `CardFollows` adds that an answer on its way
closes the dialog or moves the card to where the server has put it. `ScanInv`: all that is asked for is the session of the scan.
`SampleInv`: an upload on its way is of the kind of header that is shown or the form is marked, and what is on its way to Meta has its sample.
Theorems: `LogoutIsHeld`, `FormsAreHeld`, `ThreadIsOfItsConversation`, `PagesShowTheirOwn`.

**DraftPagesProofs.** `WizardSendsOnceOnly`: `WizardInv` says that the chain of an opening is alone and carries its own campaign (`Carries`),
that the wizard waits for the chain that is its own and is at another opening while one it left goes on (`Visits`), and that nothing can
start a second campaign of an opening that has started one (`StartedOnce`: a chain of the opening only waits for its last answer, and a wizard
still at it waits with it). Without `StartedOnce` the two starts could be one step apart.
`SavedIsSaved`: `EditorInv` follows the saves on their way; unless one was overtaken every save in flight is of the drawing
on the screen, and of one that was accepted the server has it. Saving runs from one save to the next when the flow is turned on or tested, so
a drawing may be marked saved while the server has another one and a single save is still to come (`SavedAgain`).
`CanvasIsLegible`: `DrawnInv` says that the list, the server, and every save and list on its way hold definitions that can be drawn
(`Drawable`), that the drawing is legal and its selection a step of it (`Edited`); the lemmas of `FlowGraphProofs` carry it
over each edit and over saving and opening. It assumes of the definitions a flow may have when the page opens (`StoredDefs`) that
`toCanvas` draws each of them legibly, with one start (`WellDrawn`): those the editor itself has written are (`SavedIsDrawable`, proved there), so is every
legible flow whose outputs are named where the browser looks (`LegibleFlowsAreWellDrawn`), and the starter definition (TLC evaluates it on every run); a definition written by hand through
the API, with two edges at one output or an edge to its start, need not be. The two theorems meet: what `CanvasStaysLegible` says of every
drawing that may be saved is what `LegibleFlowsAreWellDrawn` asks of a flow that is opened.

`PanelTypeCorrect`: the shapes of the pages' invariants (`IsPage`, `IsBuilder`, `IsCrmDb`, ...) say little of what a call brings back, and the
type of a page is what its answers leave in it; `TypesInv` adds, part by part, what each call on its way asks and may be answered
(`ContactsTyped`, `CrmTyped`, `InboxTyped`, `EditorTyped`) and, for the session, that the tokens and the socket are of their kind after every
step (`SessionTyped`). Two of them are more than types: a change of the contacts is one the page has asked for (`SavesAreCounted`, so that the
server's count stays within its bound), and the editor's statuses rest on `DrawnInv`, since what a save stores is what is drawn. `EditorAssumption`
says that the identifiers `newId` gives in the model are among `Names`.

Only model-checked: liveness (`StartedCampaignEnds`, `RunsMakeProgress`, `EverybodyIsServed`, `RepliesSettle`, `PanelCatchesUp`)
and anything with ENABLED, which the prover does not handle. Every invariant and action property that a passing run checks is stated by a theorem.

## 7. Findings

Each is a run that TLC is expected to refute, with the sentence of the repository it contradicts.

1. `flow_labels`: `toCanvas` "Converts a stored definition (canonical or legacy)" (`web/src/pages/flows/catalog.js:380`), and of an edge
   named by its label the engine's test says "older editors used labels" (`internal/flows/nodes_test.go:45`). But `toCanvas` looks at
   `sourceHandle` only (`catalog.js:422`) and `toDefinition` writes no label (`:461`): an old condition that is opened and saved takes the
   first output on both branches.
2. `flow_activation`: "an active flow must be able to run" (`internal/flows/handler.go:146`); an activation and a draft save
   that cross both validate against the old row, and COALESCE writes the mixture.
3. `flow_reply`: HandleInbound "answers a pending question or AI conversation first" (`internal/flows/engine.go:183`); a
   quick answer arrives before `waiting_input` is saved, finds the run busy and is dropped.
4. `flow_turnoff`: "Turning a flow off also stops the runs still waiting on it" (`internal/flows/handler.go:178`); a
   message that has read the list of active flows starts its run after the cancellation.

Three more disagreements have no run of their own:

- `ImportCSV` says "Verify campaign belongs to tenant and is draft" (`internal/campaigns/handler.go:237`); the query does not look at the
  status, so that recipients may end up `pending` in a campaign no dispatcher visits. The model's `ImportCSV` does not either, and `stray` remembers
  such recipients: `campaign_dispatch` holds with late imports.
- `validateFlow` is a "Client copy of the engine's Validate" (`catalog.js:291`), but of two steps that share an identifier, which only a
  request to the API can store, it says nothing: it gathers the identifiers in a Set (`:297`) and lacks the check of `nodes.go:296`.
- The copy parses some data of steps differently: `http:foo` is an address for `new URL` (`catalog.js:283`) and not for the engine (`nodes.go:343`), a
  port of 99999 the other way round, and `5,5` is an amount for the engine (`nodes.go:216`) and not for `Number` (`catalog.js:319`). In the model a step's data
  may therefore please one reader alone, and `ClientValidateAgrees` compares the rest.

What the conditions of the panel's properties set aside, each a behaviour of the code that the model has and that
no sentence of the repository denies:

- the answer to a form that was submitted before a logout signs in again (`AuthContext.jsx:64-102`);
- a refresh that is answered after a logout writes tokens to localStorage again, and a reload signs in (`client.js:94`);
- the answer to a message that was sent from another thread is added to the thread that is open (`Conversations.jsx`);
- a save clears `dirty` although the canvas was changed while it was on its way (`FlowEditor.jsx:688`);
- a wizard whose start was done but not heard says that the campaign was saved as a draft, and submitting again sends
  a second one (`Campaigns.jsx:126`);
- a sample whose upload ends under another kind of header stays (`Templates.jsx:143`);
- a scanner started while the code of another session is being asked for may show that code (`Channels.jsx:143`);
- boards and lists take the answer that comes last, not the one asked for last (`CRM.jsx:99`, `Contacts.jsx:95`).

And of the inbox at the server:

- two first messages of a phone at once create two contacts, conversations or cards (`channels/handler.go:1317`, `:1349`, `:1433`), and so
  does a conversation that is reopened beside a newer one (`conversations/handler.go:445`);
- `ensureCRMCard` looks for a card in the pipeline that is the default at the moment (`channels/handler.go:1423-1433`): after another default was
  chosen (`crm/handler.go:140`, `:194`) a contact that writes again gets a second card, without any race;
- a message that arrives between the SELECT and the UPDATE of `GetMessages` is neither shown nor counted (`conversations/handler.go:337`);
- an API that stops between the INSERT and the end of the dispatch leaves a reply `pending` for ever (`conversations/handler.go:399`);
- `MergeContacts` moves neither conversations nor cards, and gives the primary the phone of the secondary, which keeps it: later
  messages of the phone may reach either (`contacts/handler.go:315`).

## 8. What is not modelled

Components: statistics, dashboards, reports, documentation pages (read-only queries); billing limits (called by nothing); the event
publisher (fire and forget, no state); encryption, the script sandbox and provider clients (pure functions and I/O: their
outcomes are choices of the models); the Meta review page (a tour with sample data, planned), the pages for queues,
integrations, reports, dashboard, billing and legal texts, the layout, the webchat widget and the build scripts. Texts,
layouts, logging and payloads are left out everywhere.

Of modelled pages: removing a tag and the dialog that sends a template in `Conversations.jsx`; creating and duplicating
flows in `Flows.jsx`, the panel of runs and the inspector's fields in the editor; bodies, footers, buttons and the preview
in `Templates.jsx`; the data of contacts and cards. Of a batch of messages in one webhook of Meta the code takes the first (`channels/handler.go:1457-1478`), and
so the model has one message per webhook. Cards that are moved or deleted by hand are no part of `Intake`. Of the server otherwise: what section 9 plans. `PROJECT.json` lists each component's
status, and under "hazards" what could go wrong, with the properties that cover it. Hazards in code that no module has yet:

- `queues/service.go:88`, `:163`: every message routes again, over what a bot or a person chose; round robin has no fixed order;
- `crm/handler.go:219`: cards are counted and then deleted with their stage;
- `templates/handler.go:618`: Meta's approval by webhook comes before the UPDATE to pending;
- `auth/ratelimit.go:32`: INCR without EXPIRE locks a login for ever;
- `Campaigns.jsx:78`: the templates of the channel chosen before are offered under the new one.

## 9. Plan

Done: campaigns, flows, server, the inbox at the server, and the panel (session, signup, seven pages, the comparison of `catalog.js` with `FlowGraph`).
In the order of importance, next:

1. `QueueRouting` (`queues`): the rules and strategies as operators, the goroutine a message starts, transfers by bots and people.
   Properties: round robin gives everybody a turn while operators stay, a transfer is not undone by the next message. It
   composes with `Intake` through the goroutines of a message and with `FlowEngine` through owner and queue.
   Run: 2 messages, 2 operators, 2 queues, 1 transfer.
2. `Sessions` (`auth`, the token part of `tenant`; the browser's side is `WebSession`): revoked tokens are refused, the
   limiter releases. Run: 2 logins, 1 crash, Redis up and down.
3. `TemplateLifecycle` (`templates`, the status webhook): an approval is not lost; one submission per template. Run: 2 requests, 1 webhook.
4. `CrmBoard` (`crm`, `contacts` merge): a delete never takes a card that was created meanwhile, the history of a card is a path
   through the stages, one default pipeline. Run: 2 requests, 2 pipelines.
5. `ChannelSetup` (embedded signup, WAHA sessions): retry after each step of a signup ends in the same channel.
6. `MetaReviewPage`, the forms of the tour, as a part of `WebPanel`.

Theorems come with each module above, as it is written. Runs of components that share bounds are merged the way `Server` and `WebPanel` merge them.
