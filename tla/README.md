# riley_comments in TLA+

riley_comments is a comment service: an axum server (`riley-comments-api`) over
PostgreSQL (`riley-comments-core`), started by `riley-comments-cli`. Every HTTP
request runs as a tokio task of its own. Requests share the database, a cache
of signing keys and an R2 bucket; they hold no locks across awaits and use no
transactions, so between any two statements of a handler the world may change.
Most of what is hard about this program is there, and that is what these
modules are about.

Paths below are relative to `src/crates/`; `core` is `riley-comments-core/src`,
`api` is `riley-comments-api/src`.

## Inventory

| component | state | operations | talks to | hard | what makes it correct |
|---|---|---|---|---|---|
| comment writers (`api/routes/comments.rs`, `core/db/comments.rs`) | `comments` table | create, update, delete | riley-auth (role), notifier | check and write are separate statements; lost answers; role changes; another `max_depth` after a restart | the table stays a forest of bounded depth, history is kept, only the entitled write, answers and notifications are true |
| listing (same files) | none; a cursor in the client's hands | list a page, get one | reads the table in several snapshots | writers between the queries; rows that become visible out of order | no live comment missed, none twice, pages that hang together, deleted bodies hidden |
| `visible_ids` | local | prune a page | - | early exit of the walk | the least set closed under parents |
| reactions (`api/routes/reactions.rs`, `core/db/reactions.rs`) | `comment_reactions` | add, remove | notifier | equal requests in parallel | one notification per new reaction |
| custom emoji (`api/routes/custom_emoji.rs`, `core/db/custom_emoji.rs`) | `custom_emojis` and R2 | upload, delete | R2, riley-auth | two stores without a transaction | a listed emoji has its image |
| signing keys (`JwksCache` in `api/auth.rs`) | key set behind a lock | refresh, verify | riley-auth | rotation, failures, a hung fetch | never without keys, never back to older ones, catches up |
| request gate (`api/csrf.rs`, `extract_token` and middleware in `api/auth.rs`, `app` in `api/lib.rs`, `effective_csrf_origins` in `core/config.rs`) | allowed origins, fixed at start | CSRF check, authentication | all routes | two checks that must agree | writes on a cookie come from the site; nobody is refused without cause |
| CORS headers (`build_cors` in `api/lib.rs`) | fixed at start | decide who may read an answer | browsers | compares origins as written, CSRF does not; a list the library refuses | a listed site can use the API |
| admin role check (`RoleChecker`) | none | `require_admin` | riley-auth | stale claims, timeouts, an answer about somebody else | fails closed |
| notifications (`api/notifications.rs`) | none | send, truncate | notifier | fire and forget | right recipient; nothing waits for it |
| start and shutdown (`api/lib.rs`, cli) | the process | start, listen, drain, exit | everything | order of start-up; a signal while requests are under way | what was accepted is answered; a drain ends |
| user card (`api/routes/users.rs`, `core/db/users.rs`) | none | read | database | two queries at different moments | its two numbers fit together |
| reaction statistics, configuration loading, migrations, error mapping | - | - | - | - | - |

The last row is not modelled or only in part; PROJECT.json says which and why.

How the components interact: `app` puts CORS, then CSRF, then the router around
every handler; `require_auth` verifies a token against `JwksCache` and hands the
claims to the handler. Deleting another user's comment and changing custom emoji
ask `RoleChecker`, which asks riley-auth. Creating a comment or a reaction spawns
a task that posts to the notifier. Everything else meets in the database.

## Modules

| module | models | checked by | proved in |
|---|---|---|---|
| `ThreadForest` | abstract: the `comments` table as its writers see it, one action per writing statement | as a property of `CommentThreads` | - |
| `PublicThread` | abstract: the same table as readers see it - comments appear, change, turn into placeholders for good | as a property of `CommentThreads` | - |
| `RoleCheck` | operators: what `GET /auth/me` can come back with, and what counts as a yes | by its users | - |
| `CommentThreads` | the three writing handlers, an action per await; implements `ThreadForest` and `PublicThread` | `MCCommentThreads` | `CommentThreadsProofs` |
| `ServerLife` | the process around them: start, listening, drain, exit, kill; implements `CommentThreads` | `MCServerLife` | `ServiceProofs` |
| `Service` | everything on one table: `ServerLife`'s process with the reader, the reactions and the cards in it; implements `ServerLife`, `ThreadListing` and `UserCard` | by proof only | `ServiceProofs` |
| `ThreadListing` | a reader's walk over the pages while `ThreadForest`'s writers go on | `MCThreadListing` | `ThreadListingProofs` |
| `VisibleIds` | the pruning loops, against the closure `LeastClosed` | `MCVisibleIds` | `VisibleIdsProofs` |
| `Reactions` | adding and removing reactions, over `ThreadForest` | with `UserCard` | `ReactionsProofs` |
| `UserCard` | a user card's two queries, while `Reactions` goes on | `MCUserCard` | `ReactionsProofs` |
| `CustomEmoji` | upload and delete over the table and R2, from the role check on | `MCCustomEmoji` | `CustomEmojiProofs` |
| `JwksCache` | fetching keys at start and in the background | `MCJwksCache` | `JwksCacheProofs` |
| `RequestGate` | CORS, CSRF and authentication, under every origin setting | `MCRequestGate` | `RequestGateProofs` |

What uses what: `CommentThreads`, `ThreadListing` and `Reactions` extend
`ThreadForest`; `ServerLife` extends `CommentThreads`; `UserCard` extends
`Reactions`; `Service` extends `ServerLife` and instantiates `ThreadListing` as
`Reader` and `UserCard` as `Profile`; `CommentThreads` and `CustomEmoji` take `RoleCheck`;
`CommentThreads` instantiates `PublicThread` with the rows as `Scrub` shows them.

In each module, definitions marked "Mutant" are plausible bugs. They belong to
no specification; each is an alternative body for the definition after it and
shows that some property would notice.

### How state and actions correspond to the code

*ThreadForest.* `rows` is the table. The key of a row stands for
`(created_at, id)`, the order of the listing. `created_at` is `now()` of the
inserting statement, and the row shows when that commits, so rows may appear out
of key order: `Post` takes any unused key. Parents are older than their children
because a parent had committed before the child's statement began. `Post`,
`Edit` and `Remove` are the three statements that write. Nothing deletes rows.

*CommentThreads.* `req[r].pc` names what request `r` awaits; one action is
everything the handler does from one await to the next. Creating a comment is
`CreateComment` (validation, the route's look-up of the parent), `CreateParent`
(`db::comments::create` reads the parent again, checks it, picks a place),
`CreateStamp` (the INSERT begins: key and `created_at`) and `CreateInsert` (it
commits; the route then notifies). Updating is `UpdateComment` and `EditWrite`;
deleting is `DeleteComment`, `RoleAnswer` or `RoleUnavailable` if a moderator
deletes another's comment, `DeleteRecheck` and `DeleteWrite`. A read and the
checks behind it are one action because the checks touch nothing shared; a read
that is the handler's first step is one action with the arrival because nothing
of the request is visible before it. `QueryFails` ends a request at any
statement; `answered = FALSE` is a write that commits and whose answer is lost.
`Restart` loses requests and unsent notifications and may bring another
`max_depth`. `late` and `wasAdmin` record history for the properties. `author` is
the target's `user_id` as read when the request arrived: the route notifies that
user, however long ago it looked (`Note`), and `NotesTruthful` compares with the
table of the moment.

*PublicThread.* `shown` is what the API returns for each comment: the row after
`Scrub`, which is `scrub_deleted` (`core/models.rs`): of a deleted row only the
place in the thread is left. A write to a deleted row - an edit that came late -
is a stutter here.

*RoleCheck.* `MeReplies` are the outcomes of `GET /auth/me` that `require_admin`
tells apart, timeouts and answers about another user among them; `Confirms` is
`Ok(())`. It has no state: the callers use it at the step in which the response
arrives, with the roles of that moment.

*ServerLife.* `stage` is how far `main` and `serve` have come. `Boot`,
`StartFails`, `Listen` are the start; `Accept` lets a request of `CommentThreads`
in, `Serve` and `ServeUnevenly` are its further steps; `Signal` is
`shutdown_signal` returning, `Exit` the return from `axum::serve` and `main`,
with which the runtime drops unsent notifications; `Kill` is a crash or SIGKILL.
Before the listener is up no signal handler is installed, so a signal then is
`StartFails` or `Kill`.

*ThreadListing.* `AskRoots`, `FetchReplies`, `FetchCounts` are the queries of
`list`, each on a snapshot of its own; `Respond` and `Fail` are the answer's
fate (together `Walk`); `Comments` is any writer of `ThreadForest` between two
queries, with `Overtaken` keeping the history. The reader keeps `cursor`.
Below-the-root filtering and `visible_ids` appear as the sets they compute;
`VisibleIds` justifies the second. Items are sorted by `created_at` in the end,
so a page is a set. `AskRoots(limit)` takes the limit the client asked for through
`effective_limit` (default and clamp), and reads one root more than it shows to
know whether there is a next page. Reaction counts are one more query that
touches nothing. `Below(k)` is what the recursive query collects, stated as the
least set of replies that holds the replies of its members, and `VisibleIds` as the
least set that holds the live rows and their ancestors; so both can be reasoned
about without recursion. `Thread`, `Ahead` and `steady` are history and its
bookkeeping.

*VisibleIds.* `todo` and `next` are the positions of the two loops, `visible` the
hash set. The order in which comments come does not matter and is left open.

*Reactions.* `AddCheck`, `AddInsert`, `AddNotify` are the three statements of
`add_reaction`. `born` and `told` count insertions and notifications. `Room` holds
the bounds of the model: `MaxReactions` different reactions are inserted, each of
them `MaxBirths` times.

*UserCard.* `AskCard` and `CountReceived` are the two queries of
`db::users::get_card`; the second looks at the tables again. The card keeps, of the
two numbers, the sets that are counted: the user's live comments, and the reactions
to those that are live when the second query runs. `known` records the comments there
were at the first query. A restart takes the request for the card with it
(`CardRestart`).

*Service.* One process and its database. `Write` are the steps of `ServerLife`
except for the process's end: where one of them changes the table, the readers'
history takes note. `Read`, `React` and `Draw` are the steps of the other three
kinds of request: they come in while the listener is up and go on through a drain.
`Close` waits for all four kinds, as `with_graceful_shutdown` does for all
connections; `Crash` loses them. `ThreadListing` and `UserCard` take their writers
from `ForestNext`, in which any comment may be posted or deleted at any time, and
know nothing of starts and shutdowns; that this is enough for the real handlers is
what `ServiceProofs` shows.

*CustomEmoji.* `listed` maps names to `image_url` (a public URL and a key),
`bucket` is R2. `UploadPut`/`UploadInsert` and `DeleteRead`/`DeletePurge`/
`DeleteUnlist` are the awaits after `Ask` and `Admit`, the role check; a form that
is refused changes nothing and is `CutShort`. `base` is `public_url`, or `None`
when `[r2]` is not configured. `public_url` may change at a restart, which is when
`KeyOf` finds no key. `risky` records names that met one of two hazards.

*JwksCache.* `fetch` says where `refresh()` is, for `serve` and for the refresh
task; `Reply` takes the keys published at that moment, `Replace` installs them.

*RequestGate.* One request at a time, since requests share only the immutable
list. Addresses are records of what `normalize_origin` can tell apart, in lower
case; a token is its user, or `Forged`. `Start` builds both layers and fails
where they do (`CorsBuilds`, an origin without a normal form); `Cors` decides
`grant` before `Csrf` runs, as the layers are stacked in `app`.

### External code

riley-auth (the role behind `/auth/me`, the published keys) changes at will;
PostgreSQL executes each statement atomically on a snapshot of its own and may
lose an answer; R2 may fail with or without effect; the notifier is not observed.

## Runs

| run | question | bounds and why they suffice |
|---|---|---|
| `threads` | do the writers implement the table as writers and as readers see it, keep history, write only what they may, answer and notify truthfully? | two requests at once (every hazard is a pair), two users, one a moderator, two comments (a comment and its reply), two bodies so that an edit shows, `max_depth` 0 (flattening) and 1 |
| `thread_depths` | does the table stay a forest of bounded depth? is `IndInv` an invariant? | three comments, to have a reply to a reply; two entities; `max_depth` 0 and 1 changing at restarts; no moderators, no notifications |
| `server_life` | is every accepted request answered, through a shutdown, unless the process is killed? does a drain end? | two requests, so that one can be under way when the other ends; two comments; a moderator, for the call that may hang; notifications on |
| `reply_race` | "cannot reply to a deleted comment" (`core/db/comments.rs:181`) - refuted | |
| `reactions` | one notification per new reaction; late requests record nothing; do the two numbers on a card fit together? | two requests, two users; two comments, one that the card's first query counts and one that is deleted, somebody else's or not there yet; one emoji; one reaction - any one - inserted up to twice, so that it can be removed and added again: a second reaction would only repeat what each property says of every single one |
| `custom_emoji` | which hazards leave a listed emoji without image? do only admins change emoji? | three requests for one name, two formats, one image, two public URLs or none, two users whose roles change |
| `emoji_immutable` | "immutable" (`api/routes/custom_emoji.rs:138`) - refuted | |
| `thread_listing` | are the pages complete, disjoint and coherent? | four comments on two entities; limits 0 (clamped to 1) and 2, changing from page to page: up to four pages, and threads three deep |
| `visible_ids` | do the loops compute the closure, and end? | every forest of up to four comments, with any of them deleted or absent |
| `jwks_cache` | never without keys, in order, and catching up? | two usable keys, one for encryption, any set of them published at any time |
| `jwks_hang` | "refreshes JWKS periodically" (`api/auth.rs:316`) - refuted | |
| `request_gate` | do CORS, the CSRF check and token extraction admit the right requests and fit together? | seven addresses (the site with and without default port, with a path, over http, over http on port 443, with user info; a sibling); settings with `*` alone, `*` beside a site, explicit, invalid and empty lists; all header combinations |

Symmetry is used for users, entities, bodies, requests, images, formats and URLs
in runs that check invariants and action properties, never where a run has a
distinguished moderator among the permuted values, and never with liveness.
`MaxComments`, `MaxReactions` and `MaxBirths` are the only bounds inside guards;
`MaxComments` also holds back creations so that no request is stuck for want of a key.
`visible_ids` disables the deadlock check, since the function returns.

### Fairness

* `ServerLife!FairLife`: weak fairness of each request's own steps, `Serve(r)`, and
  of `Exit`. tokio polls every task, a statement ends or its connection breaks,
  and the role check has a timeout of five seconds, so a request that is under way
  always has a next step; when none is left, hyper closes idle connections and
  axum's graceful shutdown returns. This takes clients to finish sending what they
  have begun, as neither library sets a limit. Nothing is assumed of riley-auth
  (`RoleAnswer` is not fair) or the notifier (`NotificationEnds` is not), and a
  kill excuses the process.
* `VisibleIds!FairSpec`: the function runs.
* `JwksCache!OwnFairness`: tokio runs a task whose response has arrived or whose
  hour is over. `NetworkFairness` adds what the code does not ensure by itself: no
  request hangs for ever and not every one fails. `KeysCatchUp` needs it;
  `jwks_hang` shows what happens without it.

## What the refuted claims mean

* `reply_race`: the parent is checked in one statement and the reply inserted in
  another. A delete that commits in between leaves a live reply below a deleted
  comment. The listing copes (it shows a placeholder), and a request that
  *arrives* after the delete is refused (`LateWritesNothing`, which holds).
* `emoji_immutable`: `upload_emoji` stores the image before the INSERT finds out
  whether the name is free. A refused upload has replaced the image of a listed
  emoji, whose URL is cached for a year as immutable.
* `jwks_hang`: the JWKS client has no timeout, the role checker's has one. A fetch
  that is never answered ends all refreshing.

Seen while reading, checked by no run: `truncate` (`api/notifications.rs:66`)
promises at most `max_len` chars and appends the dots after `max_len` bytes.

## Proofs

TLAPS proves the following for all values of the constants that satisfy the named
assumptions. Every invariant and action property of the passing runs is among it; the
end of the section says what is model-checked only.

*`CommentThreadsProofs`.* `IndInv` is inductive, and `TypeOK`, `IsForest`,
`ReplyToIsNeighbour`, `DepthBounded` and `NotesTruthful` follow. None of them is
inductive alone: when `CreateInsert` writes a row, its place was chosen two steps
earlier. `IndInv` therefore says what a request may still rely on (`InFlight`,
`Placed`): its parent is posted, on the same entity, one level up, and its
addressee wrote a neighbour - which survives the other requests' steps because
rows keep parent, entity, author and depth - and keys in flight are distinct, new
and larger than the keys the new row refers to. The refinement `ImplementsForest`
maps `CreateInsert` to `Post`, `EditWrite` to `Edit`, `DeleteWrite` to `Remove`
and all else to a stutter, with `IndInv` supplying `Post`'s guard. `KeepsHistory`
is the same argument for the action property. Assumptions: `ForestAssumption` (None
is no user, entity, body or number), `ThreadsAssumption` (moderators are users,
`max_depth` is some integer) and `StatusAssumption` (None is no answer).

`KeepsPromise`, in the same module: the handlers implement `PublicThread`. It goes by
the table: `Post` is `Appear`, `Edit` is `Change`, or a stutter if the row
is deleted, because `Scrub` hides the body; `Remove` is `Vanish`, or a stutter.
Requests do not occur in it, as `ImplementsForest` has dealt with them.

`AllAllowed` adds to `IndInv` what the checks have
established for each request: one that edits is its target's author, one that
deletes is, or was confirmed while `wasAdmin`; a late one has got no further
than the check it will fail. That stays true until the write because authors never
change, deleted comments stay deleted and `wasAdmin` is never taken back.
`OnlyAllowedWrite`, `TooLateWritesNothing` and `AnswersAreTrue` follow step by
step.

*`ServiceProofs`.* How the modules fit together, in three parts.

The life of a process. `LifeInv`: `IndInv`, and while the process is off or starting
no request is under way and nothing is being sent (`Fresh`). `LifeSound` follows.
`LifeImplements`: every step of `ServerLife` is a step of `CommentThreads` or leaves
its variables alone - `Exit` and `Kill` are its `Restart` with the old `max_depth`,
`Boot` is one with the new - so all of the
theorems above hold of the whole life of the server. `Boot` needs `Fresh`:
only then is its new `max_depth` a restart.

The whole service. `ServiceLives`, `ServiceLists` and `ServiceCounts`: `Service`
implements `ServerLife`, `ThreadListing` and `UserCard`, each seen through its own
variables. A step of a handler that changes `rows` is one of `ThreadForest`'s, by
the step behind `ImplementsForest` and `LifeInv` (`ServiceStepForest`); so what the
reader and the cards meet is a writer they were modelled with. `ServicePages` and `ServiceReactions` carry over what
is proved of those modules: the five promises of the listing and the three of
reactions and cards hold of the service. Their hypotheses are the assumptions of the
modules (`ListingAssumption`, `ReactionsAssumption`), stated where they are used since
`Service` declares the constants anew; the lemmas called `Same...` identify the
definitions of one instance with those of another. `ShutdownLosesNobody`: at a
process that neither listens nor drains nothing of any kind is in progress
(`NobodyWaits` adds the reader, the reactions and the cards to `Fresh`).

What must happen. TLAPS cannot work with ENABLED, so the fairness of `FairLife` is
written out: `Served(r)` says that request `r` is idle again and again or served again
and again, `ExitRuns` the same of `Exit` and a drain without requests - the weak
fairness of actions that are possible just then. `EveryoneIsAnswered`: by
`StepsLeft`, the number of statements still before a request, which its own steps lower
(`ServeGetsOn`) and nobody else's raise (`NeverBack`); the answer of riley-auth is
not needed, since `Serve` has the timeout. `EveryDrainEnds`: a drain admits nobody
(`DrainAdmitsNobody`), so every slot empties, and then `Exit` is the only way on. From
"each slot is empty from some time on" to "from some time on all are" is the hypothesis
`Together`; it holds for any finite set of slots, by an induction over temporal
formulas which TLAPS does not do.

*`ReactionsProofs`.* `ReactInv`: tellings done and under way never exceed the
insertions (`NotifiedOncePerReaction` is inductive with the typing of requests), and
late requests are before their first statement. The counting is by
`FiniteSetTheorems`; `ReactionsAssumption` says that there are finitely many request
slots. `ToldOnce`, `TooLateReactsNothing` and `ReactionsTyped` follow, and
`CardImplements` - `UserCard` implements `Reactions` - carries them over.
`CardCoherent` is by `CardInv`: between the two queries, whatever is live, the
user's and was there at the first has been counted by the first. No step takes
a comment away, gives it another author or undoes a deletion (`NothingComesBack`), so
what is live and someone's now was so before (`OwnedBefore`); this is where an
`UPDATE` that brought a comment back would break the card.

*`JwksCacheProofs`.* `KeysInv`: the two fetchers take turns, since `serve` awaits its
fetch before it spawns the task; a response that has not been applied holds keys
published since the last refresh; keys in use are some and recent. `KeysTyped`,
`AlwaysKeys` and `NoStaleKeys` follow. `RotationArrives` is `KeysCatchUp`, with the
fairness written out as above: `TaskRuns` is `OwnFairness` of the task, and
`RepliesCome` what is needed of the network - a task that asks again and again gets a reply
again and again. While the published keys stay the same the task goes round asking,
holding a reply, sleeping (`Round`); a reply from before the change may be
installed once (`UpToDate`), every later one brings the new keys.

*`CustomEmojiProofs`.* `EmojiInv` says of each request under way what the two
stores owe it: keys belong to one name (`OwnKeys`); requests for a name that are
under way together are on record (`Watched`); an upload about to insert finds its
image in the bucket unless its name is on record (`Stored`); a listed emoji without
image, if its name is not on record, has a delete that is past the purge and about to
unlist it (`Mourned`); whoever is past `Admit` was an admin (`Entitled`).
`BrokenByHazardsOnly` and `OnlyAdminsChange` follow. The work is in `Watched`: with
it, a request may be reasoned about as if it were alone with its name.

*`ThreadListingProofs`.* `EveryoneHasAThread`: every comment is in the thread of a
root and stays there, whatever is written - so the replies found by their roots are
all replies. It rests on `WritersGrow`: no writer takes a row away or moves it.
Then the listing. First the forest: threads are disjoint, belong to one
entity and only grow (`ThreadsDisjoint`, `ThreadEntity`, `ThreadGrows`), all from
`Below` being least and a parent never changing. Then `LIMIT n`: what it leaves out
comes after what it takes, and then there is a next page (`FirstTakesSmallest`; this
needs `n` to be at least 1, hence the clamp). Then `ListInv`: the roots of a page
come after the cursor (`RootsAhead`), the page shows only their threads
(`PageOfRoots`), what the reader has comes from threads up to the cursor (`Behind`),
and every steady comment has been returned or is due on this page or a later one
(`SteadyDue`). `NothingMissed` is `SteadyDue` at the end of the walk; `NothingTwice`
is `Behind` against `RootsAhead`, as threads are disjoint. `PagesHangTogether` uses
that the pruned set is closed (no parent missing) and least (no placeholder kept for
nothing). `QuietExact` rests on `PruningIsFilter`: for rows that make up whole
threads, `ROOT_IS_VISIBLE` and `visible_ids` select the same. `PruningIsLoops` closes
the gap to `VisibleIds`: the rows at hand are a proper input of its loops, and the set
`VisibleIds(g)` of the listing is what `ComputesLeast` says the loops return.

*`VisibleIdsProofs`.* `LoopInv`: the marked set is closed except where the walk under
way still has to go, every live comment already taken is marked or being looked
at, and all of it lies within every closed set. At the end nothing is under way,
so the set is closed and least. `LoopsGetOn` is the variant: the outer loop has fewer
comments left, or the inner one has moved to an older comment or out of the chain.

*`RequestGateProofs`.* `Guarded`: past the CSRF check `check(req)` still holds, what
was refused lacks one thing or the other, the list of allowed origins is still
that of the configuration, `grant` is what CORS says of the request, and the claims
are those of the extracted token. `NormalFormSound` and `NormalFormComplete`: equal
normal forms mean equal scheme, host and port, and the other way round.
`CookieWritesSafe` and `NobodyActsForTwo` take the first, `NobodyRefusedWithoutCause`
and `ListedSitesServed` the second. Assumptions: `GateAssumption` and
`NullAssumption`, which keep tokens, URLs, normal forms and None apart.

Only model-checked:

* `Terminates`. `LoopsGetOn` proves that every turn lowers a well-founded measure;
  that such a run ends takes an induction over temporal formulas.
* That the fairness of `FairLife` and `FairSpec` amounts to `Served`, `ExitRuns`,
  `TaskRuns` and `RepliesCome`, which is about ENABLED. (The runs check the liveness
  properties under the specifications with `WF_` and `SF_`.) For `RepliesCome` it takes
  that strong fairness of `Reply("task")`, which is possible just while the task asks,
  is what is written out.
* `Together`, for finite sets of requests.

`Service` is the other way round: it is proved about and belongs to no run. Its
actions are those of modules that runs do check, and a bound small enough for their
product leaves out what each of the runs shows alone (one request of each kind, one
comment and one reaction already give 219,000 states).

## Not modelled

* Reactors, top reactions and reaction counts: each is one SQL aggregate over one
  snapshot and nothing relies on it. On the user card `username` and `first_seen`
  are left out. `get_comment` and the emoji list are one SELECT.
* Ties between, and steps back of, PostgreSQL's clock: `created_at` with the id is
  a key, and a parent's is smaller than its reply's. With a clock that steps back a
  reply could sort before its parent; the pages would still show it, as replies are
  found by their root.
* How the JWKS URL becomes the `/auth/me` URL; token expiry, issuer and audience
  (jsonwebtoken's).
* Reading configuration files and the environment; migrations (sqlx's) and the pool.
* Spellings of a port: ports are numbers or none, and letters lower case.
  `normalize_origin` strips exactly `:443` or `:80`, so `https://site:` and
  `https://site:0443` are other origins to the code; the model has no such addresses, and
  `RefusedForCause` says nothing of them.
* The text of notifications, wording and logs, the format of cursors, bodies and
  emoji names beyond valid or not. (The body limit counts bytes where its message,
  `api/routes/comments.rs:71`, says characters.)

Seen while modelling `RequestGate`: `effective_csrf_origins` (`core/config.rs`)
provides for, and its test uses, a `cors_origins` list in which `*` stands beside a
site; a server with such a list
panics when it builds the CORS layer, and does not start (`CorsBuilds`).

## Plan

Done: the writers with their two abstract specifications, the process around them,
reactions and cards, custom emoji, the listing and its pruning, keys, the gate, and the
service they make up.

Every invariant and every action property that a run checks is also proved, and all
liveness but `Terminates`, from the fairness written out.

Left: custom emoji, keys and the gate as parts of `Service`. They share neither table
nor state with the rest, except that `JwksCache` and `RequestGate` go through the same
start. And a model of several server processes on one database: the handlers need
nothing but the database, so `CommentThreads`'s request slots may already belong to
different processes, but `max_depth` and the key cache are per process.
