# pathgoer in TLA+

Models of the services of pathgoer, a web application in which people count what
they do ("stats" on "paths"), set quotas and keep streaks. The modules state what
the code must keep true when requests meet, fail halfway or arrive twice; TLC
checks that on small instances and TLAPS proves the core of it for all sizes.

    cd tla
    tlc -workers 2 -config MCPathService_requests.cfg MCPathService
    tlapm PathServiceProofs.tla

## The system

Five Go services behind one gateway, and TypeScript in the browser.

| Part | State | Operations | Where |
|---|---|---|---|
| path service | PostgreSQL tables `paths`, `stats`, `quotas` | create, rename, delete a path; create, rename and configure, delete a stat; set the counts of several stats; read a path page (which moves the streaks), a user's paths, the home page | `services/path`, `sql/path-postgres.init.sql` |
| user service | table `users`, Redis for one-time passwords (5 minutes), Redis for refresh tokens (30 days) | SendOtpEmail, VerifyOtp, RefreshTokens, Logout, ChangeUsername, GetProfile (gRPC) | `services/user` |
| email service | a consumer of one RabbitMQ queue | send the mail with Mailgun | `services/email`, `shared/rabbitclient`, `shared/rabbitemail` |
| gateway | none; it sets the cookies `access` and `refresh` | pages, proxies, login, refresh, logout; 10 s per request | `services/gateway` |
| storage service | files: static ones and one avatar per user | serve, upload | `services/storage` |
| shared clients | a connection pool or channel that a goroutine replaces | connect, monitor, call | `shared/postgresclient`, `shared/rabbitclient`, `shared/redisclient` |
| browser | the two cookies; in each tab a page and its script, a path page's own copy of the counts, a name that is being edited | check and refresh the tokens, send the browser on; PUT the changed counts every 3 s and on leaving; edit; refresh after a 401 | `typescript` |

How they interact: the browser speaks HTTP to the gateway only. The gateway proxies
`/api/path` to the path service, which reads the user from the access token by itself,
and calls the user service by gRPC. The user service publishes mails to RabbitMQ; the
email service consumes them. No service calls the path service, and users and paths are
in different databases with no foreign key between them.

What is hard in it: no handler takes a lock, and only one uses a transaction.
Everything that takes two statements (creating a stat, renaming one, rolling a
streak on, checking and deleting a password, rotating a refresh token) can meet
another request in between, be cut off by the ten seconds, or fail in its second half.
`PROJECT.json` lists each such place under "hazards". The properties named there are those that
would catch it going wrong; a note says which part of it does happen in the models, and is covered by none.

What makes each part correct:

- path service, writes: rows that belong together stay together; nobody but its owner
  changes a path; a page never shows half of an operation.
- path service, listings: a page or a list shows nothing that its asker may not see.
- path service, streaks: a streak counts periods, each backed by counting of its own.
- sign-in: nobody is signed in as somebody else; a password works once.
- sessions: a token that was exchanged or logged out stays refused; the cookies of a browser
  belong to one user; one live refresh token per session, none after a logout.
- pages: no page sends the browser round for ever, and who can be signed in is not shown the
  login form.
- profiles and avatars: a page shows the stored name; a user's file is one whole picture, unless
  different ones are uploaded over each other or an upload fails.
- RabbitMQ and email: a consumer comes back after each loss of the connection.
- PostgreSQL client: after an outage the service serves again, and leaks no pool.
- path page: page and server agree on the counts once everything is answered.

## Modules

| Module | What it is |
|---|---|
| `PathService` | the three tables and the requests that change and read them, one step per SQL statement |
| `PathBook` | abstract: paths and the stats a page can show, with no requests |
| `QuotaStreak` | GetStats rolling the streaks on, against time, readers and the owner |
| `SignIn` | SendOtpEmail and VerifyOtp over Redis, PostgreSQL and RabbitMQ |
| `Session` | RefreshTokens, Logout and the gateway's cookies, with the tabs of one browser |
| `Pages` | the gateway's pages and their scripts, on top of `Session` |
| `Profile` | names: GetProfile and ChangeUsername, and the profile pages that show and edit one |
| `Avatar` | UploadAvatar: one file for each user, written by uploads that overlap |
| `PostgresClient` | the pool of a service, the goroutine that replaces it, and a server that goes away |
| `RabbitClient` | the clients of the user and the email service around a broker that comes and goes |
| `MailQueue` | abstract: what SignIn relies on when it publishes a mail |
| `CountSync` | a path page in the browser, its copy of the stats and its requests, against the rows |
| `MCPathService`, `MCQuotaStreak`, `MCSignIn`, `MCSession`, `MCPages`, `MCProfile`, `MCRabbitClient`, `MCCountSync` | the same for TLC: symmetry, constraints, values of functions |
| `PathServiceProofs`, `QuotaStreakProofs`, `SignInProofs`, `SessionProofs`, `PagesProofs`, `ProfileProofs`, `RabbitClientProofs`, `CountSyncProofs` | theorems |

How they compose. `Pages` EXTENDS `Session`: each step of a page conjoins the steps of `Session` it causes,
so that `PageSpec` implements `Session`'s `Spec` (proved). `PathService` implements `PathBook`, and
`RabbitClient` implements `MailQueue`, by refinement mappings. `MCProfile` puts `Profile`, `Avatar` and
`PostgresClient` side by side.

`PathService` and `QuotaStreak` are two views of the same tables. The first has the
lifetime of rows and the owners, and leaves the columns of the streak out; the second
has one path, all columns of a quota and the clock. The owner's operations of
`QuotaStreak` (`UpdateCount`, `UpdateQuota`, `UpdateStat`, `CreateQuota`, `DeleteStat`) are the
effects of those of `PathService` on one path.
`CountSync` is the other end of the same requests: each is one step on the rows there (what
it looks like between its statements is `PathService`'s), and the browser is in full.

Definitions whose comment starts with "Mutant" are not part of a specification. Each is
the definition below it with a plausible bug, kept to show that a property notices.

### PathService

A table is the set of its rows. What each SQL statement does to the rows it may change is an
operator (`InsertPath`, `RemoveStat`, `SetStatName`...; `pathmodel`); whether it may, and what
is answered, is in the action of the handler. `req` holds for each slot of a request in flight what
its handler does: nothing, between its two statements, or answered. The handlers of
one statement are one action that includes the answer: `CreatePath`, `UpdatePath`,
`DeletePath` (the stats and quotas go by cascade), `DeleteStat`, `UpdateStatsCounts`.
`HandleCreateStat` is `CreateStat` and `CreateQuota`; `HandleUpdateStat` is `UpdateStat`
(the rename takes the quota along by cascade) and `UpdateQuota`. `StatementFails` is
every statement that fails without effect. A statement that commits and is reported as
failed is in the action of the statement (`AnswerCommitted`). `Refuse` is what the
handler rejects before the first statement.

The transaction of `UpdateStatsCounts` is one action: it holds the locks of the rows it
changed until it commits, and the set of stats it changes is any set, so a row that
it missed because another request renamed it in between is a smaller set.

Reading: `HandlePath` is `GetFullPath`, which looks at `public` and `user_id`, and `GetStats`,
which reads the stats of that id without looking again. `HandleUserPaths` and
`HandleHomePaths` are one statement each. An answer keeps which paths it shows (`seen`).

Safety: `ForeignKeys` and `UniqueKeys` (the constraints of the schema keep what the
non-atomic handlers do consistent), `PendingOwned` and `EditsByOwner` (the second
statements check no owner, and need not), `QuotalessPaid` (a stat is without a quota
only while it is being created or after an answer 500), `SeenAllowed` (an answer shows what its
asker may see, or could see when he asked and whose owner is still the same).

`PathBook` is the promise behind the page: a stat appears with its default quota, is
renamed, configured, recounted, disappears, each in one step. `BookKept` is the refinement:
`book` is the JOIN of `stats` and `quotas`, the query of GetStats. The half-made stat
of a creation is outside the JOIN, which is why the two statements look like one step.

### QuotaStreak

`Load` is the SELECT of GetStats: the rows that are due, with their age and progress,
go into the request. `UpdateQuotaStreak` is the UPDATE for one of them, decided on the
snapshot and applied to the row that has its name by then. Time passes by ticks, some to
an hour, so that rounding down to hours is in the model. The ten seconds of a request
are shorter than a tick: it can see the clock move once. `climbed` is history: what the
owner counted up. The rows are updated in any order (the SELECT has no ORDER BY).

The owner counts, reconfigures and renames a stat, deletes it, or makes a new one (`CreateQuota`: from
then on the row is in the JOIN).

Two more variables are history. `alone` is TRUE until two requests for the page overlap. `steady` is TRUE until a
stat comes under a name that some request is about to update, by a rename or a creation: the UPDATE finds
its row by name and then rewrites a stat it has not read. What `steady` excludes does go
wrong: with a swap of two names during a scan, TLC finds a streak credited for counts of another stat.

`OncePerPeriod` (two increments of a streak are a period apart) is what a streak should be, and
is not true. Safety: `OncePerPeriodAlone` (it is, until requests overlap, whatever the owner does
to the stats in the meantime), `CreditBacked` (each increment is backed by counts of its
own, until requests overlap), `StreakBound` (what remains when they do: one step per period and
request), each while `steady`.

### SignIn

Keys of Redis are a function from addresses to codes. `req` says what each request is
about to call: `GenerateOTP` and `Publish` for SendOtpEmail, `DelOTP`, `GetIdByEmail`,
`CreateUser`, `GenerateUUID` for VerifyOtp after its `GetOTP`. `Fail` ends a request
anywhere; a call that took effect and was reported as failed is that call followed by
`Fail`. `MailboxOf` is the case-insensitive comparison of the two SELECTs; the key of Redis
and the UNIQUE column are case-sensitive.

Assumptions about the surroundings: codes are not guessed and no two of the (six-digit,
five-minute) codes that are alive are alike; a mail reaches the mailbox of its address
or nobody; access to a mailbox is what identifies a person. Mailgun, the queue and the
email service are the set `mail`: a message in it may be read late, twice or never.
`RabbitClient` shows that the way to Mailgun is no worse than that.

Safety: `SignedInAsSelf`, and `OtpReuseBound` (what remains of "one-time").

### Session

One browser. `live` are the keys of Redis, each with the sign-in its token goes back to;
`jar` are the two cookies, which the tabs share; `tab` says what the request of each tab
is about to do. A refresh is `StartRefresh` (it leaves with the cookies of that moment),
`GetUUID`, `DeleteUUID`, `GenerateUUID` (GetUserIDAndRefresh) and `SetCookies`; when the GET
finds nothing, `RemoveCookies`. A logout is `StartLogout`, `Logout`, `RemoveCookies`; the
gateway ignores an error of the RPC, which is the second disjunct of `Logout`. A login
is `StartLogin`, `GenerateUUID`, `SetCookies`; its code and its user are in `SignIn`.
`Fail` is an error, the ten seconds, or an answer that is lost. The access token expires after
ten minutes, its cookie goes when the browser is closed, key and refresh cookie after
thirty days. `ended` and `calm` are history.

Safety: `RefusedForGood`, `CookiesMatch`, and `CalmSession`: what the code guarantees of
"one live token per session", which is only true while requests neither overlap nor fail.
A second request of the same browser may sign it out, fork the session or undo a logout.

### Pages

What a tab shows is the sort of its page (`gate` is the empty page of refresh.templ, with which "/" and
"/user" answer a request without claims) and where its script is: about to ask `/authenticated` or
`/auth/refresh`, waiting, sent on to "/" or "/login", or at rest. `HandleHome`, `HandleIDlessProfile`,
`LoginPageHandler`, `HandlePath` and `HandleProfile` are what the handlers answer a navigation with.
`CheckAuth` and `Refresh` are checkAuthAndRefresh; `Refreshed` and `NotRefreshed` what each page
does with the status; `Unauthorized` a request of a page that got 401. `Serve`, `Answered` and `Failed` are
the steps of `Session` for the tab's request, with what the script makes of the answer. `CheckAuthFails` is an
answer other than that of the handler: the script takes every status but 401 for signed in.
The user opens, closes, signs in and visits `/logout`.

`solo` is history: tabs that no other tab and no failure has disturbed since they were opened.

Safety: `SoloLogin` (a solo tab, with no other tab's request and no failure of its own, ends at the login form only if the browser has no
refresh token left) and, in
`PageTypeOK`, that a script waits exactly as long as its tab has a request. Liveness: `Settles`, every script
comes to rest, though the gate, the login page and "/" send the browser to each other.
The run checks `Session`'s properties again, under the requests that the pages send.

### Profile, Avatar, PostgresClient

`Profile`: a request is sent by a tab (`Open`, `Save`), runs its statement (`GetProfileById`,
`UpdateUser` with the UNIQUE column, or `Fails`), and is answered (`ShowProfile`, `ShowNewName`);
`UpdateUserUnheard` is a statement that was done and reported as failed, `Lose` and `Forget` are answers that nobody
gets. A page that is refreshed in between sends its request again, which is `Pages`' matter. `sure` is
history: the tabs that have seen every change of the name they show. Safety: `SavedShown`, such a
page shows the stored name when nothing is under way.

`Avatar`: an upload whose form was read truncates the user's file (`Create`) and writes it part by part
at its own offset (`Copy`); `StopUpload` is an error or the end of the service. `kept` is history: the picture that
the upload which emptied the file last has written to its end, if all that it overlapped send the same one, as a
user does who tries again while the first attempt is still going on. Safety: `AvatarKept`, the file is then that
picture and nothing else, whatever was there before. Two different pictures at once do mix, or leave a hole: nothing in
the repository excludes it, and it is listed under "hazards". `ParseMultipartForm(5 << 20)` refuses no size, though its
comment calls it a limit (avatar.go:23): what is beyond goes to a temporary file, so the model knows no picture
that is too large.

`PostgresClient`: `monitor` is the goroutine that is handed on from `Connect` to monitorConnection (`Ping`,
`CloseDb`) and back; a statement takes the pool that is in the field `db` when it begins. sql.Open dials
nothing, so a pool is made at the first attempt, and an open one works again as soon as the server does.
Safety: `OnePool`. Liveness: `ServesAgain`.

### RabbitClient

`link` is the goroutine of `Connect` and `monitorConnection` in each of the two services
(there is always one: the monitor calls Connect, which starts the next monitor); `ch` and
`open` are `c.ch` and whether that channel is still open; `req` are calls of `Publish`,
each with its two uses of `c.ch`; `consumer` is `Consume` and its goroutine: `ConsumeDeclare`
and `Consume` (the two uses of `c.ch`), the loop (`Deliver`, `HandleQueueMessage`), its
end (`ConsumerCloses`), the five seconds (`WakeUp`), and "gone" after an error that
nobody looks at. `LoseConnection`, `BrokerDown` and `BrokerUp` are the surroundings.
Time is in the variable `late` only: the monitor dials at once and the consumer
sleeps five seconds, so it finds a new channel unless a Dial has failed or something
was lost again meanwhile.

Of the broker and of amqp091 the model assumes: closing a channel closes its deliveries and
tells NotifyClose, also when it asks afterwards; the queue is not durable and
its messages are acknowledged when they are delivered; consuming from a queue that is not
there closes the channel. It also assumes that the broker has a mail when `Publish` returns: amqp091 only
writes it to the connection, so two mails of two connections, one before and one after a loss, could in
principle change places. The order of such two is assumed here, not shown. Nor is it shown that the last mail has the
code that counts: two requests of one address may store their codes in one order and publish them in
the other (`SignIn`; see hazards).

Safety: `SentInOrder`, and `QueueKept`, the refinement of `MailQueue` with `pending` being what
was delivered followed by what is queued. Liveness: `Reconnects` and `MailsMove`.

### CountSync

`page` is `pageStats`: per stat the object of the page (`stat.name`, `stat.count`,
`quota.countProgress`), `presentCount` and what is in the input field. `editor` are the
PageStatEditors; a stat made by StatCreator has two, since `initStat` makes one and the callback
another, and each keeps names of its own in its updater and its deleter. `req` are the
fetches: sent, waiting for `/auth/refresh`, or answered. `row` are the rows of the path.
A stat has a number, the order in which the owner asked for it, so that it stays itself under
another name; the code does not know these numbers.

The page: `HandleFetchedData`, `UpdateCount` (typing, plus, minus), `Tick` (updateCounts of
the ticker: the counts that changed are taken for saved, then sent), `Leave` (beforeunload), `Killed`.
The owner: `StartCreate`, `StartSave`, `StartDelete` (its second click). The server: `ServeCounts`,
`ServeSave`, `ServeDelete`, `ServeCreate`. Answers: `FinishSave`, `FinishDelete`, `FinishCreate`;
`Unauthorized` (401) and `Retry`; `Fail` is a lost request or answer, an error, or a refresh
that is not answered 200. A request outlives its page when it was sent (`paged` is FALSE):
the last PUT because of keepalive, others if they got far enough.

A quota's settings and the steps of a stat are left out, and with them saves that change no name
but a setting: they are `StartSave` with the old name.

The code orders no requests and repeats none but after a 401, so much can go wrong with it that it
does not promise. `calm` is the line: TRUE until a request fails, meets another one about the
same name, a page is killed with unsaved counts, somebody types another name during
a save, or an editor asks under a name its stat does not have any more. What `calm` excludes
is listed under "hazards" in `PROJECT.json`.

Safety, calm: `PageMatches` (page and rows have the same stats under the same names),
`NothingLost` (when all is answered, the rows have what the owner counted last, on
the stat he counted it on, across renames, deletions, creations under an old name and
reloads). Always: `FieldKeepsItsMeaning` (present count and field differ by what they differed when
the stat came onto the page). Liveness, calm: `CountArrives`.

## Runs

| Run | Instance | Shows |
|---|---|---|
| `path_requests` | 2 users, 2 paths, 2 path names, 2 stat names, 2 requests | `TypeOK`, `ForeignKeys`, `UniqueKeys`, `PendingOwned`, `EditsByOwner`, `QuotalessPaid`, `BookKept`, `SeenAllowed`: creation, rename, deletion, counting and reading meet between the statements |
| `path_quota` | 1 path, 2 stat names, 2 requests | violated: "Quota for each stat" (README.md:13) |
| `streak_readers` | 2 names, 2 readers, half hours, periods of 1 and 2 hours | `TypeOK`, `CreditBacked`, `StreakBound`, `OncePerPeriodAlone` |
| `streak_twice` | 1 name, 2 readers | violated: "Daily quota with streak" (doc/features.txt:14) |
| `signin_pair` | 2 people, 3 addresses, 3 codes, 2 requests | `TypeOK`, `SignedInAsSelf`, `OtpReuseBound` |
| `signin_once` | the same | violated: "One-time password sign in" (README.md:9) |
| `pages` | 2 tabs, 3 refresh tokens | `TypeOK`, `CookiesMatch`, `CalmSession`, `RefusedForGood` of `Session`; `PageTypeOK`, `SoloLogin`, `Settles` |
| `profile` | 2 users, 3 names, 2 tabs, 2 requests; 2 users, 2 pictures of one and two parts, 2 uploads; 4 pools, 2 statements | `TypeOK`, `SavedShown`; `AvatarKept`; `ClientTypeOK`, `OnePool`, `ServesAgain` |
| `session_logout` | 2 tabs, 4 refresh tokens | violated: after "logout", "refresh tokens" is refused (services/user/test/test.go:121-133) |
| `rabbit_mail` | 2 mails, 2 requests, 2 losses | `TypeOK`, `SentInOrder`, `QueueKept`, `Reconnects`, `MailsMove` |
| `rabbit_reconsume` | 1 mail, 1 request, 1 loss | violated: "Re-consume the queue after reconnecting" (shared/rabbitclient/client.go:143) |
| `count_sync` | 1 page, 2 stats, 2 names, 2 requests, 3 edits | `TypeOK`, `PageMatches`, `NothingLost`, `FieldKeepsItsMeaning`, `CountArrives` |

The five violations are disagreements between the code and its documentation, comments or tests:

- `path_quota`: the INSERT into `quotas` fails (or the request ends) after the INSERT into
  `stats`. No page shows the stat any more, and creating it again is answered 409.
- `streak_twice`: two requests read the page of a due quota, then both run the UPDATE.
  The second one adds one to a streak that has just been moved.
- `signin_once`: both requests run GET, then both DEL; the result of DEL, which would
  tell them apart, is not looked at.
- `session_logout`: a logout deletes the token between the GET and the DEL of a refresh of
  the same token. The refresh goes on and makes a new one: the session, and the browser
  that gets the cookies, is signed in after a logout that was answered with success.
- `rabbit_reconsume`: the broker is away for longer than five seconds. The consumer wakes up,
  finds the closed channel, and its error ends the goroutine; the client reconnects later and
  nobody consumes any more.

Bounds. Two requests of `PathService` are enough for one handler to be halted between its statements while
another one is, or changes what the first is about; two names of stats are enough for a rename to take a
name from under a pending second statement; two users and two paths for one to lead to the other's. `Small`
leaves out a third stat, and a second one beside two names of paths: statements that meet are
about one stat, or about two of one path. `MaxPathId`
bounds the ids handed out; a path that was deleted and one that is new are both in
reach with two. In `QuotaStreak`, five half hours let two periods of an hour or one of two hours
pass, with a remainder that is rounded down, and `MaxClimb` lets each step of the streak be
paid for and not paid for. Two readers overlap; two names let a rename or a creation move a row under
the scan or away from it. `Explored` stops where `steady` ends: no property but `TypeOK` speaks of
what follows, and that one is proved for all of it. In `SignIn`, three codes let one address have a second code while the
first is in use. In `Session`, two tabs overlap any two requests, and
four tokens are two sign-ins with an exchange each, or one with three; in `Pages`, three are one with two
exchanges, or two with one, and `Explored` follows, after the last of them, what may still change cookies or keys
without another. In `MCProfile` nothing is shared between the three modules, so each moves
while the others are where they begin; three names let two users change to one that is taken and one that
is not, two uploads overlap, of one picture or of two, pictures of two lengths show what a longer one leaves behind, and four pools are
those that two statements, the field and a new connection need. In `RabbitClient`, two
mails can be put out of order, and a second loss can meet the recovery from the first.
In `CountSync`, two requests are enough for one to overtake the other, and two names and three
edits for one stat to be deleted and another made under its name, or renamed into it. What happens to a
browser that is not calm any more is followed for one edit (the constraint `Explored`): the
properties but `FieldKeepsItsMeaning` and `TypeOK` say nothing about it, `CountArrives` holds of it at
once, and those two are proved for all of it.
The configurations declare symmetry of model values only; the two
addresses that are symmetric belong to one mailbox. `MCPages`, `MCRabbitClient` and `MCCountSync` check liveness
and declare none; `MCProfile` does, over the constants of `Profile` alone: its liveness property is
about `PostgresClient`, and once that has moved, `Profile` stands still.

Fairness is stated in four modules, and liveness is claimed only there. `RabbitClient`: weak
fairness of each goroutine of the two clients (the Go scheduler runs them; a sleep or a Dial ends)
and of the broker's delivery. Losses are bounded, and the properties say what follows if the broker
stays; that it comes back is not assumed. `CountSync`: weak fairness of the ticker (setInterval, for as
long as the page is there), of `Retry` and of the handling of an answer (promises are
settled), and strong fairness of the server per request, which says that after finitely many
401 and refreshes a request is let through: a refresh that is answered 200 has set a token that is
good for ten minutes. Failures are not assumed away: after one, `calm` is FALSE. `Pages`: weak fairness, per tab, of what goes on
without the user (`Run`): the browser follows a redirection and runs its script, and the gateway answers within ten
seconds. That a request fails is never assumed, and `Settles` names what may go on for ever, an error of
`/authenticated` at each attempt. `PostgresClient`: weak fairness of the monitor, which wakes up every ten seconds, and of the
end of a statement (ten seconds per request). That the server stays is the premise of `ServesAgain`. The other
specifications are `Init /\ [][Next]_vars`: a browser never has to send a request, and a handler
that fails is not retried by any service, so nothing in them must happen.

Deadlock is checked in every run but those of `RabbitClient`, where the system is at rest
when all mails of the bound are sent: elsewhere a slot can always take another request.

## Proofs

| Theorem | Says |
|---|---|
| `PathServiceProofs!TypeCorrect` | `Spec => []TypeOK` |
| `PathServiceProofs!ReferencesKept` | `Spec => []ForeignKeys` |
| `PathServiceProofs!KeysUnique` | `Spec => []UniqueKeys` |
| `PathServiceProofs!SecondStatementOwned` | `Spec => []PendingOwned` |
| `PathServiceProofs!OnlyOwnersEdit` | `Spec => EditsByOwner` |
| `PathServiceProofs!ShowsAllowedOnly` | `Spec => SeenAllowed` |
| `PathServiceProofs!ImplementsBook` | `Spec => BookKept` |
| `PathServiceProofs!HalfMadeIsReported` | `Spec => QuotalessPaid` |
| `QuotaStreakProofs!TypeCorrect` | `Spec => []TypeOK` |
| `QuotaStreakProofs!CreditIsBacked` | `Spec => []CreditBacked` |
| `QuotaStreakProofs!StreakIsBounded` | `Spec => []StreakBound` |
| `QuotaStreakProofs!OnceAPeriod` | `Spec => OncePerPeriodAlone` |
| `SignInProofs!TypeCorrect` | `Spec => []TypeOK` |
| `SignInProofs!NobodyElse` | `Spec => []SignedInAsSelf` |
| `SignInProofs!ReuseBounded` | `Spec => []OtpReuseBound` |
| `RabbitClientProofs!TypeCorrect` | `Spec => []TypeOK` |
| `RabbitClientProofs!ImplementsMailQueue` | `Spec => QueueKept` |
| `RabbitClientProofs!InOrder` | `Spec => []SentInOrder` |
| `SessionProofs!TypeCorrect` | `Spec => []TypeOK` |
| `SessionProofs!OneUserPerBrowser` | `Spec => []CookiesMatch` |
| `SessionProofs!CalmIsOneToken` | `Spec => []CalmSession` |
| `SessionProofs!TokensEndOnce` | `Spec => RefusedForGood` |
| `PagesProofs!ImplementsSession` | `PageSpec => Spec` |
| `PagesProofs!SessionUnderPages` | `PageSpec => []CookiesMatch /\ []CalmSession /\ RefusedForGood` |
| `PagesProofs!PageTypeCorrect` | `PageSpec => []PageTypeOK` |
| `PagesProofs!LoginFormEarned` | `PageSpec => SoloLogin` |
| `ProfileProofs!ProfileTypeCorrect` | `Spec => []TypeOK` |
| `ProfileProofs!PageShowsSaved` | `Spec => []SavedShown` |
| `ProfileProofs!AvatarIsKept` | `AvatarSpec => []AvatarKept` |
| `ProfileProofs!ClientTypeCorrect` | `ClientSpec => []ClientTypeOK` |
| `ProfileProofs!OnePoolOpen` | `ClientSpec => []OnePool` |
| `CountSyncProofs!TypeCorrect` | `Spec => []TypeOK` |
| `CountSyncProofs!FieldMeansTheSame` | `Spec => FieldKeepsItsMeaning` |
| `CountSyncProofs!CreatedOnce` | `Spec => []NewStats` |
| `CountSyncProofs!CalmAgreement` | `Spec => []CalmInv` |
| `CountSyncProofs!PageIsTheDatabase` | `Spec => []PageMatches` |
| `CountSyncProofs!CountsAreKept` | `Spec => []NothingLost` |

They hold for any set of users, names, counts, settings, quotas, periods, people, addresses, tabs, pictures and
pools and any bounds; the assumptions are those of the modules (`PathServiceAssumption`,
`QuotaStreakAssumption`, `SignInAssumption`, `SessionAssumption`, `ProfileAssumption`, `AvatarAssumption`,
`RabbitClientAssumption`, `CountSyncAssumption`): the values of the DEFAULTs are among the values,
`Nobody`, `NoCode` and `None` are not, a status is no name, a picture has at least one part, there is a shortest
period, and only finitely many requests are in flight.

`PathService`. The invariant is the conjunction of `TypeOK`, `ForeignKeys`, `UniqueKeys`,
`PendingOwned` and `ReadingOwned`. It is inductive because of two facts the code leaves to PostgreSQL:
ids of the sequence are not used twice (`path < nextId`, so a pending request's path
never becomes somebody else's), and the cascades remove or rename the quota together
with the stat. One lemma per action shows that it is kept. `OnlyOwnersEdit`, `ShowsAllowedOnly` and
`ImplementsBook` use it in each step: the first needs `PendingOwned` for the two
statements without an owner check; the second needs `ReadingOwned`, which says that a request between the
two statements of a page still knows whose the path is; the third needs `UniqueKeys` and `ForeignKeys` to see
that a rename or a reconfiguration changes one row of the JOIN and that a new quota
adds one.
`HalfMadeIsReported` counts. Of two states, the stats without a quota are compared by a function from the new ones to
the old ones (`ImageBound`): a rename moves a stat and its quota together, a deletion takes both, so neither adds one
(`NoneAdded`). Only `CreateStat` does, and its request is then in `Creating` or answered 500; it leaves `Creating` with the quota
that was missing or with an answer 500. There are finitely many stats and requests, which
`IsFiniteSet(Requests)` and one new row per step give.

`QuotaStreak`. None of the three properties is inductive; `StreakInv` is. For `StreakBound` it counts
(`Bounded`): the steps a streak has, plus one for each request that read the row before the last step
and can still make one too late (`Stale`), are paid for by the time up to `last_done`. A step in time
costs a period and makes at most the other readers stale; a step of a stale reader makes one less stale. For
the other two, while requests do not overlap (`OneReader`): what was counted since `last_count` is
not credited yet (`Paid`), and for each row of a snapshot its period has passed, and neither its progress nor what was
counted since is credited (`InTime`).

`SignIn`. `SignedInAsSelf` is not inductive. The invariant adds that a code was made for
one address only, wherever it is by now (`OneAddressPerCode`); that a request past its
GET is from the owner of its address (`VerifierOwnsAddress`); and that the user it is
about to sign in has that address (`FoundUserIsRight`). `ReuseBounded` adds `CodeInv`: the requests that hold a code and the
sign-ins it has made are never more than there are requests (`UsesFitSlots`). While the key is there nobody who
brought the code has got past the DEL, and it has signed in nobody (`GoneWhenUsed`); so the sum only
grows by requests that get the code, which hold it together. Once the key is gone no request can get the code any more, and a
sign-in turns a holder into a token. That it does not come back needs that codes in use have been generated
(`UsedWhereMade`).

`Session`. `CalmSession` speaks of the moments between requests. The invariant adds that a
calm browser has one request under way at most (`OneAtATime`) and what Redis holds at each
point of that request (`CalmStep`): the token of the cookie before the DEL, nothing between
DEL and SET, the new token until the cookies are set. `RefusedForGood` needs only that a
new token has a number of its own.

`Pages`. Every step of a page is a step of `Session` or leaves it alone, so all of `Session`'s theorems hold under the
pages. `SoloLogin` needs three facts about a solo tab: no other tab has a request under way
(`SoloAlone`); so the claims it found missing are still missing when it asks for a refresh (`SoloRefresh`), and
the answer that removes the cookies comes to a browser whose refresh token was refused or is
not there (`SoloRemove`).

`Profile`. `TabInv` says of every tab what its requests can be (`RequestsFit`), and of a tab in `sure`, that
no change is to come of which it will not hear: while it loads, the name in its answer is the one stored
(`SureLoading`); afterwards the only change under way is its own, and when that was answered "ok" the stored name is
the one it sent, otherwise the one it shows (`SureProfile`). `Avatar`: as long as the upload that emptied the file
last agrees with all others, it has written the parts before its next one, and beyond them are only parts of the same
picture in their places, with gaps (`AgreedCopies`, `Copies`); once it is done there is no place for a gap, and who still writes
writes what is there (`KeptCopies`). `PostgresClient`: `OnePool` with `ClientTypeOK` is inductive.

`RabbitClient`. Each step maps to a step of `MailQueue` or to none: a delivery moves the head
of the queue to the end of the inbox and leaves their concatenation alone; a closed channel
loses one half of it and a stopped broker the other. `InOrder` is then an argument about
`MailQueue`: what was sent, what is on its way and what is still to come are
ascending (`OrderInv`), whichever part is lost.

`CountSync`. That the field keeps its meaning needs two facts. `FieldInStep`: the field
always shows what calculatePresentQuotaProgress computes, so writing it there after a save
changes nothing. `NewStats`: a stat that is being created is not on the page yet and no other request
creates it, so the answer to a creation overwrites no counts; that in turn needs to know
that a closed page has no request whose answer it would still handle (`ClosedIsEmpty`).
No assumption about the order of requests is used: the theorem holds also when `calm` is FALSE.

`PageMatches` and `NothingLost` speak of the moments when nothing is under way; `CalmInv` says what a calm page and
the rows have in common at every other one. A stat has one row, and one that has not been on the page was not counted
(`OneRow`, `NeverCounted`; these hold without calm as well). While it is calm, the requests under way are about
different names (`Apart`), and the page still shows each stat under the old name that its request was sent with
(`Known`). Of a name that no answer on its way is about, page and rows have the same stat (`Matches`); of the others the row
is already as it will be shown (`Done`). The count that the page takes for saved is in the row, or in the one request
that counts under this name (`Arrives`). One lemma per action shows that this is kept. What makes it hard is what
they do to each other: the ticker takes counts for saved that are only sent; a page that is
left takes them along; and a deletion answered while a rename is under way must find its own stat (`RowOnPage`).

Only model-checked: the liveness properties (`Reconnects`, `MailsMove`, `Settles`, `ServesAgain`,
`CountArrives`), since liveness under fairness and ENABLED are out of the prover's reach. Every invariant and every action
property of a passing run is proved. Nothing is defined by recursion, so no theorem needs induction
over data.

## Not modelled

- `patheditor.ts`, `pathdeleter.ts`: one request each, on the row that `PathService` has, with the protocol of
  `Profile`'s names; `home.ts` and the lists: rendering.
- Asking for a code on the login page: it is `SignIn`'s `SendOtpToEmail` or `SendOtpToName`, whose answer changes only what the
  field is for.
- `step_equivalent`: a number of a stat that only sums depend on.
- Proxies (they pass requests on as they are), rate limits, static files.
- Signing and parsing of access tokens: the library's. What a request gets from it, a user or nobody, is in every module.
- Mailgun: one call of an external service. The deliveries of `RabbitClient` end there.
- In `CountSync`: quotas of a stat, other browsers of the same owner.
- The second attempt of a transaction that PostgreSQL aborted for a deadlock: there is none, and the abort is a failed statement.
- What the home page says of a period that is over: one SELECT without a decision (see hazards).
- Overflow of INTEGER columns: PostgreSQL reports an error, which is a failed statement.
- Close of the clients and the order in which services start and stop.
- Generated code (`userpb`, `*_templ.go` beyond what their templates say, `static/*.js`); the copies of
  `shared/` in the services are the same code, and of `PostgresClient` and `RabbitClient` the map names several.

## Plan

Done, in the order of importance: `PathService` with `PathBook` and the readings, `QuotaStreak`, `SignIn`,
`Session`, `RabbitClient` with `MailQueue`, `CountSync`, `Pages` on `Session`, `Profile`, `Avatar`,
`PostgresClient`, and the proofs listed above. Left:

1. Two browsers of one owner over `CountSync`, and the settings of a quota there.
2. One specification of the browser: `CountSync`'s `Unauthorized` and `Retry` over `Pages`.
