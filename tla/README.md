# pomade: TLA+ models and proofs

Pomade splits a Nostr key with FROST between several *signers*. A *client*
registers one share with each of them, signs and derives shared secrets with a
threshold of them, and gets its access back by email (a password or one-time
passwords). The repository holds three signers with one protocol (Rust, Go,
TypeScript), the TypeScript client, and two FROST libraries (Rust and Go).

Two parts are modelled, from their Rust sources:

* **one signer** (`src/pomade-signer-rust`): its requests run on several threads
  with no lock around a request, so it is where the order of things matters
  most, and it holds the state that must not go wrong: key shares, nonces and
  sessions;
* **the threshold key** (`src/frost-taproot-rust`, and the parts of the signer
  that compute with it): how a key comes to be, is refreshed, recovered and
  used to sign, by members that each compute alone and of whom some packages
  are lost, repeated or late.

## The system

| part | state it keeps | operations | what is hard | what makes it correct |
|---|---|---|---|---|
| Rust signer, signing (`signer.rs`) | `commits_by_client` (memory), `sessions` | `/sign/commit`, `/sign/complete`, `/ecdh` | two threads, two rounds, restarts and cleanup between them | a nonce signs once, and only what it was committed to |
| Rust signer, sessions | `sessions`, `sessions_by_email_hash` | `/register`, `/recovery/setup`, `/session/deactivate`, `/session/delete`, `/session/list` | whole records written back from old copies; two tables that must agree | revocation lasts; a session with an email can be found by it |
| Rust signer, access by email | `challenges`, `logins`, `recoveries` | `/challenge`, `/login/start`, `/login/select`, `/recovery/start`, `/recovery/select` | one-time use of passwords and options; keys that change role | one-time passwords are used once, an email opens its own sessions, a key has one role |
| Rust signer, rate limits (`ratelimit.rs`) | a bucket per client key and per email | get, check, record | get and set apart, sliding window, cleanup | the budget of a window holds, nobody is refused without cause |
| Rust signer, cleanup and server (`main.rs`) | all of the above | hourly cleanup, restart | runs beside the requests, on lists it read before | what has run out is removed, and nothing that it races with breaks |
| Rust signer, storage (`storage.rs`) | sled trees, encrypted | get, set, delete, entries | what a crash loses | one operation is atomic |
| Rust signer, groups and session packages (`session.rs`, `schema.rs`) | none | group, share and nonce validation, session ids, partial signatures, ECDH shares | duplicates, boundaries; several signers that must compute the same context | signers that answer one request agree on what they sign, and their answers add up |
| Rust signer, `nostr.rs`, `pow.rs`, `message.rs`, `mailer/` | none | NIP-98 authentication, proof of work, mail | none of it is stateful | |
| Go signer (`pomade-signer-go`) | as above, in bbolt | as above; cleanup on every request | as above | as above |
| TypeScript signer (`packages/core/src/signer.ts`, `packages/signer`) | as above, in SQLite or memory | as above, most handlers in a transaction | transactions and writes outside them share a connection; a rejected transaction | serial execution of the handlers |
| TypeScript client (`client.ts`, `rpc.ts`) | secret, group, peers | register, log in, recover, sign, ECDH over n signers | answers lost after the work was done; permutations of signers raced | a threshold of honest signers suffices; a failed call leaves nothing half done |
| FROST libraries (`frost-taproot-rust`, `frost-taproot-go`) | none: the callers hold polynomials, shares and packages | dealer, shares, Feldman commitments, refresh, recovery, DKG, signing, ECDH | index and threshold boundaries, absent checks, signs of points, packages lost or late | any threshold of shares gives the secret, before and after a refresh or a recovery |
| Signer service, templates, example, tests | | I/O | | |

A signer's parts meet in its tables. A request is authenticated
(`nostr.rs`), routed by `Signer::handle`, and runs synchronously on one worker
thread of the tokio runtime; it reads and writes the tables with single
operations, and only `commits_by_client` is behind a mutex. The cleanup task
does the same once an hour. Signers never talk to one another: the client
carries everything between them.

## Modules

| module | models | extends |
|---|---|---|
| `SignerState` | the tables, what a worker thread holds in its locals, the collection operations | |
| `SigningHandlers` | `handle_sign_commit`, `handle_sign_complete`, `take_commit`, `handle_ecdh` | `SignerState` |
| `SessionHandlers` | `handle_register`, `handle_recovery_setup`, `handle_session_deactivate`, `handle_session_delete`, `add_session`, `deactivate_session`, `delete_session`, `check_key_reuse` | `SignerState` |
| `AuthHandlers` | `handle_challenge`, `handle_login_start`/`_select`, `handle_recovery_start`/`_select`, `get_authenticated_sessions` | `SessionHandlers` |
| `Signer` | all of them with `cleanup`, the passage of time and restarts: the specification | `SigningHandlers`, `AuthHandlers` |
| `OneTimeNonce` | abstract: the life of a nonce, fresh, open, then spent or lost | |
| `SignerProperties` | what the signer promises, and the refinement mapping to `OneTimeNonce` | `Signer` |
| `SignerLiveness` | fairness and what eventually happens | `SignerProperties` |
| `RateLimit` | one rate-limit bucket with its users and the cleanup | |
| `MCSigning`, `MCEmail` | instances for TLC | `SignerProperties` |
| `SignerProofs`, `AccessProofs` | theorems about the signer | `SignerProperties` |
| `RateLimitProofs` | theorems about the rate limit | `RateLimit` |
| `Curve` | scalars and points (`ecc/`), tweaks of keys (`ecc/state.rs`) | |
| `Shares` | polynomials, interpolation, shares, Feldman commitments, ECDH packages | `Curve` |
| `KeyPackages` | the dealer, the rounds of the DKG, refresh and recovery packages, the group id | `Shares` |
| `FrostSigning` | nonces, contexts, partial signatures, their verification and combination | `KeyPackages` |
| `ThresholdKey` | the life of a key: deal or DKG, refresh, loss and recovery | `KeyPackages` |
| `ThresholdKeyProperties` | what a threshold key must keep | `ThresholdKey`, `FrostSigning` |
| `QuorumSigning` | registration, both rounds and ECDH over several signers, as `signer.rs` and `session.rs` compute them | `FrostSigning` |
| `QuorumProperties` | what signers that compute alone must agree on | `QuorumSigning` |
| `MCThresholdKey`, `MCQuorum` | instances for TLC | |
| `FieldProofs` | lemmas: induction, folds, residues, powers, products, inverses, and the equation a partial signature satisfies | `FrostSigning` |
| `InterpolationProofs` | lemmas: sums over finite sets, polynomials and Lagrange interpolation; that shares which open a key derive and sign for it | `FieldProofs` |
| `ThresholdKeyProofs` | theorems about the threshold key: types and the DKG | `ThresholdKeyProperties`, `InterpolationProofs` |
| `HeldKeyProofs` | theorems about the threshold key: what a quorum holds, derives and signs | `ThresholdKeyProofs` |
| `QuorumProofs` | theorems about the quorum | `QuorumProperties`, `InterpolationProofs` |

### How the state corresponds to the code

* `sessions`, `logins`, `recoveries`, `challenges` and `index`
  (`sessions_by_email_hash`) are the collections of the same names: functions
  from the keys they hold to records with the fields the code has.
* `commits` is `commits_by_client` flattened: each pending commitment carries
  the client whose list it is in. A commitment's secret nonce pair and its
  commit id are drawn together and are one value of `Nonce`.
* `task[h]` is the request worker thread `h` serves: `pc` names the access it
  makes next, and the other fields are the locals it will use, among them the
  *copy* of a session that it read earlier. So one step is one operation on
  shared state, and whatever can come between two operations of a request does.
  A few lookups that nothing combines are one step (the three of
  `check_key_reuse`, the sessions of a list); each is noted where it is made.
* `cleaner` is the cleanup's position: the table and the keys it has listed.
* `created_at`, `last_activity` and the cutoffs become the flags `old`, `idle`
  and `stale`, raised by `AgeSession`, `AgeGrant` and `AgeCommit`.
* `drawn`, `signed`, `mailed`, `redeemed`, `opened` and `usedKeys` are history:
  no handler reads them, except that `drawn` and `mailed` make what the code
  draws at random fresh, and that `usedKeys` lets a client keep the rule of the
  real one, a new key for every registration, login and recovery. The `again` of
  a signature or an acceptance tells a repetition from its first time.

What is abstracted there: a one-time password, a hash, a nonce and a password hash
are model values (a six-digit code is not guessed or drawn twice, and the hash
of an email is injective); a request that is refused before it has written
anything, by authentication, schema, proof of work, rate limit or a failed
lookup, leaves no trace and has no action; a group is named by its user key.
The first client of an email's list, to whom the challenge goes, is any client
of the list.

For the threshold key and the quorum:

* A *scalar* is a number below a small prime `Q` and a *point* is named by its
  discrete logarithm, which only the definitions at the head of `Curve` look
  at. An equation that the code satisfies for all scalars is satisfied over any
  prime; a small prime only adds coincidences, and those the code refuses or
  panics on are guards here as there: the identity has no 33-byte form
  (`Serializable`), so a group key, a group nonce or a commitment that happens
  to be the identity stops its caller (`CtxOk`, `Postable`). Over secp256k1
  none of these is ever met. Which of a point and its negative has an even Y is the constant `EvenY`; the 32-byte
  form of a point is the pair of both, so that a sign that is lost in the code
  is lost here.
* The hashes (`PopHash`, `Rho`, `Challenge`, `Hmac`, `H3`, `BinderHash`) are
  constants, functions of what the code hashes and of nothing else; ids made by
  hashing are the tuple of what is hashed.
* In `ThresholdKey` the library's callers hold all state. A step is one library
  function applied to packages that exist, in any order: a participant of
  `Flaky` finalizes with every round-2 package missing, once, or twice; refresh
  packages reach members in any order and subset; a helper makes its recovery
  package from the share it has then. `epoch` and `arrived` are history: they
  say which shares *ought* to fit together. Participants are honest: what goes
  wrong is loss, repetition and delay, and damage to one share
  (`DamagedShareRefused`).
* In `QuorumSigning` a handler is one step, since `Signer` has its
  interleavings inside one signer. What is added is that there are several: a
  signer may hold another dealing of the same key, be offered a share that does
  not fit, or have answered round one for another member list; the client
  (external) sends posted nonces in any choice and order the instance names.
  A request's content, type and stamp, hashed and otherwise unused, are left out.

## Runs

The clients and threads of the signer's instances are few because every hazard
listed needs two requests in flight, or one with the cleanup beside it, and at
most three keys (the one that has a session, the one that logs in and a third
that interferes).

| run | what it checks | bounds |
|---|---|---|
| `signing` | `NonceSignsOnce`, `SignedAsCommitted`, `ImplementsOneTimeNonce` | 2 threads, 2 clients, 2 nonces, 2 messages, 2 indices; commitments age, sessions are deleted and registered anew between the rounds, 1 restart |
| `revocation` | `RevokedForGood` | 2 threads, 2 clients with keys that are used again; register, log in by password, both rounds, ECDH, deactivate; pending logins run out |
| `email` | `IndexComplete`, `EmailOwnsItsSessions` | 2 threads that keep apart (`ApartSpec`, below) and the cleanup, 3 clients with fresh keys, 2 emails, ECDH, sessions grow idle, 1 restart |
| `roles` | `TypeOK`, `KeyRoles`, `OtpAcceptedOnce` | 2 threads that keep apart and the cleanup, 2 clients with keys that are used again, 2 passwords, 2 one-time passwords, logins and recoveries run out |
| `liveness` | `RequestsAnswered`, `CommitsEnd` | 2 threads, 1 client whose key is used again |
| `rate_limit` | `BudgetHolds`, `RefusalEarned` | 2 threads, 2 attempts, a window of 2 s, 6 s: three windows, so that a budget ends, is swept and begins again |
| `threshold_key` | `TypeOK`, `QuorumHoldsKey`, `RosterMatchesShares`, `EcdhAgrees`, `QuorumSigns`, `HonestRoundsFinalize`, `DamagedShareRefused` | order 11, 4 members, threshold 3; dealt, or by DKG with two choices for one polynomial; member 4 flaky, members 1 and 4 refresh, member 3 loses its share; with no tweaks and with two |
| `quorum` | `TypeOK`, `PartialSignaturesVerify`, `AnsweredRequestsVerify`, `SignersAgree`, `EcdhSecretAgrees` | order 11, 3 signers, threshold 2; a key dealt twice; member lists 1-2, 1-1-2, 1-2-3 and nonces in several orders; a message with and without tweaks; 2 requests |
| `dkg_coverage`, `deactivation`, `otp_race`, `otp_age` | a disagreement of code and documents each (below) | the least that shows it |

`Path` names the endpoints an instance calls. The runs differ in it, and in the
time windows that run out (`Elapses`), so that each stays within minutes;
between them every action is taken. Deadlock is not checked where an instance
may use up its clients, one-time passwords or clock, and with them all it can do.

Why these are enough: a member is special only as the one that is flaky, that
refreshes, that is lost or that helps, and four members with a threshold of
three give one of each and still two different quorums. Three signers give a
quorum, a larger one, and one outside. Everything else in these two models is
an equation over the field, and the draws avoid the values for which it would
hold by accident: each has a mutant of the code that breaks it.

Symmetry: clients, threads, nonces, emails, messages and one-time passwords are
interchangeable in the runs that say so; `liveness` uses none.

### What the runs show

* **Nonces.** Two completions of one commitment, a completion racing the
  cleanup, a restart between the rounds, a client that names another's
  commitment, and a key whose session was deleted and registered with another
  share all leave a nonce with at most one partial signature, made with the
  share, the members and the nonce of its commitment. The lock around
  `take_commit` and the share index test of `sign_msg` are what this rests on:
  without either the run fails.
* **Revocation.** A deactivated key stays revoked from the moment on at which
  no request that overlapped the deactivation is left (and no login by that
  key is pending). Until then it does not: run `deactivation` below.
* **Email.** With worker threads that keep apart and the cleanup beside them,
  sessions are found by their email, and the stale index entries that the
  cleanup leaves behind do no harm, *because clients make a fresh key for every session*. With
  `KeyReuse = TRUE` a stale entry comes back to life under another email, and
  `EmailOwnsItsSessions` fails.
* **Overlapping requests.** `IndexComplete`, `EmailOwnsItsSessions`, `KeyRoles`
  and `OtpAcceptedOnce` fail when any two requests may overlap: the code reads
  and writes apart. `ApartSpec` is the signer in which threads interleave
  as before and four things do not happen, each of which breaks something:
  two requests act for one client key (`KeysApart`: both pass
  `check_key_reuse`, or one writes back a session the other has deleted); two
  hold a copy of one email's list (`ListsApart`: the list that is written last
  wins); two are between the get and the delete of one challenge (`OtpsApart`:
  run `otp_race`); a restart comes between two writes of `add_session` or
  `delete_session` (`WholeRestart`: a session that no list names). The runs
  and the theorems say that everything else (the other interleavings, cleanup,
  expiry, restarts) keeps the four, and each theorem which of the four
  conditions it needs.
* **Rate limit.** For requests that do not overlap, no stretch of a window
  records more than the budget, or twice that when the cleanup deletes a bucket
  that was renewed after it was listed. Overlapping requests lose records, but
  only ever to the client's advantage.

* **Threshold key.** Members whose shares contain the same refreshes can use
  the key whatever the order of refreshes, losses and recoveries was. A mix
  cannot, and nothing in the library marks it: helpers whose shares contain
  different refreshes when they help make the target's share useless, silently
  (the history variable `epoch` is `None` for it and no property speaks of it).
  A refresh leaves roster and merged commitments behind, so partial
  signatures of refreshed members verify only in combination. A damaged share
  of round 2 is refused unless it is the exact negative of the right one:
  `verify_share` compares x-coordinates.
* **Quorum.** The group id in a request binds key, indices and the nonces of
  registration, not the public keys of the members: two dealings of one key are
  told apart by those nonces. With them, and the comparison of the member list with that of
  round one, signers that answer one request sign in one context. This needs a
  list that names nobody twice: with members 1, 1, 2 the check "one nonce each,
  as many nonces as members" (`signer.rs:958`) leaves room for a nonce of a
  third member, and the signers agree, but on a context over three members.

### Where code and documents disagree

* `dkg_coverage`: `dkg_finalize` says it returns an error when the received
  shares do not cover all participants (`dkg.rs:193-195`); it verifies and sums
  what it is given, and a participant that lacks a package gets `Ok` and a
  share the roster does not list. Those who got every package are not affected
  (`RosterMatchesShares`, `QuorumHoldsKey`).
* `deactivation`: `/sign/complete` and `/ecdh` write back the session they read
  (`..session`), so a deactivation in between is undone; `PROTOCOL.md:430` says
  it revokes the key.
* `otp_race`: the challenge is got and then deleted, and two logins can both get
  it; `PROTOCOL.md:265` says one-time passwords are used once.
* `otp_age`: nothing looks at a challenge's age when it is used; `PROTOCOL.md:265`
  says it must expire.

### Fairness

`RequestsAnswered` and `CommitsEnd` assume that a worker thread goes on with
its request (weak fairness of `Continue(h)`: handlers are synchronous and never
wait for one another beyond a mutex held for a few instructions), that time
passes for a commitment (`AgeCommit`), and that the cleanup task comes round
again: weak fairness of its deletions, and strong fairness of its last step,
`CleanCommits`, since the tables it works through before may be expiring again
each time it looks and the loop of `main.rs` ends every round with the
commitments all the same. Nothing is assumed of clients or restarts.

## Proofs

The theorems hold for every number of clients, threads, nonces, emails and
restarts, from the named assumptions of `SignerState` (threads and clients are
finite sets, `None` is not an email, password or one-time password, and the
like). They are safety properties of the same `Spec` the runs check; where a
theorem needs a condition that the code does not see to, it says so in its
hypotheses. Those of the threshold key and the quorum hold for every field, any
number of members, any threshold, and any draws, hashes, groups, member lists
and requests.

* `SignerProofs!TypeCorrect`: `TypeOK`. Every handler step is shown to leave each
  table and its own locals in their sets; `TypeOK` is inductive as it stands.
* `SignerProofs!EveryNonceSignsOnce` and `EverySignatureAsCommitted`. Neither
  is inductive: that a second signature is impossible depends on where the
  commitment is. `NonceInv` adds that a commitment is in one place only:
  pending, or held by the one thread that took it, or signed (`PendingOnce`,
  `HeldOnce`). Steps that neither touch a commitment nor start to sign are
  `Quiet` and dealt with by one lemma; five steps remain.
* `SignerProofs!SignerImplementsOneTimeNonce`: with the mapping of
  `SignerProperties`, every step of the signer is a draw, a signature, a loss of
  open nonces or a stutter. It needs `NonceInv` (a nonce that signs was open
  and not spent) and `TypeOK`.
* `SignerProofs!DeactivationRevokes`: `RevokedForGood`. The strengthening is
  `CopiesAsRead`: the copies that signing requests hold are of active sessions,
  and the copy a deactivation writes is deactivated. With it, each step either
  leaves the session and the requests that threaten it alone, or writes a
  deactivated record, or deletes the session.

* `AccessProofs` proves the four properties of access by email, each under the
  conditions of `ApartSpec` it needs (`ApartMeetsConditions`: the runs check
  under exactly these). None is inductive.
  * `KeysHaveOneRole`, under `KeysApart`: a request past its checks still finds
    its key without the roles it has checked for (`RoleOf`), until its write.
  * `OtpsAreAcceptedOnce`, under `OtpsApart`: a one-time password that was mailed
    is in at most one place, the challenge of one email, the hands of one
    request, or the past (`Outstanding`).
  * `EmailsOpenTheirOwn`, under `KeysApart` and fresh keys (`KeyReuse = FALSE`):
    a key that is in an email's list, in a request's copy of it, or about to
    enter it is tied to that email for good (`LinkedAreTied`), because a key
    that was used is never registered again (`KeysUsed`). The index entries that
    the cleanup leaves behind are links too.
  * `SessionsAreFoundByEmail`, under `KeysApart`, `ListsApart` and
    `WholeRestart`: a copy of a list is the list with the request's own key added
    or taken out, and a copy of a session that will be written back is of a
    listed key (`IndexTask`).
* `RateLimitProofs!RefusalIsEarned`, with no condition: a bucket, and each copy of
  one, counts no more than the last requests recorded since it began
  (`Earned`), so whoever is refused has used the budget up, whatever overlaps.
* `RateLimitProofs!WindowBudgetHolds`, for requests that do not overlap: a bucket
  counts the last records, and of those before it at most a budget are less than
  a window older (`Counts`; `Fallow` when there is no bucket). What the
  cleanup listed is the present bucket at an earlier time, or one that had run
  out when the present one began (`Listed`): deleting it loses at most one
  budget, which is where the factor two comes from.
* `QuorumProofs!AnsweringSignersAgree`: `SignersAgree`. The inductive invariant
  says of every partial signature, by itself, that all of it but its signer is
  a function of its request (`Bound`): the member list because it is compared
  with round one's, the session id because it is recomputed and compared, the
  key because the group id has it, and the nonces because they come with the
  request. That the context's indices are the members is a counting argument
  (`NoncesCover`): one nonce for each member is an injection of members into
  nonces, and as many nonces as members make it onto.
* `QuorumProofs!QuorumTypeCorrect` and `EveryPartialSignatureVerifies`:
  `TypeOK` and `PartialSignaturesVerify`. `VerifyInv` says what makes the
  equation of one signature true: a session's share is the one its group lists,
  a posted nonce is the public one of what its signer drew from it, and a
  request's id names its group (`IdTellsGroup`), so the client rebuilds the
  signer's context. Assumed of the constants is what the code draws or checks:
  hashes are read as numbers (`HashesAreNumbers`), a list of hashes is not empty
  (`HashAssumption`), a dealer draws nonces for each group so that no two share
  one (`GroupAssumption`), and an offered group with a threshold in range is one
  that clients sign for (`OfferAssumption`).
* `QuorumProofs!SignersDeriveTheSecret`: `EcdhSecretAgrees`, for signers of one
  group whichever of its shares they hold. A group is dealt from a polynomial
  (`DealtAssumption`), so a share that passes `is_group_member` is that
  polynomial's value at its index (`GroupsAreDealt`), two signers with one index
  hold one share (`ShareOfIndex`), and shares of enough indices open the key
  (`SharesOpenKey`).
* `QuorumProofs!AnsweredRequestsCombine`: `AnsweredRequestsVerify`. For this
  `VerifyInv` also keeps, of every partial signature, the share and the nonce it
  was made of and the checks it has passed (`Made`, `SignedFor`). That there is
  one answer for each member, and no more, follows: a context that is not
  refused has one nonce for each index (`IndexesApart`), so two answers with one
  index are one signature (`MadeOnce`); the nonces are those of the members
  (`NoncesCover`); and with enough members the shares open the key, so the
  signatures combine (`AnswersFit`, `SignaturesCombine`).
* `FieldProofs!SignatureVerifies` is the equation: whatever the signs of the
  tweaked key and of the group nonce, the signature made from a share and a
  secret nonce is the one checked against their points. That `scalar_invert`
  is defined where `interpolate_x` uses it rests on indices below the order:
  differences of two of them are not zero, and no product of such is
  (`IndicesDiffer`, `ProductIsNotZero`).
* `ThresholdKeyProofs!ThresholdKeyTypeCorrect`: `TypeOK`. `TypedInv` adds what
  its steps need: the packages of a recovery are finitely many and hold a scalar
  for each helper (`RescueTyped`), and an epoch is `None` or a set of members.
  Most of the work is in the values of the library's functions: folds over
  shares, points and commitments stay in their sets, and the Lagrange
  coefficients of different indices have no zero below the fraction line
  (`LagrangeTyped`). Assumed of the constants is that `create_share_coeffs`
  draws as many scalars as it is asked for (`DrawAssumption`) and that hashes
  are read as numbers (`PopHashAssumption`).
* `ThresholdKeyProofs!HonestRoundsAreAccepted` and `DamagedSharesAreRefused`:
  `HonestRoundsFinalize` and `DamagedShareRefused`. Both rest on
  `CommitsAreValue`: the commitments of a polynomial, summed with the powers of
  an index (`verify_share`), are the point of the value that Horner's rule gives
  there (`evaluate_x`). The one fold starts at the constant term and the other
  at the leading coefficient; the sum of powers so far plus the next power times
  what Horner's rule has left is the same after every coefficient
  (`HornerEquation`), which is the invariant of the induction.
* `HeldKeyProofs!QuorumsHoldTheKey`, `RosterMatchesHeldShares`,
  `QuorumsAgreeOnSecrets` and `QuorumsSign`: `QuorumHoldsKey`,
  `RosterMatchesShares`, `EcdhAgrees` and `QuorumSigns`. None is inductive.
  `HeldInv` says what a share is at any time: the value, at its owner's index, of
  the key's polynomial plus the refresh polynomials of its epoch (`SharesFit`,
  `EpochPoly`), which have no constant term; that all members know of one group, dealt to all or merged from the
  commitments of all (`OneGroup`); and that a helper's answer is its own term of
  the interpolation, cut into parts (`RescueFits`). Each way to make a share is
  one lemma: `DealFits`, `DkgShare` (the shares received are the participants'
  polynomials at one index, so their sum is the value of the merged one),
  `RefreshShare` and `RecoverShare` (the sum of the helpers' sums is the sum of
  the helpers' terms: the two sums over a matrix). One assumption is new:
  `None` is neither a set of members nor a list of arrivals (`NoneAssumption`),
  which any choice of a value for "nothing there" meets. `QuorumsSign` adds that
  tweaks are numbers (`TweakAssumption`) and that the hashes of signing and of
  nonce derivation are (`SigningHashesAreNumbers`, `NonceHashIsNumber`); it
  covers what every member signs alone (`MemberVerifies`), where its share is
  the one the roster lists, and the combination (`QuorumCombines`).
* What they rest on is in `InterpolationProofs`. `Interpolation`: the values of a
  polynomial of n coefficients at n or more different indices, each times its
  Lagrange coefficient for x (`Weight`), add up to its value at x. The
  induction is on n, and never divides polynomials: a polynomial is its first
  coefficient plus x times a shorter one; a factor i - b in a value takes the
  index b out of the sum (`MomentStep`); and the weights of any set of indices
  add up to one (`WeightsAddUp`, itself by induction on the set). The library
  computes the coefficients at the root with the signs turned (`interpolate_x`);
  `RootWeight` shows that they are the same.
* What both models sign and derive with is proved once, for a set of shares that
  interpolate to the secret of a key (`Opens`). `QuorumDerives`: their ECDH
  packages combine to the secret of that key. `SignaturesCombine`: whatever the
  tweaks, the signs of the points on the way, and the order of the nonces, their
  partial signatures add up to a signature of the tweaked key. Each partial
  signature is its weighed secret plus its bound nonce, both with the signs of
  the tweaked key and of the group nonce (`SignatureTerm`), so the sum is the
  secret and the group nonce with these signs (`SigsAddUp`, `NoncesAddUp`). A
  tweak keeps "the tweaked secret is the secret times the signs so far plus the
  tweaks so far" (`TweakStepFits`, `PointStateFits`), and the verifier's view,
  which knows only the x-coordinates, gives the same sign twice
  (`FinalSignature`).

The library's induction theorems take an operator and cannot be used here. In
`FieldProofs` induction goes through a first-order form, "a set of numbers with
0 and the successor of each of its members is all of them" (`SetInduction`, from
the least element of `WellFoundedInduction`), which gives what the folds need:
that the function their definitions choose exists, and that a fold stays in a
set its step stays in (`FoldExists`, `FoldTyped`). A fold over a sequence is
then the last value of a function on an interval whose neighbours differ by one
step (`LeftChain`, `RightChain`; `SumSteps`, `PointSteps`, `HornerSteps`,
`MergeSteps`), which is the form the proofs about sums reason with.

Every invariant and every action property that a passing run checks is stated
by one of these theorems. Only model-checked is liveness (`RequestsAnswered`,
`CommitsEnd`), which is out of the prover's reach.

## Not modelled

* What sled loses of unflushed writes in a crash (restarts keep every completed
  write); the mail services; NIP-98 and NIP-13; parsing, encodings, hash
  functions and encryption; `/session/list`, which only reads.
* In the FROST library: checking a nonce by its code (`verify_nonce_code`),
  adding up shares one by one (`merge_shares`), the plain tweak helpers
  (`tweak_seckey`, `tweak_pubkey`), lookups, and the test vectors.
* Dishonest members of a DKG or a refresh, beyond a damaged share.
* The TypeScript client's protocol over several signers (which URL gets which
  share, lost answers, permutations raced), beyond the requests it may compose.
* The TypeScript signer with its storage, and the Go signer and library, which
  are ports.

## Plan

Done: one signer with its properties, liveness, rate limits and proofs; the
threshold key and the quorum of signers, and that signers agree. Next, in this order:

1. `ClientProtocol`, over an abstract signer that `Signer` implements:
   registration over a shared list of URLs, login and recovery with answers
   lost after the work was done, and the race of permutations in signing; what
   is left behind by a failed registration, and that signing succeeds with a
   threshold of live signers.
2. The TypeScript storage (`tx` chains, one SQLite connection for all writes)
   and what differs in the Go signer (cleanup with every request).
