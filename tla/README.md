# Verification of refineid-unix

refineid-unix is a client for Finnish identity cards (FINEID): a library
(`refineid-lib-core`), the PC/SC and TLS adapters (`refineid-lib-pcsc`,
`refineid-lib-tls`), a command line client (`refineid-client`), a graphical
client (`refineid-gui`) and a PKCS #11 re-export. It reads cards, manages their
PINs, signs documents, and can use a card that is held against a paired phone
over the network (RAPP, the remote card proxy protocol).

This directory holds TLA+ models of the parts of it where order, interleaving
and failure matter, the TLC runs that check them on small instances, and TLAPS
proofs of the properties that matter most. `PROJECT.json` lists the runs, the
source lines every definition stands for, the hazards and the findings.

Run from this directory:

    tlc -workers 2 -config MCPinCache.cfg MCPinCache
    tlapm PinCacheProofs.tla

## The system

| component | state | operations | interacts with |
|---|---|---|---|
| PIN safety cache (`pin_cache.rs`) | cached PIN1 and PIN2, two generations, rejected PINs | store, stage once, checkout, restore, clear, record a rejection | signing and authentication paths, which check a PIN out, verify it on the card and give it back |
| PIN management (`card_pin.rs`, `card_manager.rs`, `cli/card_*.rs`) | trust attestation and bound serial of a command, credentials | trust gate, probe, classify, change, unblock, activate | PC/SC transport, card, operator |
| PC/SC transport (`lib-pcsc`, `transport.rs`) | connection, protocol, held transaction | connect, transmit (61xx and 6Cxx), hold a transaction, reset, presence wait | every card operation of every process on the machine |
| secure messaging, PACE, CA, AA | session keys, send sequence counter | wrap, unwrap, rekey; the key agreement steps | transport below, card commands above |
| travel documents (`emrtd.rs`, `card_emrtd.rs`, `cms.rs`, `identity.rs`) | files read, verdicts | read the data groups, passive authentication, compare the holder with the certificate | secure messaging, the identity on the contact side |
| card files and card check (`pkcs15.rs`, `card_check.rs`, `card_access.rs`) | picks, session, report | choose readers, read token, certificates, PIN status, travel document | transport, chains, revocation, master lists |
| master lists (`ldif.rs`, `icao_pkd.rs`, `card_check.rs`) | pool of CSCAs | parse, verify signers, check a document signer | card check |
| signing and decryption (`card_sign.rs`, `sign.rs`, `sign/commands.rs`) | request, card session, program, tokens, evidence | verify PIN, run the command program, time-stamp, collect evidence, write | card, authorities, documents, other processes |
| documents (`sign/document.rs`, `pades.rs`, `cades.rs`, `xades.rs`, `asic.rs`) | the file under construction | plan, finish, add evidence, archive | signing |
| certificates and paths (`x509.rs`, `validation_material.rs`, `cert_chain.rs`, `cert_state.rs`) | path, candidates, material | walk to an anchor, collect the status of every link, display | revocation, HTTP |
| revocation (`ocsp.rs`, `crl.rs`, `revocation.rs`) | evidence cache | parse, verify, judge, cache | paths, card check |
| HTTP and TLS clients (`http.rs`, `framing.rs`, `simple_https.rs`) | one request | resolve, connect, read, redirect | paths, authorities |
| RAPP operation (`rapp/session.rs`, `envelope.rs`) | Noise session, sequence guards, endpoints to try | connect, handshake, request, commit, answer pings, acknowledge | phone over TCP, vault |
| RAPP pairing (`rapp/session.rs`, `rapp/crypto.rs`, `cli/card_pair.rs`) | offer, Noise XX session, records of both sides | rendezvous or listen, handshake, hello, confirm, read certificate, save | phone, vault, operation |
| RAPP device vault (`rapp/vault.rs`) | one file per pair | save, load, list, delete, update the cached certificate | every process of the user |
| GUI (`refineid-gui`) | displayed card, fields, busy and in-flight flags, image cache | inspect in a thread, watch for cards, PIN forms, pair, sign | card check, card manager, signing, pairing |

What is hard here:

* *Concurrency.* The card is shared by processes that know nothing of each
  other; a PC/SC transaction is the only lock, and signing does not take one.
  The pair files are shared without a lock. The window inspects, signs, pairs
  and watches the readers in four threads beside its event loop. A checked-out
  PIN is used while the cache goes on changing.
* *Stale state.* A card may be swapped, or its retry counter spent, between
  the moment it was looked at and the moment a code is sent. A pair record is
  read, used for seconds and written back. Evidence expires in its cache.
* *Failure.* A process may die and power may fail between two file operations;
  a peer may vanish after the card has signed; PIN1 may be set and PIN2 not;
  some authorities answer and others do not; an exchange under secure messaging
  fails after the counter was counted.
* *Unreliable delivery and time.* RAPP frames may be replayed, reordered,
  delayed or lost; servers send what they like, late or never; reads have
  timeouts, except where they have none; PINs have lifetimes.
* *Untrusted data.* Certificates, responses, lists and documents are read by
  several readers that have to agree about them.

`PROJECT.json` lists every component with its status, and every hazard at its
line with the property that would catch it.

## Modules

| module | models | extends |
|---|---|---|
| `PinCache` | `PinSafetyCache` and its two checkout handles | |
| `PinManagement` | change, unblock and activate, of CLI and GUI, by several processes on one reader | |
| `PcscCard` | sessions and exchanges of several processes on one reader; reading a file, a PIN sequence | |
| `Noise` | both Noise handshakes, symbolically | |
| `RappOperation` | `execute_operation_with_pair` down to every frame read and written | |
| `RappPairing` | the pairing command, the devices that may answer, and the operation it ends in | `RappOperation`, `Noise` |
| `PairStore`, `RappVault` | what the vault promises; `save_pair` as file operations | |
| `PdfUpdates` | PDF revisions, byte ranges, cross-reference chains, form, page and validation store | |
| `DocumentFormats` | what is signed, stamped and written in the five formats | `PdfUpdates` |
| `DocumentRounds` | signing after signing of documents and of one PDF | `DocumentFormats` |
| `SignCommands` | the command programs of a signature or a decryption | |
| `TimestampToken` | an RFC 3161 response and its acceptance | |
| `SigningFlow` | one signing from the request to the file, with its card, its authorities and its PIN | `SignCommands`, `TimestampToken` |
| `Certificates` | certificates and extensions, read leniently and strictly | |
| `Revocation` | OCSP responses, CRLs and what they say of a certificate | `Certificates` |
| `HttpClient` | one request: destination, redirects, framing, limits | |
| `TrustWalk` | paths, their evidence, the evidence cache, the path display | `Revocation`, `HttpClient` |
| `Identity` | names, transliteration, MRZ, dates | `Certificates` |
| `Cms` | SignedData and the LDS security object | `Certificates` |
| `EmrtdData` | the data groups and the report about them | `Identity`, `Cms` |
| `SecureMessaging` | the protected channel and its two counters | |
| `EmrtdReading` | `card emrtd` with PACE, CA and AA | `EmrtdData`, `SecureMessaging` |
| `CardFiles` | what a session reads from a FINEID card, and the choice of a reader | `Identity` |
| `MasterLists` | LDIF, master lists and their signers | `Cms` |
| `CertReports` | chain, list and OCSP verdicts of one certificate | `Revocation` |
| `CardCheck` | `check_all`, session by session, while cards come and go | `CardFiles`, `MasterLists`, `CertReports` |
| `GuiWindow` | the window: every handler, thread and channel, and the `card` command beside it | `CardCheck` |
| `PinCacheProofs`, `PinManagementProofs`, `PcscCardProofs`, `RappPairingProofs`, `RappVaultProofs`, `SigningFlowProofs`, `TrustWalkProofs`, `GuiWindowProofs` | theorems | the module each is named after |
| `MC*` | instances for TLC | |

Two conventions hold throughout. Cryptography is ideal: a signature, MAC, hash
or ciphertext is the term of what it was made from, and equal only when
everything in it is. Binary structures are element trees, records or sequences
of tagged fields; a structure that cannot be read is a member of the tree (tag
`"bad"`), so that every place where the code gives up on one is there. Where
the octets themselves matter (padding, integers and their signs, ECDSA values,
base64, lengths of commands) they are modelled as octets.

A run has few invariants with speaking names; each is a conjunction of named
parts, and the parts carry the precise statements. Operators named `Mut...`, or
marked "Mutant" in a comment, are wrong versions of a definition, used only to
see that a property notices the difference.

### PinCache

Variables named as the fields of `PinSafetyCache` are those fields; `held1` and
`held2` are the `CheckedOutPin1` and `CheckedOutPin2` values callers hold,
`entered`, `once` and `refused` are history. Every method takes `&mut self`, so it is one
action; between checkout and restore or drop the other callers, the clock and
the card holder move. `CheckoutPin1Miss` and `HasPositivePin1Miss` are the
paths on which a query clears an expired or foreign entry.

Properties: a rejected PIN is never cached (`NoRejectedPinCached`), a
superseded checkout is never revived (`AtMostOneLiveCopy`), a one-shot PIN1 is
handed out once (`OneShotSpent`), PIN2 is handed out only within its lifetime
after the user typed it (`ConsentWindow`), and expiry or a mismatch is for good
(`MismatchForgets`): once a checkout met another card or came too late, nothing
is cached and nothing that was taken out before can be put back, until the user
types the PIN again. Swapping the first card back in does not revive its PIN.

### PinManagement

A process is a record: the step it is at (`pc`), front end, flow, slot, the
card the operator meant, the serial the trust gate bound, its connection, the
attempts it has cost. The steps are those of the code: trust gate
(`establish_trusted_session`), floor probe of the CLI, classification for
activation, prompt, and the modify session, which takes the transaction and
goes through `re_verify_session`, probe, `re_verify_session`, APDU, and for
activation once more for PIN2. The GUI prompts first and gates afterwards.
`lock` is the PC/SC transaction; the first sessions only need it to be free,
since a Read session takes it per APDU. Every early return is `Refuse`; a
failing exchange, an operator who gives up and a dying process are `Fault`. The
card holder may remove the card at any point and insert another, and other
software may verify PINs whenever no transaction is held.

Assumed of the card, which is not in this repository: a wrong code costs one
attempt and ends the verified state of the PIN, a right one restores the
counter; changing a PIN ends its verified state; a connection is dead once its
card was removed (PC/SC reports it). How an old-scheme card in factory state
answers a PIN status probe is a constant (`BlockedStatus`), because the code
allows for both answers. A probe of the preflight may fail altogether; the code
goes on with `PinStatus::Other` (`card_pin.rs:1388`).

Properties: a code reaches only the trusted card it was typed for
(`CodesReachMeantCard`), the retry floor holds at the moment of the PIN change
(`ChangeKeepsFloor`), a command costs at most one attempt (`OneTryPerCommand`),
activation starts only on a card in factory state (`ActivatesFactoryCards`), and
no command waits for ever for another's transaction (`WaitersProceed`).
`ActivatesFactoryCards` is a claim about cards that answer the preflight. One that
does not is taken to look unactivated, the code is sent, and if the card was in
use it costs one attempt, which `OneTryPerCommand` bounds; see Observations.

### PcscCard

Processes open a Read session (a transaction per exchange) or a PinSequence
session (one for its whole life), read files in chunks or run SELECT, VERIFY and
an operation. The card answers any status word; the 6Cxx correction and the
61xx chain are the code's. The reset of a held session drops the transaction in
`SCardReconnect` and takes it again, and another process may come in between.
The end of a session disconnects with one of `Dispositions`: the card is reset, as
the `pcsc` crate does when its `Card` is dropped, or left as it is, as
`lib-pcsc/src/lib.rs:269` says. The crate is not in this repository, so the run
has both.

`CardExclusive` has three parts: the pieces of a chained response are never
mixed with another command (`ExchangeAlone`), VERIFY and the operation meet the
file the sequence selected (`PinSequenceContext`), and a command with a
credential goes out once (`CredentialSentOnce`). `VerifiedOnlyToOwner`: while the
card holds a verification, every command that reaches it is from the process
that made it, while its session lasts and, where the disconnect resets the card,
afterwards too. A card that was left as it is (`card.left`) serves the next
process with the PIN verified. `ExchangeEnds`: no status word keeps an exchange going for ever.

### RappOperation, Noise and RappPairing

`RappOperation` is one call of `execute_operation_with_pair`. `pc` is the read
the requester is blocked in; each action is one frame it reads with everything
it writes before the next read. `wire` holds every frame ever sent and a read
may return any of them, which covers replay, reordering, delay and loss at once;
frames of abandoned sessions stay on it. Errors of any kind lead to the next
endpoint, as in the code, and to those found by mDNS after the stored ones.

`Noise` builds both handshakes from the token lists of `rapp/crypto.rs`; a
chaining key and a transcript are the sequences mixed into them. `RappPairing`
runs `Noise_XXpsk3` between the desktop and whatever device answers: the phone
whose holder typed the code, a device that knows the offer and not its secret,
or an unrelated one. Attempts with the same code share the network, so frames of
an earlier one may arrive in a later one. The pair made is then used: the
certificate is read through `RappOperation`, over sessions that open only if the
records of the two sides agree, and the record is saved, or not. The other
initial states are operations over a pair made earlier.

`FramesInOrder`: frames are consumed in order and once (`ConsumedInOrder`), and
every frame sent has a number of its own (`FramesNumberedOnce`). `PairsAgree`:
the record made is with the right phone, and what the two sides keep is the same
pair, grants included, in whatever order and however often the phone lists them.
`ExecutedAsAgreed`: nothing executes without consent in the same session
(`CommittedAfterConsent`), and Ok means that the card executed the operation in
the session the result came from (`OkMeansExecuted`). `CallsEnd`: an operation
returns, and so does a pairing in rendezvous mode, unless the phone for ever
sends pings or status messages before the read timeout (`MoreChatter`): each
starts the timeout anew, there is no bound on them (`session.rs:259`) and none in
the model.

### RappVault and PairStore

`dir` and `data` are the directory and the file contents the running system
sees, `diskDir` and `synced` what is on the disk. A power loss brings the
disk's state back; the kernel may write either back at any time. With one
process the vault implements `PairStore` under the mapping in `RappVault`
(`StoreSpec`): what `load_pair` returns, and what it would return after a power
loss, changes by whole records only.

### Documents

`PdfUpdates` keeps a PDF as its cells and its chain of revisions, because the
properties are about what a byte range covers and what a reader finds. The
lists of the form, the page and the validation store are direct, in an array
object of their own, or absent, and the code's path differs for each.
`DocumentRounds` signs: plan, the card's answer, time-stamps, material, finish,
archive, and again on the same PDF.

`RevisionsKept`: what a signature covers is never changed again, a range leaves
out only its own hole, evidence of earlier signatures stays, numbers of
signatures and fields are not reused. `SignaturesFound`: every signature is on its
page and in the form, under a name of its own; only where the form is an inline
dictionary whose field list is missing or elsewhere (`ListOutOfReach`) does the form
gain no field, and the signature is found from the page alone. `FilesAgree`: tokens
attest the value the file carries; every reference of a manifest, the archive
manifest included, matches the one entry it names, except that of the signature
in the archive manifest, which digests the bare value where the entry holds the
whole CMS; and an ECDSA value decodes to the coordinates the card answered,
unless the two coordinates happen to open like a DER SEQUENCE of their own length,
which the code takes for a value already encoded.

### SigningFlow

`run.stage` follows the code from the policy to the written file: open, select,
reset, PACE, certificate, displayed card, plan, scheme, PIN, dispatch, the
commands of the program one by one, local verification, authorities in turn,
evidence, archive. A command is one step and another process may act between two
of them, since the session is a Read session (`card_sign.rs:847`). A decryption
holds its transaction (`card_decrypt.rs:207`) and nobody acts in between; the
library's signing calls are modelled on a transport their caller holds alone. An
authority answers with a response out of `Response`, honest or with one flaw, or fails.

`WrittenResultIsTheRightOne`: a file holds the signature over its own octets by
the key of the certificate read, or the whole decryption, whatever the other
process did. `PinSpentAsMeant`: in the window a PIN goes to the displayed card
only, on the command line one typed PIN costs one attempt although the session
may run twice. `ReportIsTrue`: the level reported is reached
(`ReportedLevelIsReached`), every token belongs to this request
(`TokensAreForThisRequest`), and an honest answer is accepted for every nonce
(`HonestAnswerAccepted`). `NoPinForARefusedRequest`: a request the policy refuses
is refused before the PIN is asked for. `SigningEnds`: a signing ends, with two
exceptions, both stated in the property: a TLS server that is asked may stay
silent for ever (`MayHang`), and a single authority that fails transiently again
and again is asked again and again (`Retrying`).

### Certificates, Revocation, HttpClient, TrustWalk

A world of certificates, answers and servers (`MCTrustWalk`) contains what the
code has to refuse: loops of issuers, issuers without the right to sign, expired
and not yet valid ones, responders without the purpose, answers about another
certificate, stale ones, lists of another issuer, redirects to other hosts and
to local addresses, bodies that are cut, too long or never come. `TrustWalk` is
the recursion of the code as a state machine whose fetches are requests of
`HttpClient`.

`AcceptedIsProved`: an accepted path ends in an approved anchor with every link
valid (`PathIsTrusted`), what was collected clears every certificate of it
(`EvidenceForEveryLink`), and the cache gives out only what is current
(`CacheServesCurrent`). `RevokedStopsTheWalk`: no later answer makes a revoked
certificate good. `CertificateReadOneWay`: the lenient and the strict reader
agree, and no certificate serves two purposes that exclude each other.
`RequestsContained`: no local destination, no credentials to another host,
bodies whole and bounded. `WalkEnds`: every call ends, unless a TLS server it asks
stays silent for ever (`Stalled`).

### EmrtdReading

`t` is the reading process, `sm` its channel, `c` and `link` the chip and the
link to it. An exchange may be lost, altered or answered with an earlier
response, up to `MaxFaults` times, and the card on the contact side may be
exchanged for another before the document is read. Chips differ in what they
hold: genuine ones, copies without the private keys, ones that list groups they do
not have and refuse them under protection or in the clear, ones with files longer
than an offset reaches. READ BINARY has 15 bits for the offset (`iso7816.rs:971`);
their range is the constant `OFFSETS`.

`ReadingFaithful`: as far as an offset reaches, what is held is the beginning of
the chip's own files, and past it as many octets as the file has
(`DataIsTheChips`); no key and counter protects two commands (`CountersUsedOnce`);
and undisturbed everything listed is read, up to the first listed group that the
chip does not have and refuses in the clear. There the counters part, nothing
after it is read and no authentication is completed (`ReadInFull`). `VerdictsTrue`: a chip
that is Verified has the key, "CAN did not match" is said exactly then, data
reported as signed was issued, and the holder differs exactly when reported.
`ReadingEnds`: the reading ends.

### CardCheck and GuiWindow

`CardCheck` is `check_all` of up to three processes (the window's inspection
thread, its event loop after an unblocking, and `card`), while cards are put in,
taken out and exchanged. SELECT, the reset for PACE (an `SCardReconnect`, which may
fail or meet another card), SELECT MF, PACE and the SELECT under secure messaging
are steps of their own. `GuiWindow` adds the window: `win` is what the event
loop owns; inspection, monitor, signing and pairing threads reach it by the two
channels and by posted closures. Buttons work when the `.slint` file enables
them; the PIN fields can be typed into at any time, since nothing disables them.

`ReportFaithful`: what a report is made of (`ReportOfItsCards`), and that the secure
channel survives it (`ChannelKept`). A report is put together from several
sessions. Its token information, counters, flags and certificates are of one
card, and unless the session was reset for PACE that is the card whose ATR and
EF.CardAccess it shows. The identity is of one card and the travel document is of
one, but cards that were exchanged meanwhile may be others. When no card
was exchanged during the run, all of it is of the card in the reader.
`VerdictsGenuine`: a chain that is Ok was
issued by the real authorities, a certificate called good is not revoked, a
document signer that checks is real, and a real one is recognised.
`WindowFollowsCard`: a secret is sent only to the card it was typed for, activation
codes excepted, whose handler compares no serial; none is left in a field for
another card, selection and images are of a listed card, and there is one
inspection at a time. `BusyWhileWorking`: the window is busy exactly while an
inspection or a signature is under way or its result waits, as long as no phone
was paired. `BusyEnds`: a busy window becomes usable again, unless a signing job
never ends (see `SigningEnds`).

## Runs

| run | question | distinct states |
|---|---|---|
| `pin_cache` | all properties of the cache, two callers, two cards | 653 000 |
| `pin_management` | safety of the three commands; two processes, a new-scheme and an old-scheme card, one swap, one foreign VERIFY | 2.7 million |
| `pin_waiters` | progress of waiting commands, and a card whose root is not pinned | 322 000 |
| `pcsc_transport` | two processes on one reader, two files, resets, both ways to disconnect | 198 000 |
| `rapp_operation` | pairing and operations: two attempts, three devices, one stored and one resolved endpoint | 59 000 |
| `rapp_vault` | the vault implements the store, one process, four operations | 67 000 |
| `documents` | up to three signatures on every small PDF shape, every other format once | 49 000 |
| `signing` | signings of every origin and kind, two cards, one foreign command | 208 000 |
| `trust` | every call of the walk, the display and the cache over one world of certificates | 5 500 |
| `emrtd` | every chip of the world, one fault, every directory of CSCAs | 27 000 |
| `inspection` | the window and `card`, two readers, two swaps, four clicks | 123 000 |

`rapp_vault_revoked` expects a violation: an operation in flight saves its copy
of a pair that was deleted meanwhile, where `vault.rs:149` says "Delete and
revoke a pair record". `findings` quotes it.

Bounds. Two callers and two cards are enough for every race of a checkout with
another, and lifetimes of 1, 2 and 3 ticks keep the order of the real ones. In
PIN management two commands, one swap and one foreign VERIFY give each of them
the chance to fall into every gap of the other; counters start at three so that
one wrong attempt crosses the floor. In RAPP one stored and one resolved
endpoint give a session whose frames can be replayed into the next, and two
attempts give a handshake whose frames can. The vault's four operations are two
more than a crashed save and its repetition need. Three rounds on one PDF give a
signature with one before and one after it. One foreign command can fall into
any gap of a signing, and the local verification makes a second no different
from the first. The walk needs no bound of its own: `MAX_DEPTH` is the code's
limit, the worlds are finite. One fault per reading is enough to put the two
counters apart at any exchange. Two swaps are a card taken out and another put
in; the third and fourth click are what happens to a form opened by the second. Limits that
the code sets high (cross-reference depth, form fields, ZIP entries, READ BINARY
chunk, counter width, body limit) are constants, given values that the run
crosses. Processes are symmetric in `pin_management`, and callers, cards and
PINs in `pin_cache`; runs with liveness use no symmetry.

Deadlock is not checked where the program may be over with nothing to do: PIN
management, documents, trust, inspection.

Fairness:

* `PinManagement`: a command that can take its next step takes it or returns
  early; nothing of operators, card holders or other software.
* `PcscCard`: an exchange under way goes on; a process that waits for a
  transaction is not assumed to get it.
* `RappPairing`: the desktop's thread runs, a timeout that was set fires, time
  passes; nothing of devices or network. Listener mode sets no timeout and may
  wait for ever, so `CallsEnd` says nothing of it.
* `SigningFlow`: something happens as long as anything can, except while the
  thread waits for a TLS server, of which nothing is assumed: `framing.rs:108`
  retries `WouldBlock` without end. All other movers are bounded, so this is the
  thread going on.
* `TrustWalk`: the walk goes on, except while it waits for a silent TLS server,
  for the same reason.
* `EmrtdReading`: the reader goes on; an exchange ends, well or not.
* `GuiWindow`: threads are scheduled, timers and posted closures run; nothing is
  assumed of the end of a signing job. These and
  the one of `EmrtdReading` are weak fairness written out with the condition
  under which there is something to do, which TLC evaluates faster than ENABLED.

## Proofs

The theorems hold for every value of the constants: any number of processes,
cards, PINs, endpoints, frames, documents and authorities, any certificates,
answers and servers. `PROJECT.json` lists them with the property each states.
They rest on the assumptions named in the modules:

* `LifetimeAssumption`, `BoundAssumption`, `PinAssumption`, `PcscAssumption`,
  `RappAssumption`, `PairingAssumption` and `VaultAssumption` only give the constants
  their types.
* `SigningAssumption` adds that the card displayed is one of the cards and that
  no other card has its serial number. `AnswersAssumption`: a nonce is octets, and
  an authority deviates in one of the ways `Answer` has.
* `TrustAssumption` and `HttpAssumption` say that what is read has the shape its
  readers count on (an extension list is a sequence, octets are octets), that
  an address of a certificate has a host to look up, that a start has at least one
  call, and that the walk may not be deeper than the display. Nothing is
  assumed of what a certificate, an answer, a list or a stream says.
* `WorldAssumption` and `WindowAssumption` give the readers, the decks and the
  starts their types. `CardAssumption` ties the two descriptions of a card: what
  it is said to carry (`issued`, `serial`) is what its files hold, in whatever
  directory. `PhoneAssumption`: the entry of a phone, which the window calls
  "Mobile: ...", has the name of no reader.

*PinCache.* The properties are not inductive, because a restore may put back
whatever a caller holds. The invariant `IInv` says of a checked-out entry of
the current generation what has to hold when it comes back: it was not
rejected, it is the only one, it is one-shot if the last store was, and its
entry time is not later than the user's. An entry of an older generation can
never return, so nothing needs to be said of it.

*PinManagement.* The invariant says who may touch the card: a process with a
live connection holds the transaction and its connection is to the card in the
reader (`LiveConnections`). From it follows that what the probe saw is still
so when the code is sent (`FloorKept`, `FactoryKept`), and
with the facts about the bound serial (`BoundTrusted`, `ReVerified`,
`BoundMeant`) that the code reaches the right card. What the preflight was told
goes with the process (`told`), so that `FactoryKept` speaks of cards that answered.
`VerifiedFull` is needed
because the probe of a verified PIN does not show its counter. The lemmas
named `...Effect` state what an action does to the fields of the processes;
the steps of the invariant use only those.

*PcscCard.* `CardInv` adds to the types that an exchange is only open in the
process that holds the transaction (`HolderOwns`), that its command is the one
of the process's step (`ExchangeOfStep`), that a PinSequence session holds the
transaction from its begin to its end (`PinHolds`, `ClosedFree`), and that in
between the card keeps the selected file and the verification of that process
(`SelectedKept`, `VerifiedHeld`: the verified process holds the transaction, or has
left the card so and `Dispositions` allows that). With a disconnect that always
resets, the second case is empty. `VerifiedOnlyToOwner` is an action property and
follows from the invariant in the state before the step.

*RappOperation and RappPairing.* `PairingRefinesOperation` shows that the pairing
and the commands around it are, on the operation's variables, steps of
`RappOperation` or stutters; `FramesTakenInOrder` and `OperationsAgreed` are proved
for the operation and carried over. `OperationInv` ties the two ends to the wire. `WireInv`: every
frame was written once, at the number its side had reached, so a frame that is
accepted at the expected number is the only one with it. `AgreedInv`: a frame
that claims consent or execution was written when that was so, and these facts
are never taken back within a session. `LoopInv`, `CursorInv` and `PhoneInv` relate
the endpoint tried, the numbers expected and the phone's step.

`PairsAgreeHolds` is about the pairing itself, for any number of attempts with one
code, any devices among the three kinds and any lists of grants. A handshake has
three messages of a few fields, so no induction over data is needed: each state a
side can be in is a term (`Start`, `After1`, `After2`, `After3`), and so is each
message (`Msg1`, `Msg2`, `Msg3`). The lemmas `Writes...` and `Reads...` compute them,
for any two parties; where a message is read at all, the two sides have mixed the
same keys, hash and secret. It is here that the secret of the offer matters: the
third message opens for a device only if it mixed the same one. `SessionsOpen` does
the same for the KK handshake between two records that mirror each other. The
invariant `PairInv` has three phases: `NotYetPaired` lists the states of the desktop
and the devices and the forms of every frame sent, a confirmation only for what the
phone keeps as confirmed; `Paired` says that the one frame left to be read is the
desktop's confirmation and that only the phone it is for can store the pair; `Using`
is an operation over a pair made earlier.

*RappVault.* `SavesAtomic` is the refinement of `PairStore`, with the hypothesis
that one process uses the vault: two share the temporary file, and then it is
false (see Observations). `VaultInv`: the temporary file and the record are
different inodes (`TmpApart`), the record's contents were synchronised before it
got its name (`RecordSynced`), and the open file is the temporary one, truncated,
written or flushed as the step says (`FileOfStep`). Every crash, write-back and step of a save maps to a step of the
store or to none.

*SigningFlow.* `FlowInv` follows `run.stage`. `RequestInv`: a request of
the command line for which a PIN was typed is one the policy accepts. `PinInv`:
there, no PIN was sent while the session may still be run again; in the window,
past the comparison of serials the card in use is the displayed one. `FileInv`: a document's signature was verified
locally against the octets of that document and the certificate read, so what
the other process did to the card does not matter. A decryption and the library's
calls have no such check but run undisturbed; for them the invariant says, for
every rest of the program, what the commands already sent have left in the card
(`OnItsWay`). `ReportIsTrueHolds` needs a second invariant on top of it. `StampInv`: an
open query has a nonce and was asked no later than now; the tokens of the run
and of every file are right (`RightToken`: this signature's digest, this query's
nonce, a time while it was open, one certificate, valid then); where evidence is
kept it covers every token from the first on, so the level follows from the
counts when the file is written (`LevelReached`); and no level is reported before
its document is done. What a step may add is one answer. `VerifiedToken` shows what
`verified_token` lets through, whatever the authority sent; `HonestVerified` that it
refuses no honest answer, for which `NonceOctets` is the point: whatever octets the
random nonce has, leading zeros and high bits included, its INTEGER is one the
strict reader takes.

*TrustWalk, HttpClient, Certificates.* `ReadersAndPurposes` is a fact of the
operators: the lenient and the strict reader agree on every certificate the
strict one accepts. `WalkRequestsContained` needs `HttpInv`: the host of an open
request has a look-up, credentials are only in a request to the first host over
TLS, an address that was taken is not local, a result is whole and within the
limit. `RevokedIsFinal` needs `RevokedInv`: a revoked answer that was seen has ended
the call. `AcceptedPathsProved` has the longest argument. Each action of the walk
is first shown to be one of the few kinds of step that `Advance` names; `ControlInv`
then gives the shape of the walk, of the request and of the material, and the
other invariants are proved over `Advance` only. `PathInv`: the path so far is in
time, linked and allowed, and the count of CAs that the walk keeps covers those
below and is never more than the length of the path, so an issuer that was
checked against it may follow. `EvidenceInv`: every
link behind the walk, and the one it judges, is cleared by the material kept;
material only grows, and what clears a certificate still does with more of it.
`CacheInv`: what the cache gave out was current. The lemmas about the operators
(`...Form`, `...Effect`) say what each reader, resolver and judge returns.

*CardCheck and GuiWindow.* `GuiInv` has a part for each owner of state. `RunInv`
is about one run of `check_all` and about no other state: a reader is still to be
probed, picked or reported, never two of these (`RunReaders`); the report under
construction is of the pick it will be filed under (`RunPhase`); the channel of a
session is plain or secure, never ended (`RunSession`), because the slots that
need the MF are skipped under it; what is in the section so far is what the card
of the session holds (`RunReading`). `Met` ties a run to the readers: the cards it
can have met are all of them once a card was exchanged since it began (`since`),
and the one in the reader until then. Every part of a report is of one of these
(`Composed`), and the set only grows, so an exchange of cards cannot hurt
(`ComposedMore`, `BegunMore`). What the reset for PACE may change is exactly the card of the
session against the card that was opened (`Begun`). From the readers
follows `Listing`: a reader is listed once, which the images need, since they are
kept for the first entry of the selected reader. `WinInv` says of the window that
secrets, selection and images are of the card shown; each handler is shown to
keep it (`Fine`) as an operator on the window, before the steps are looked at.
`FlightInv`: one inspection or its one result while `in_flight` is up.
`ThreadsInv`: a job carries the PIN with the serial it was typed for, and the only
codes that reached another card are of an activation. What
`FlattenSeq` makes of the phones' cards is proved by the least position at which
it would go wrong.

Only model-checked:

* Liveness (`ExchangeEnds`, `WaitersProceed`, `CallsEnd`, `SigningEnds`, `WalkEnds`,
  `ReadingEnds`, `BusyEnds`): fairness is out of the prover's reach.
* `BusyWhileWorking`: the busy flag, which has no owner (see Observations), occurs
  in no part of the invariant.
* The properties of `documents` and `emrtd`: they are about what folds and recursive
  functions compute from revisions of a PDF, element trees and files. For all inputs
  that needs induction over data, which the installed provers cannot do.
* `VerdictsGenuine` reads LDIF in the same way, and compares the verdicts with who
  really issued the certificates of the worlds (`Genuine`, `Revoked`, `HonestLists`).
  For all worlds it would rest on an assumption about every signature ever made
  that is hardly weaker than the property.

## Observations

Met while modelling. Each is a place where the code and a sentence about it, or
two pieces of code, disagree, or where a reader may expect something else. Where
a property touches one, the model does what the code does, the run contains the
case, and the property says exactly what remains true of it.

PINs and cards

* A rejected PIN1 discards the PIN2 checkout of a batch (`pin_cache.rs:319`;
  `:291` says a PIN1 event never does).
* Activation of a new-scheme card presents a code whatever the retry counter
  says (`card_pin.rs:1304`; `pin_retry_risk.rs:55`), and the window's activation
  compares no serial (`main.rs:2001`): `prepare_activation`, which "binds later
  activation to the same reader and card serial" (`card_manager.rs:325`), runs only
  after the codes were typed, so that they may go to the next card.
* A PIN probe of the preflight that fails counts as an unactivated card also where
  the flag of a new-scheme card says that PIN1 was changed (`card_pin.rs:1216`,
  `:1388`; `:1195` "the card is already activated"). The comment at `:1273` says the
  flag is not read at all.
* `lib-pcsc/src/lib.rs:269` says that a dropped session leaves the card powered and
  as it is; by the `pcsc` crate it would be reset. Whether the next process finds
  the PIN verified depends on it.
* The activation that
  the window offers for a factory-locked old-scheme card is refused by the preflight
  (`card_pin.rs:1223`; test at `main.rs:2643`). When PIN1 is set and PIN2 is not,
  no command completes the activation (`card_pin.rs:1477`).
* The permission for the 6Cxx correction is lost by a wrapping transport
  (`transport.rs:357`; `lib-pcsc/src/lib.rs:26`).
* A batch of the window repeats a wrong PIN2 for the next document
  (`main.rs:915`; `pin_retry_risk.rs:54`).

RAPP

* Pings and status messages restart the read timeout (`session.rs:259`), so an
  operation may last longer than the documented thirty seconds
  (`ble-transport-plan.md:88`), for as long as the phone keeps sending them.
* Two processes that save one pair share a temporary file (`vault.rs:84`; `:79`
  says "atomically").
* Granted profiles are stored without comparison with the offer
  (`session.rs:178`); an endpoint found by mDNS is stored before its handshake
  (`session.rs:724`), and the save at the end of the pairing command brings the
  earlier ones back.
* In listener mode no read has a timeout, and the endpoints stored are the
  desktop's own, so that the certificate read first connects to its own socket;
  the offer's hash covers endpoints that a phone given only the code cannot
  know.
* A pair is saved on the desktop although the phone may never have stored it; a
  cancelled pairing of the window still pairs, and a failing save is reported
  as success there.

Signing and documents

* A form in an inline dictionary is not extended as `pades.rs:1515` says it must be:
  without a field list nothing is added, and where its list is a reference, the
  entry goes into whatever array comes next in the catalog (`:1553`). The
  signature is then found from its page only.
* The archive manifest digests the bare signature value (`document.rs:364`), where
  the entry of that name holds the whole CMS (`asic.rs:229`; `:158`).
* A raw ECDSA value whose first octets happen to be 30 and the length of the rest
  (30 3E for P-256, one signature in 65536) is taken for DER and written as it is
  (`cades.rs:388`; `:376`).
* `framing.rs:108`, `:159` and `:177` retry `WouldBlock` without end, so a TLS server
  that stays silent holds a signing or a walk for ever. A chunk of a body is
  buffered whole before the limit is compared (`framing.rs:224`).
* A single authority that fails transiently is asked again without limit
  (`card_sign.rs:1296`). The window always configures exactly one
  (`card_manager.rs:278`, `:318`), so an authority that is down keeps it busy.

Inspection and window

* A card changed between the first inspection and the monitor's baseline is not
  inspected (`main.rs:1789`; `:1771`). One bad reader aborts the whole
  inspection. The identity in a report, its serial and PINs, and its travel
  document are read in three sessions (`card_check.rs:1407`, `:1445`, `:1520`), and
  nothing compares the cards.
* The busy flag has no owner: the end of a pairing starts an inspection during
  a signing, whose result clears the flag, and the other way round
  (`BusyWhileWorking` therefore stops at the first pairing). Statuses are
  not refreshed after a change or an activation. Images are loaded by reader,
  without comparing the serial. Two phones of equal name and certificate are not
  told apart by `management_state_matches`.
* The chain check of a report tests neither validity nor CA flags, its list and
  answer are verified with a certificate from the AIA address that was not shown
  to be the issuer, and the signature of the SOD is not verified there; so
  `GoodIsNotRevoked` is stated for certificates whose chain is Ok. The root cache
  that `is_pinned_root` consults is never filled. `card_check.rs:34` promises
  offline chain checks that are not printed; `check_ml_signer_trust` does less
  than its comment says.

Reading travel documents

* A data group that is listed and missing and is refused without protection puts
  the two counters apart, and every later read fails (`emrtd.rs:1400` "SM stays
  intact through the whole sequence").
* READ BINARY offsets have 15 bits: `iso7816.rs:967` says that no file is read past
  32 KB, but `read_file` goes on to 64 KB (`emrtd.rs:319`), and past 32 KB it gets the
  beginning of the file again.
* A failed chip authentication makes active authentication impossible; `wrap` counts
  before it refuses a command that is too long; statuses without protection are
  taken as refusals. The comments at `emrtd.rs:1304` and `:1439` say otherwise in
  part.
* `days_between` truncates; the MRZ century turns at 50; a shift that loses bits
  is not noticed by `checked_shl`; `transliterate_surname` may panic on a name of
  more than 39 bytes (`identity.rs:2347`); base64 padding is accepted inside;
  the continuation of an LDIF comment is part of the comment.

## Not modelled

* Cryptographic primitives: ideal.
* Octets below the element trees: BER lengths, PDF tokens, XML text, CBOR, APDU
  headers beyond what a property tells apart. They are pure functions on bytes
  and left to the repository's tests.
* The client TLS handshake with a remote card, cookies and forms of the TLS
  crate; the ADB helper; `card --remote` and the fall-back to a paired phone
  after `check_all` (`cli/card.rs:82`), which only choose between operations
  that are modelled.
* The appearance of visible signatures, rendering, wording, events and argument
  parsing beyond the requests they make.
* `signing_session.rs`, a trait that nothing implements, and the PKCS #11 crate,
  a constant.

## Plan

All components with control of their own are modelled. What is left is proof,
in this order:

1. `DocumentRounds`: that a revision is only appended to, which needs no
   induction over the cells.
2. `SecureMessaging`: `CountersUsedOnce` from a lemma about `wrap`.
