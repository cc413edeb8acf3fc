------------------------------ MODULE Services ------------------------------
(***************************************************************************)
(* The parts of the instance that work beside each other on tables and     *)
(* files of their own: signing in, the second factor, registration,        *)
(* handles, sites, uploads and backups, moderation, the reader and         *)
(* webmentions.  They share no state that a property is about, so a        *)
(* behaviour is one of one part, and the variables of the others are 0.    *)
(***************************************************************************)
EXTENDS Integers, Sequences, FiniteSets

CONSTANTS
  Tabs,                      \* requests
  Owners,                    \* accounts
  Contents, Size,            \* of files
  None, NoMention,
  MaxCuts                    \* bound: what ends half way

CONSTANTS                    \* of Sessions
  Browsers, Links, Life, LinkLife, Window,
  MaxTime, MaxSessions, MaxPasswords, MaxFaults

CONSTANTS                    \* of SecondFactor
  Screens, TOTPWindow, RecoveryCodes, MaxStep, MaxSecrets

CONSTANTS                    \* of Registration
  Emails, InviteCodes, MaxRestarts

CONSTANTS                    \* of Handles
  Calls, People, Names, MaxTries, Candidate

CONSTANTS                    \* of Sites
  Hosts, MaxEdits, MaxRows, MaxRequests

CONSTANTS                    \* of Media and of Backup
  Quota, MaxUploads, MaxBreaks,
  Uploaders, BackupQuota, BackupUploads, Takers, MaxTakes

CONSTANTS                    \* of Moderation
  Insiders, Moderators, Values, Reports, MaxActs, MaxLost

CONSTANTS                    \* of Reading
  Items, Feeds, Page, Dates, MaxMeanwhile

CONSTANTS                    \* of Mentions
  Incoming, Outgoing, Requests,
  MaxAttempts, MaxReceived, MaxChanges, MaxDecisions, MaxRetries

VARIABLES
  part,   \* the part that works
  now, pass, session, link, cookie, tab, started, spent, overtaken, faults,
  step, totp, codes, visit, secrets, shown, accepted, proven, clashed, crossed,
  whole, offs, broken,
  open, account, code, form, mailed, restarts,
  handle, ask, given,
  site, links, asks, witness, mixed, edits, requests,
  disk, media, attached, put, overlap, torn, unready, uploads, breaks,
  dir, taker, restored, takes,
  block, report, audit, act, acts, lost,
  item, marks, hidden, collection, walk, meanwhile,
  row, page, req, job, dead, held, listed, journey, decision, raced, found, lapsed, unwritten,
  received, changes, decisions, retries, cuts

Sessions == INSTANCE Sessions
SecondFactor == INSTANCE SecondFactor WITH Pages <- Screens
Registration == INSTANCE Registration WITH Codes <- InviteCodes
Handles == INSTANCE Handles WITH Requests <- Calls, Accounts <- People
Sites == INSTANCE Sites
Media == INSTANCE Media
Backup == INSTANCE Backup WITH
  Owners <- Uploaders, Quota <- BackupQuota, MaxUploads <- BackupUploads
Moderation == INSTANCE Moderation WITH Owners <- Insiders
Reading == INSTANCE Reading
Mentions == INSTANCE Mentions

\* What the proofs suppose: None is nothing else, and lifetimes and bounds are
\* counts.
ASSUME SessionsAssumption == None \notin Int /\ Life \in Nat /\ LinkLife \in Nat

ASSUME RegistrationAssumption == None \notin InviteCodes

ASSUME FactorAssumption == RecoveryCodes \in Nat \ {0} /\ MaxStep \in Nat /\ MaxSecrets \in Nat

ASSUME HandlesAssumption == Handles!HandlesAssumption

ASSUME SitesAssumption == MaxRows \in Nat

\* Files have a size, and None is no account.
ASSUME MediaAssumption == Size \in [Contents -> Nat] /\ Quota \in Nat /\ None \notin Owners \cup Uploaders

\* There are finitely many items.
ASSUME ReadingAssumption == IsFiniteSet(Items) /\ Page \in Nat /\ Dates \in Nat

\* The log knows reports and what is blocked under different kinds of action.
ASSUME ModerationAssumption == Reports \cap Values = {} /\ None \notin Reports

\* A mention comes in or goes out.
ASSUME MentionsAssumption ==
  /\ Incoming \cap Outgoing = {} /\ NoMention \notin Incoming \cup Outgoing
  /\ MaxAttempts \in Nat \ {0}

-----------------------------------------------------------------------------
(* The variables of each part, and that a part is at rest *)

OfSessions == <<now, pass, session, link, cookie, tab, started, spent, overtaken, faults>>
OfSecondFactor == <<step, totp, codes, visit, secrets, shown, accepted, proven,
                    clashed, crossed, whole, offs, broken>>
OfRegistration == <<open, account, code, form, mailed, restarts>>
OfHandles == <<handle, ask, given>>
OfSites == <<site, links, asks, witness, mixed, edits, requests>>
OfMedia == <<disk, media, attached, put, overlap, torn, unready, uploads, breaks>>
OfBackup == <<dir, taker, restored, takes>>
OfModeration == <<block, report, audit, act, acts, lost>>
OfReading == <<item, marks, hidden, collection, walk, meanwhile>>
OfMentions == <<row, page, req, job, dead, held, listed, journey, decision, raced,
                found, lapsed, unwritten, received, changes, decisions, retries, cuts>>

NoSessions ==
  /\ now = 0 /\ pass = 0 /\ session = 0 /\ link = 0 /\ cookie = 0 /\ tab = 0
  /\ started = 0 /\ spent = 0 /\ overtaken = 0 /\ faults = 0

NoSecondFactor ==
  /\ step = 0 /\ totp = 0 /\ codes = 0 /\ visit = 0 /\ secrets = 0 /\ shown = 0
  /\ accepted = 0 /\ proven = 0 /\ clashed = 0 /\ crossed = 0 /\ whole = 0
  /\ offs = 0 /\ broken = 0

NoRegistration ==
  /\ open = 0 /\ account = 0 /\ code = 0 /\ form = 0 /\ mailed = 0 /\ restarts = 0

NoHandles ==
  /\ handle = 0 /\ ask = 0 /\ given = 0

NoSites ==
  /\ site = 0 /\ links = 0 /\ asks = 0 /\ witness = 0 /\ mixed = 0 /\ edits = 0
  /\ requests = 0

NoMedia ==
  /\ disk = 0 /\ media = 0 /\ attached = 0 /\ put = 0 /\ overlap = 0 /\ torn = 0
  /\ unready = 0 /\ uploads = 0 /\ breaks = 0

NoBackup ==
  /\ dir = 0 /\ taker = 0 /\ restored = 0 /\ takes = 0

NoModeration ==
  /\ block = 0 /\ report = 0 /\ audit = 0 /\ act = 0 /\ acts = 0 /\ lost = 0

NoReading ==
  /\ item = 0 /\ marks = 0 /\ hidden = 0 /\ collection = 0 /\ walk = 0
  /\ meanwhile = 0

NoMentions ==
  /\ row = 0 /\ page = 0 /\ req = 0 /\ job = 0 /\ dead = 0 /\ held = 0
  /\ listed = 0 /\ journey = 0 /\ decision = 0 /\ raced = 0 /\ found = 0
  /\ lapsed = 0 /\ unwritten = 0 /\ received = 0 /\ changes = 0 /\ decisions = 0 /\ retries = 0
  /\ cuts = 0


-----------------------------------------------------------------------------
Init ==
  \/ part = "sessions" /\ Sessions!Init
     /\ NoSecondFactor /\ NoRegistration /\ NoHandles /\ NoSites /\ NoMedia
     /\ NoBackup /\ NoModeration /\ NoReading /\ NoMentions
  \/ part = "factor" /\ SecondFactor!Init
     /\ NoSessions /\ NoRegistration /\ NoHandles /\ NoSites /\ NoMedia /\ NoBackup
     /\ NoModeration /\ NoReading /\ NoMentions
  \/ part = "registration" /\ Registration!Init
     /\ NoSessions /\ NoSecondFactor /\ NoHandles /\ NoSites /\ NoMedia /\ NoBackup
     /\ NoModeration /\ NoReading /\ NoMentions
  \/ part = "handles" /\ Handles!Init
     /\ NoSessions /\ NoSecondFactor /\ NoRegistration /\ NoSites /\ NoMedia
     /\ NoBackup /\ NoModeration /\ NoReading /\ NoMentions
  \/ part = "sites" /\ Sites!Init
     /\ NoSessions /\ NoSecondFactor /\ NoRegistration /\ NoHandles /\ NoMedia
     /\ NoBackup /\ NoModeration /\ NoReading /\ NoMentions
  \/ part = "media" /\ Media!Init
     /\ NoSessions /\ NoSecondFactor /\ NoRegistration /\ NoHandles /\ NoSites
     /\ NoBackup /\ NoModeration /\ NoReading /\ NoMentions
  \/ part = "backup" /\ Backup!BackupInit
     /\ NoSessions /\ NoSecondFactor /\ NoRegistration /\ NoHandles /\ NoSites
     /\ NoModeration /\ NoReading /\ NoMentions
  \/ part = "moderation" /\ Moderation!Init
     /\ NoSessions /\ NoSecondFactor /\ NoRegistration /\ NoHandles /\ NoSites
     /\ NoMedia /\ NoBackup /\ NoReading /\ NoMentions
  \/ part = "reading" /\ Reading!Init
     /\ NoSessions /\ NoSecondFactor /\ NoRegistration /\ NoHandles /\ NoSites
     /\ NoMedia /\ NoBackup /\ NoModeration /\ NoMentions
  \/ part = "mentions" /\ Mentions!Init
     /\ NoSessions /\ NoSecondFactor /\ NoRegistration /\ NoHandles /\ NoSites
     /\ NoMedia /\ NoBackup /\ NoModeration /\ NoReading

Next ==
  \/ part = "sessions" /\ Sessions!Next
     /\ UNCHANGED <<part, OfSecondFactor, OfRegistration, OfHandles, OfSites,
          OfMedia, OfBackup, OfModeration, OfReading, OfMentions>>
  \/ part = "factor" /\ SecondFactor!Next
     /\ UNCHANGED <<part, OfSessions, OfRegistration, OfHandles, OfSites, OfMedia,
          OfBackup, OfModeration, OfReading, OfMentions>>
  \/ part = "registration" /\ Registration!Next
     /\ UNCHANGED <<part, OfSessions, OfSecondFactor, OfHandles, OfSites, OfMedia,
          OfBackup, OfModeration, OfReading, OfMentions>>
  \/ part = "handles" /\ Handles!Next
     /\ UNCHANGED <<part, OfSessions, OfSecondFactor, OfRegistration, OfSites,
          OfMedia, OfBackup, OfModeration, OfReading, OfMentions>>
  \/ part = "sites" /\ Sites!Next
     /\ UNCHANGED <<part, OfSessions, OfSecondFactor, OfRegistration, OfHandles,
          OfMedia, OfBackup, OfModeration, OfReading, OfMentions>>
  \/ part = "media" /\ Media!Next
     /\ UNCHANGED <<part, OfSessions, OfSecondFactor, OfRegistration, OfHandles,
          OfSites, OfBackup, OfModeration, OfReading, OfMentions>>
  \/ part = "backup" /\ Backup!BackupNext
     /\ UNCHANGED <<part, OfSessions, OfSecondFactor, OfRegistration, OfHandles,
          OfSites, OfModeration, OfReading, OfMentions>>
  \/ part = "moderation" /\ Moderation!Next
     /\ UNCHANGED <<part, OfSessions, OfSecondFactor, OfRegistration, OfHandles,
          OfSites, OfMedia, OfBackup, OfReading, OfMentions>>
  \/ part = "reading" /\ Reading!Next
     /\ UNCHANGED <<part, OfSessions, OfSecondFactor, OfRegistration, OfHandles,
          OfSites, OfMedia, OfBackup, OfModeration, OfMentions>>
  \/ part = "mentions" /\ Mentions!Next
     /\ UNCHANGED <<part, OfSessions, OfSecondFactor, OfRegistration, OfHandles,
          OfSites, OfMedia, OfBackup, OfModeration, OfReading>>

all == <<part, OfSessions, OfSecondFactor, OfRegistration, OfHandles, OfSites,
  OfMedia, OfBackup, OfModeration, OfReading, OfMentions>>

Spec == Init /\ [][Next]_all

-----------------------------------------------------------------------------
(* Properties: those of the parts, under the part they are about *)

\* Signing in and registering: a link works once, a recovered account keeps
\* nothing of its former password, codes, addresses and the owner's role go to
\* one account each, and so do handles, for good (internal/identity,
\* internal/publish).
Accounts ==
  /\ part = "sessions" => Sessions!LinkOnce /\ Sessions!Recovered
  /\ part = "registration" => Registration!Welcome
  /\ part = "handles" => Handles!HandleStands

\* The second factor (internal/identity/totp.go): a code is good once, the secret
\* is the one its owner confirmed, and the recovery codes are those that were
\* shown.
SecondStep ==
  part = "factor" => SecondFactor!CodeOnce /\ SecondFactor!Enrolled /\ SecondFactor!CodesShown

\* A site has one account, and one that shows as verified was seen to link back
\* to it (internal/indieweb/sites.go).
Claims == part = "sites" => Sites!OneOwner /\ Sites!VerifiedTrue

\* The quota, the files behind the rows and behind the posts, and what a restored
\* backup has of them (internal/media, internal/backup).
Files ==
  /\ part = "media" => Media!QuotaKept /\ Media!Whole /\ Media!OwnFiles
  /\ part = "backup" => Backup!Whole /\ Backup!Restorable

\* The log agrees with the tables it is about (internal/moderation).
Audited == part = "moderation" => Moderation!Audited

\* A reader who follows the links sees what was there all the while
\* (internal/web/reading.go, internal/ingest/timeline.go).
SeesAll == part = "reading" => Reading!SeesAll

\* What belongs to an account changes only by it: the cookie of its session, its
\* sites and its blocks (internal/web).
OwnHands ==
  [][/\ part = "sessions" => Sessions!CookieKept
     /\ part = "sites" => Sites!OwnersOnly
     /\ part = "moderation" => Moderation!OnlyTheirs]_all

\* No notification of a mention is forgotten (internal/webmention).
Unforgotten == part = "mentions" => Mentions!TypeOK /\ Mentions!Unforgotten

\* A moderator's decision stands, and nothing shows below a post that was never
\* seen to link to it (internal/webmention).
DecisionStands == part = "mentions" => Mentions!DecisionStands

\* The row of a mention we send agrees with the ledger (internal/webmention,
\* internal/ledger).
JourneyAgrees == part = "mentions" => Mentions!JourneyAgrees

=============================================================================
