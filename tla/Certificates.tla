----------------------------- MODULE Certificates -----------------------------
(***************************************************************************)
(* The HTTPS certificate: a local CA and a server certificate it signed,   *)
(* each with its key. Without a database they are four files, replaced     *)
(* together: staged under temporary names, then one after the other moved  *)
(* over the old ones, which are put back when a step fails. With a         *)
(* database they are one row, into which files of an older version are     *)
(* migrated at start. The process may end between any two steps.           *)
(***************************************************************************)
EXTENDS Naturals, Sequences

CONSTANTS
  MaxMade,        \* bound of the model: certificates asked for
  MaxCertMishaps  \* bound of the model: failing operations and crashes

ASSUME CertAssumption == {MaxMade, MaxCertMishaps} \subseteq Nat

VARIABLES
  hasDb,             \* this version keeps a database
  pem, bundle,       \* what the four files hold, and the row
  certJob, place,    \* what is under way, and at which of its files
  old,               \* backups made by the commit under way
  before, wanted,    \* the files when it began, and those it writes
  outcome, spoiled,  \* what the last generation reported; a roll-back failed, or a crash
  trusted,           \* the CA of the last certificate that was reported
  made, certMishaps

certVars == <<hasDb, pem, bundle, certJob, place, old, before, wanted, outcome, spoiled, trusted,
              made, certMishaps>>

\* In the order in which they are written.
CertFiles == <<"caKey", "caCert", "key", "cert">>
Missing == [made |-> 0, ca |-> 0]
NoFiles == [r \in {"caKey", "caCert", "key", "cert"} |-> Missing]

\* What generation n writes, with the CA that generation c made.
Made(n, c) ==
  [caKey |-> [made |-> c, ca |-> c], caCert |-> [made |-> c, ca |-> c],
   key |-> [made |-> n, ca |-> c], cert |-> [made |-> n, ca |-> c]]

\* loadHTTPSCA and loadHTTPSLeaf: the keys fit, and the CA signed the certificate.
CAUsable(f) == f.caCert # Missing /\ f.caKey = f.caCert
Available(f) ==
  CAUsable(f) /\ f.cert # Missing /\ f.key = f.cert /\ f.cert.ca = f.caCert.made

CertInit ==
  /\ hasDb = FALSE /\ pem = NoFiles /\ bundle = NoFiles
  /\ certJob = "none" /\ place = 0 /\ old = NoFiles
  /\ before = NoFiles /\ wanted = NoFiles
  /\ outcome = "none" /\ spoiled = FALSE /\ trusted = 0
  /\ made = 0 /\ certMishaps = 0

CertMishap == certMishaps < MaxCertMishaps /\ certMishaps' = certMishaps + 1
File == CertFiles[place]
Put(there, k) == certJob' = there /\ place' = k
CommitVars == <<hasDb, bundle, before, wanted, made>>

-----------------------------------------------------------------------------
(* generateHTTPSCertificate and commitCertificateFiles. *)

\* A usable CA is kept; one that is incomplete or damaged is an error, and
\* nothing is written; a new one is made only when there is none.
GenerateFiles ==
  /\ ~hasDb /\ certJob = "none" /\ made < MaxMade
  /\ made' = made + 1
  /\ \/ CAUsable(pem) /\ wanted' = Made(made', pem.caCert.made) /\ Put("staging", 3)
     \/ /\ pem.caKey = Missing /\ pem.caCert = Missing
        /\ wanted' = Made(made', made') /\ Put("staging", 1)
  /\ before' = pem /\ old' = NoFiles /\ outcome' = "none" /\ spoiled' = FALSE
  /\ UNCHANGED <<hasDb, pem, bundle, trusted, certMishaps>>

GenerateRefused ==
  /\ ~hasDb /\ certJob = "none" /\ made < MaxMade
  /\ made' = made + 1
  /\ ~CAUsable(pem) /\ ~(pem.caKey = Missing /\ pem.caCert = Missing)
  /\ before' = pem /\ outcome' = "failed"
  /\ UNCHANGED <<hasDb, pem, bundle, certJob, place, old, wanted, spoiled, trusted, certMishaps>>

\* The files at which a commit begins: the CA's own are written with a new CA.
First == IF wanted.caCert = before.caCert THEN 3 ELSE 1

Failed == certJob' = "none" /\ place' = 0 /\ outcome' = "failed"

Stage ==
  /\ certJob = "staging"
  /\ IF place = Len(CertFiles) THEN Put("movingAway", First) ELSE Put("staging", place + 1)
  /\ UNCHANGED <<pem, old, outcome, spoiled, trusted, certMishaps, CommitVars>>

StageFails ==
  /\ certJob = "staging" /\ CertMishap
  /\ Failed
  /\ UNCHANGED <<pem, old, spoiled, trusted, CommitVars>>

MoveAway ==
  /\ certJob = "movingAway"
  /\ old' = [old EXCEPT ![File] = pem[File]]
  /\ pem' = [pem EXCEPT ![File] = Missing]
  /\ Put("installing", place)
  /\ UNCHANGED <<outcome, spoiled, trusted, certMishaps, CommitVars>>

\* rollback(index - 1): this file is still where it was.
MoveAwayFails ==
  /\ certJob = "movingAway" /\ CertMishap
  /\ Put("puttingBack", place - 1)
  /\ UNCHANGED <<pem, old, outcome, spoiled, trusted, CommitVars>>

Install ==
  /\ certJob = "installing"
  /\ pem' = [pem EXCEPT ![File] = wanted[File]]
  /\ IF place < Len(CertFiles) THEN Put("movingAway", place + 1) ELSE Put("reporting", 0)
  /\ UNCHANGED <<old, outcome, spoiled, trusted, certMishaps, CommitVars>>

InstallFails_ForgetsThisFile ==
  /\ certJob = "installing" /\ CertMishap
  /\ Put("puttingBack", place - 1)
  /\ UNCHANGED <<pem, old, outcome, spoiled, trusted, CommitVars>>

\* The rename, or the chmod after it: the file before this step is put back
\* as well, and what the failure left in its place goes.
InstallFails ==
  /\ certJob = "installing" /\ CertMishap
  /\ \/ UNCHANGED pem
     \/ pem' = [pem EXCEPT ![File] = wanted[File]]
  /\ Put("puttingBack", place)
  /\ UNCHANGED <<old, outcome, spoiled, trusted, CommitVars>>

\* The files are put back in the opposite order; a file that was not there
\* before is removed.
PutBack ==
  /\ certJob = "puttingBack" /\ place >= First
  /\ pem' = [pem EXCEPT ![File] = old[File]]
  /\ Put("puttingBack", place - 1)
  /\ UNCHANGED <<old, outcome, spoiled, trusted, certMishaps, CommitVars>>

\* Errors of the roll-back are ignored: what the removal or the rename left.
PutBackFails ==
  /\ certJob = "puttingBack" /\ place >= First /\ CertMishap
  /\ pem' \in {pem, [pem EXCEPT ![File] = Missing]}
  /\ Put("puttingBack", place - 1)
  /\ spoiled' = TRUE
  /\ UNCHANGED <<old, outcome, trusted, CommitVars>>

PutBackEnds ==
  /\ certJob = "puttingBack" /\ place < First
  /\ Failed
  /\ UNCHANGED <<pem, old, spoiled, trusted, certMishaps, CommitVars>>

\* inspectHTTPSCertificate has the last word.
Report ==
  /\ certJob = "reporting"
  /\ Put("none", 0)
  /\ outcome' = IF Available(pem) THEN "done" ELSE "failed"
  /\ trusted' = IF Available(pem) THEN pem.caCert.made ELSE trusted
  /\ UNCHANGED <<pem, old, spoiled, certMishaps, CommitVars>>

-----------------------------------------------------------------------------
(* The database. *)

GenerateBundle_DeletesRowFirst ==
  /\ hasDb /\ certJob = "none" /\ made < MaxMade
  /\ made' = made + 1
  /\ \/ /\ bundle' = Made(made', made') /\ trusted' = made'
        /\ outcome' = "done" /\ Put("clearing", 1)
        /\ UNCHANGED certMishaps
     \/ CertMishap /\ outcome' = "failed" /\ bundle' = NoFiles /\ UNCHANGED <<trusted, certJob, place>>
  /\ before' = pem
  /\ UNCHANGED <<hasDb, pem, old, wanted, spoiled>>

\* modernController.generateCertificate: always with a new CA.
GenerateBundle ==
  /\ hasDb /\ certJob = "none" /\ made < MaxMade
  /\ made' = made + 1
  /\ \/ /\ bundle' = Made(made', made') /\ trusted' = made'
        /\ outcome' = "done" /\ Put("clearing", 1)
        /\ UNCHANGED certMishaps
     \/ CertMishap /\ outcome' = "failed" /\ UNCHANGED <<bundle, trusted, certJob, place>>
  /\ before' = pem
  /\ UNCHANGED <<hasDb, pem, old, wanted, spoiled>>

\* migrateLegacyHTTPSCertificate: the files into an empty row if they are
\* usable, and away with them when there is a row; else they stay.
Migrate ==
  /\ certJob = "starting"
  /\ \/ bundle # NoFiles /\ Put("clearing", 1) /\ UNCHANGED <<bundle, certMishaps>>
     \/ /\ bundle = NoFiles /\ Available(pem)
        /\ bundle' = pem /\ Put("clearing", 1) /\ UNCHANGED certMishaps
     \/ bundle = NoFiles /\ ~Available(pem) /\ Put("none", 0) /\ UNCHANGED <<bundle, certMishaps>>
     \/ bundle = NoFiles /\ CertMishap /\ Put("none", 0) /\ UNCHANGED bundle
  /\ UNCHANGED <<hasDb, pem, old, before, wanted, outcome, spoiled, trusted, made>>

\* os.Remove of each file, errors ignored.
ClearFile ==
  /\ certJob = "clearing"
  /\ \/ pem' = [pem EXCEPT ![File] = Missing] /\ UNCHANGED certMishaps
     \/ CertMishap /\ UNCHANGED pem
  /\ IF place < Len(CertFiles) THEN Put("clearing", place + 1) ELSE Put("none", 0)
  /\ UNCHANGED <<hasDb, bundle, old, before, wanted, outcome, spoiled, trusted, made>>

-----------------------------------------------------------------------------
\* The process ends, at any moment, and starts again, in this version or in
\* the next one. Temporary files and backups have names nobody looks for.
CertRestart ==
  /\ CertMishap
  /\ hasDb' \in {hasDb, TRUE}
  /\ IF hasDb' THEN Put("starting", 0) ELSE Put("none", 0)
  /\ old' = NoFiles /\ outcome' = "none" /\ spoiled' = TRUE
  /\ UNCHANGED <<pem, bundle, before, wanted, trusted, made>>

CertNext ==
  \/ GenerateFiles \/ GenerateRefused \/ Stage \/ StageFails \/ MoveAway \/ MoveAwayFails
  \/ Install \/ InstallFails \/ PutBack \/ PutBackFails \/ PutBackEnds \/ Report
  \/ GenerateBundle \/ Migrate \/ ClearFile
  \/ CertRestart

CertSpec == CertInit /\ [][CertNext]_certVars

-----------------------------------------------------------------------------
(* Properties. *)

\* A generation of the files is all or nothing: it reports a certificate only
\* when the four files fit together, and a failure leaves the files as they
\* were, at whatever step it failed - unless putting them back failed too.
CommitIsAtomic ==
  (certJob = "none" /\ ~hasDb) =>
    /\ outcome = "done" => pem = wanted /\ Available(pem)
    /\ outcome = "failed" /\ ~spoiled => pem = before

\* "A valid existing CA is always reused": the CA that clients were told to
\* trust, certificate and key, is on disk or in the row at every moment, also
\* when the process dies in the middle of a renewal or of the migration.
TrustedCAIsKept ==
  trusted # 0 =>
    \E store \in {pem, bundle} : CAUsable(store) /\ store.caCert.made = trusted
=============================================================================
