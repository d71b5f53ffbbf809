---------------------------- MODULE SealedSecret ----------------------------
(***************************************************************************)
(* Sealed secrets: made and signed with the command-line tool              *)
(* (secret_cli), unsealed in the guest by the hub or by the tool, over the *)
(* KMS clients of the kms crate (Aliyun with a client key, a RAM role or   *)
(* an STS token; AWS), which read their credentials from files in the      *)
(* guest. The clouds and the KBS are external and may fail.                *)
(*                                                                         *)
(* Keys, credentials and data are names; a ciphertext is the record of     *)
(* what is in it and what it takes to open it.                             *)
(***************************************************************************)
EXTENDS Naturals, Sequences, SequencesExt, FiniteSets, TLC

CONSTANTS
  SealRequests,   \* command lines of `secret seal`
  OtherSecrets,   \* sealed secrets of other origin
  GuestFiles,     \* files provisioned to the guest together: functions from names to contents
  KmsKeys,        \* <<provider, key id>> in the clouds
  Accounts,       \* credentials the clouds accept
  CloudFeatures,  \* the clouds built in: "aliyun", "aws"
  VaultWrites,    \* <<provider, value>> of secrets set in the vaults
  MaxSealed, MaxChanges  \* bounds: secrets sealed, changes of files, keys and secrets

ProvisionedKids == {[form |-> "uri", name |-> "kid"], [form |-> "local", name |-> "kid"]}

VARIABLES
  guestFiles,   \* the credentials under kms-credential: a function from names to contents
  kidKeys,      \* the public keys: a function from kids to JWKs (in the KBS, or local files)
  vaults,       \* a function from <<provider, name>> to the versions of a secret
  sealedSecrets,\* what `seal` has printed, with the request
  cliFiles,     \* files the tool has written
  unsealing,    \* the request to unseal under way
  calm,         \* history: nothing has changed or failed since it began
  changes       \* history: how much has changed

secretVars == <<guestFiles, kidKeys, vaults, sealedSecrets, cliFiles, unsealing, calm, changes>>

Unset == ""   \* a field that is not given

\* Clouds there are clients for; what the command line must give; "error" is no secret.
ASSUME SealedSecretAssumption ==
  /\ CloudFeatures \subseteq {"aliyun", "aws"}
  /\ \A r \in SealRequests : r.type = "envelope" =>
       /\ r.data # "error"
       /\ r.provider = "aliyun" => r.credential # Unset /\ r.instance # Unset
       /\ r.provider = "aws" => r.region # Unset
  /\ \A w \in VaultWrites : w[2] # "error"

NoSettings == [client_type |-> Unset, client_key_id |-> Unset, instance |-> Unset, region |-> Unset,
               token_path |-> Unset]
Client(kind, credential, instance) == [kind |-> kind, credential |-> credential, instance |-> instance]
NoClient == Client("none", Unset, Unset)
Idle == [pc |-> "idle", secret |-> "none", by |-> "hub", skip |-> FALSE, client |-> NoClient, result |-> "none"]

SecretInit ==
  /\ guestFiles = <<>> /\ kidKeys = <<>> /\ vaults = <<>>
  /\ sealedSecrets = {} /\ cliFiles = {}
  /\ unsealing = Idle /\ calm = TRUE /\ changes = 0

-----------------------------------------------------------------------------
(* KMS clients *)

File(name) == IF name \in DOMAIN guestFiles THEN guestFiles[name] ELSE "missing"
Legal(content) == content \notin {"missing", "illegal"}

\* ClientKeyClient::new: the key is opened with its password; the certificate must be one.
ClientKeyNew(key, instance, password, cert) ==
  IF Legal(key) /\ password = key /\ Legal(cert)
  THEN Client("client_key", key, instance) ELSE NoClient

CloudClient(kind, content) == IF Legal(content) THEN Client(kind, content, Unset) ELSE NoClient

\* from_provider_settings of the three clients of Aliyun; the settings say which it is.
ClientKeyClient(s) ==
  IF s.client_key_id # Unset /\ s.instance # Unset
  THEN ClientKeyNew(File(<<"clientKey", s.client_key_id>>), s.instance,
                    File(<<"password", s.client_key_id>>), File(<<"PrivateKmsCA", s.instance>>))
  ELSE NoClient
RamRoleClient == CloudClient("ecs_ram_role", File(<<"ecsRamRole", Unset>>))
StsTokenClient(s) == IF s.region # Unset /\ s.token_path # Unset
                     THEN CloudClient("sts_token", File(<<"token", s.token_path>>)) ELSE NoClient
AliyunClient(s) ==
  CASE s.client_type = "client_key" -> ClientKeyClient(s)
    [] s.client_type = "ecs_ram_role" -> RamRoleClient
    [] s.client_type = "sts_token" -> StsTokenClient(s)
    [] OTHER -> NoClient

AwsClient(s) == IF s.region # Unset THEN CloudClient("aws", File(<<"aws", Unset>>)) ELSE NoClient

CloudOf(provider, s) ==
  CASE provider \notin CloudFeatures -> NoClient
    [] provider = "aliyun" -> AliyunClient(s)
    [] provider = "aws" -> AwsClient(s)

\* new_decryptor knows no KBS; new_getter does, by AA_KBC_PARAMS.
NewDecryptor(provider, s) == CloudOf(provider, s)
NewGetter(provider, s, params) ==
  IF provider # "kbs" THEN CloudOf(provider, s)
  ELSE IF params THEN Client("kbs", Unset, Unset) ELSE NoClient

ProviderOfClient(c) == IF c.kind \in {"aws", "kbs"} THEN c.kind ELSE "aliyun"

\* A request is answered when the key or the token it is signed with, or the role it has
\* got a session of, is one of an account. up: nothing is lost on the way.
SignedByAccount(c) == c.kind \in {"client_key", "aws"} /\ c.credential \in Accounts
SessionOfAccount(c) == c.kind = "ecs_ram_role" /\ c.credential \in Accounts
TokenOfAccount(c) == c.kind = "sts_token" /\ c.credential \in Accounts
Accepted(c, up) == up /\ (c.kind = "kbs" \/ SignedByAccount(c) \/ SessionOfAccount(c) \/ TokenOfAccount(c))

\* export_provider_settings of the clients that encrypt.
ExportSettings(c, region) ==
  IF c.kind = "aws" THEN [NoSettings EXCEPT !.region = region]
  ELSE [client_type |-> c.kind, client_key_id |-> c.credential, instance |-> c.instance, region |-> Unset,
        token_path |-> Unset]

\* encrypt of the two clients that do.
CanEncrypt(c, key, up) == /\ c.kind \in {"client_key", "aws"} /\ Accepted(c, up)
                          /\ <<ProviderOfClient(c), key>> \in KmsKeys
Ciphertext(c, key, dek) == [provider |-> ProviderOfClient(c), key |-> key, dek |-> dek]
NoCiphertext == [provider |-> Unset, key |-> Unset, dek |-> Unset]

\* Aliyun gives the iv apart, as an annotation; AWS keeps it in the ciphertext.
CryptAnnotations(c) == IF c.kind = "aws" THEN "none" ELSE "iv"

\* decrypt: the ciphertext must be one of the cloud, under the key named.
AliyunDecrypts(c, p, up) == c.kind = "client_key" /\ Accepted(c, up) /\ p.annotations = "iv"
AwsDecrypts(c, p, up) == c.kind = "aws" /\ Accepted(c, up)
KmsDecrypt(c, p, up) ==
  IF /\ AliyunDecrypts(c, p, up) \/ AwsDecrypts(c, p, up)
     /\ p.cipher.provider = ProviderOfClient(c) /\ p.cipher.key = p.name
  THEN p.cipher.dek ELSE "error"

\* get_secret: of a version, where the annotations name one, or the last.
VersionOf(p, versions) == IF p.annotations = "first" THEN 1 ELSE Len(versions)
GetSecretValue(c, p, up) ==
  LET at == <<ProviderOfClient(c), p.name>> IN
  IF Accepted(c, up) /\ at \in DOMAIN vaults THEN vaults[at][VersionOf(p, vaults[at])] ELSE "error"

-----------------------------------------------------------------------------
(* Provisioning *)

Changes == changes < MaxChanges /\ changes' = changes + 1 /\ calm' = FALSE

ProvisionFiles(files) ==
  /\ Changes /\ \E f \in DOMAIN files : File(f) # files[f]
  /\ guestFiles' = [f \in DOMAIN files \cup DOMAIN guestFiles |->
                      IF f \in DOMAIN files THEN files[f] ELSE guestFiles[f]]
  /\ UNCHANGED <<kidKeys, vaults, sealedSecrets, cliFiles, unsealing>>

\* The owner puts a public key where a kid points.
ProvisionKey(kid, jwk) ==
  /\ Changes /\ (jwk = "jwk1" => <<"public", jwk>> \in cliFiles)
  /\ (kid \in DOMAIN kidKeys => kidKeys[kid] # jwk)
  /\ kidKeys' = [k \in DOMAIN kidKeys \cup {kid} |-> IF k = kid THEN jwk ELSE kidKeys[k]]
  /\ UNCHANGED <<guestFiles, vaults, sealedSecrets, cliFiles, unsealing>>

\* set_secret: created, or when it is there a new version of it.
Versions(at) == IF at \in DOMAIN vaults THEN vaults[at] ELSE <<>>
SetSecret(provider, name, value) ==
  /\ Changes
  /\ vaults' = [at \in DOMAIN vaults \cup {<<provider, name>>} |->
                  IF at = <<provider, name>> THEN Append(Versions(at), value) ELSE vaults[at]]
  /\ UNCHANGED <<guestFiles, kidKeys, sealedSecrets, cliFiles, unsealing>>

\* generate_keys: two files, neither of which may be there; the tool may stop between
\* the two, and then does not run again.
Keygen(jwk, both) ==
  /\ {<<"private", jwk>>, <<"public", jwk>>} \cap cliFiles = {}
  /\ cliFiles' = cliFiles \cup {<<"private", jwk>>} \cup (IF both THEN {<<"public", jwk>>} ELSE {})
  /\ UNCHANGED <<guestFiles, kidKeys, vaults, sealedSecrets, unsealing, calm, changes>>

-----------------------------------------------------------------------------
(* seal_secret *)

\* handle_envelope_provider: from the files the command line names.
SealClient(r) ==
  IF r.provider \notin CloudFeatures THEN NoClient
  ELSE IF r.provider = "aliyun" THEN ClientKeyNew(r.credential, r.instance, r.password, "cert")
  ELSE CloudClient("aws", r.credential)

SealedContent(r, c, dek) ==
  IF r.type = "envelope"
  THEN [legal |-> TRUE, version |-> "0.1.0", type |-> "envelope", name |-> r.name, provider |-> ProviderOfClient(c),
        settings |-> ExportSettings(c, r.region), annotations |-> CryptAnnotations(c),
        cipher |-> Ciphertext(c, r.name, dek), data |-> <<dek, r.data>>]
  ELSE [legal |-> TRUE, version |-> "0.1.0", type |-> "vault", name |-> r.name, provider |-> r.provider,
        settings |-> r.settings, annotations |-> r.annotations,
        cipher |-> NoCiphertext, data |-> <<Unset, Unset>>]

\* to_signed_base64_string: with the private key, under ES256, over header and payload.
Signed(kid, jwk, content) ==
  [form |-> "sealed", jws |-> TRUE, kid |-> kid, alg |-> "ES256", payload |-> content,
   signature |-> [jwk |-> jwk, header |-> kid, payload |-> content]]

Seal(r, up) ==
  LET c == SealClient(r) IN
  /\ Cardinality(sealedSecrets) < MaxSealed
  /\ r.type = "envelope" => c # NoClient /\ CanEncrypt(c, r.name, up)
  /\ <<"private", r.jwk>> \in cliFiles
  /\ sealedSecrets' = sealedSecrets
       \cup {[request |-> r,
              secret |-> Signed(r.kid, r.jwk, SealedContent(r, c, "dek" \o ToString(Cardinality(sealedSecrets))))]}
  /\ UNCHANGED <<guestFiles, kidKeys, vaults, cliFiles, unsealing, calm, changes>>

-----------------------------------------------------------------------------
(* unseal_secret *)

\* AA_KBC_PARAMS: the hub sets it when it starts, the tool when it knows the provider.
ParamsSet == unsealing.by = "hub"

Step(u) == unsealing' = u /\ UNCHANGED <<guestFiles, kidKeys, vaults, sealedSecrets, cliFiles, changes>>
Unsealed(result) == Step([unsealing EXCEPT !.pc = "done", !.result = result])

\* Without verification the string is cut at its dots, into four; with it it must be a JWS.
BeginUnseal(s, by, skip) ==
  LET legal == IF skip THEN s.form = "sealed" ELSE s.jws IN
  /\ unsealing.pc \in {"idle", "done"}
  /\ calm' = TRUE
  /\ Step([pc |-> IF ~ legal THEN "done" ELSE IF skip THEN "payload" ELSE "kid", secret |-> s, by |-> by,
           skip |-> skip, client |-> NoClient, result |-> IF legal THEN "none" ELSE "error"])

\* get_kid: from the KBS, or from a file that is in the directory of the credentials.
KidKey(kid, up) ==
  IF /\ kid \in DOMAIN kidKeys
     /\ \/ kid.form = "uri" /\ ParamsSet /\ up
        \/ kid.form = "local"
  THEN kidKeys[kid] ELSE "missing"

\* Mutant of Verifies: the header is what is signed.
VerifiesHeader(s, jwk) == s.alg = "ES256" /\ Legal(jwk) /\ s.signature.jwk = jwk /\ s.signature.header = s.kid

\* validate_es256: over the two sections before the signature.
Verifies(s, jwk) == /\ s.alg = "ES256" /\ Legal(jwk) /\ s.signature.jwk = jwk
                    /\ s.signature.header = s.kid /\ s.signature.payload = s.payload

VerifySecret(up) ==
  /\ unsealing.pc = "kid"
  /\ calm' = (calm /\ up)
  /\ IF Verifies(unsealing.secret, KidKey(unsealing.secret.kid, up))
     THEN Step([unsealing EXCEPT !.pc = "payload"]) ELSE Unsealed("error")

\* Secret::unseal, and the client for the provider of the envelope or the vault.
OpenProvider ==
  LET p == unsealing.secret.payload
      c == IF p.type = "envelope" THEN NewDecryptor(p.provider, p.settings)
           ELSE NewGetter(p.provider, p.settings, TRUE) IN
  /\ unsealing.pc = "payload"
  /\ UNCHANGED calm
  /\ IF p.legal /\ p.version = "0.1.0" /\ c # NoClient
     THEN Step([unsealing EXCEPT !.pc = "client", !.client = c]) ELSE Unsealed("error")

\* The envelope's data is opened with the key the KMS gives.
AskProvider(up) ==
  LET p == unsealing.secret.payload
      dek == KmsDecrypt(unsealing.client, p, up) IN
  /\ unsealing.pc = "client"
  /\ calm' = (calm /\ up)
  /\ Unsealed(IF p.type = "vault" THEN GetSecretValue(unsealing.client, p, up)
              ELSE IF p.data[1] = dek THEN p.data[2] ELSE "error")

\* The tool writes what it unsealed to a file that is not there.
WriteUnsealed ==
  /\ unsealing.pc = "done" /\ unsealing.by = "cli" /\ unsealing.result \notin {"none", "error"}
  /\ <<"unsealed", "file">> \notin cliFiles
  /\ cliFiles' = cliFiles \cup {<<"unsealed", "file">>}
  /\ UNCHANGED <<guestFiles, kidKeys, vaults, sealedSecrets, unsealing, calm, changes>>

SecretNext ==
  \/ \E files \in GuestFiles : ProvisionFiles(files)
  \/ \E kid \in ProvisionedKids, jwk \in {"jwk1", "jwk2"} : ProvisionKey(kid, jwk)
  \/ \E w \in VaultWrites : SetSecret(w[1], "vaulted", w[2])
  \/ \E both \in BOOLEAN : Keygen("jwk1", both)
  \/ \E r \in SealRequests, up \in BOOLEAN : Seal(r, up)
  \/ \E s \in OtherSecrets \cup {x.secret : x \in sealedSecrets}, by \in {"hub", "cli"}, skip \in BOOLEAN :
       BeginUnseal(s, by, skip)
  \/ \E up \in BOOLEAN : VerifySecret(up) \/ AskProvider(up)
  \/ OpenProvider
  \/ WriteUnsealed

SecretSpec == SecretInit /\ [][SecretNext]_secretVars

-----------------------------------------------------------------------------
(* Properties *)

\* What is unsealed with verification was sealed so: it was signed, all of it, with a
\* key that the owner has put where the kid points, and an envelope gives the data that
\* was sealed with it.
UnsealedIsSealed ==
  unsealing.pc = "done" /\ unsealing.result # "error" /\ ~ unsealing.skip =>
    /\ unsealing.secret.signature.payload = unsealing.secret.payload
    /\ calm => kidKeys[unsealing.secret.kid] = unsealing.secret.signature.jwk
    /\ unsealing.secret.payload.type = "envelope" =>
         unsealing.result = unsealing.secret.signature.payload.data[2]

\* Everything a sealed secret of the tool needs is where the guest looks for it.
InPlace(x) ==
  LET r == x.request IN
  /\ r.kid \in DOMAIN kidKeys /\ kidKeys[r.kid] = r.jwk
  /\ IF r.type = "envelope"
     THEN /\ r.credential \in Accounts
          /\ r.provider = "aws" => File(<<"aws", Unset>>) = r.credential
          /\ r.provider = "aliyun" => /\ \A n \in {"clientKey", "password"} : File(<<n, r.credential>>) = r.credential
                                      /\ File(<<"PrivateKmsCA", r.instance>>) = "cert"
     ELSE r.provider = "kbs" /\ <<"kbs", r.name>> \in DOMAIN vaults

\* What the tool sealed is unsealed by the hub when its key, its credentials and its
\* secret are in place and nothing changes or fails on the way: the settings and
\* annotations that seal writes are those unseal needs.
SealedIsUnsealed ==
  \A x \in sealedSecrets :
    unsealing.pc = "done" /\ unsealing.secret = x.secret /\ calm /\ unsealing.by = "hub" /\ InPlace(x)
    => unsealing.result # "error"

\* Sealing and unsealing are inverse: nothing else comes out, and nothing is lost
\* (secret/mod.rs).
SealingRoundTrips == UnsealedIsSealed /\ SealedIsUnsealed
=============================================================================
