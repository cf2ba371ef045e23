--------------------------- MODULE AdaCertificates --------------------------
(***************************************************************************)
(* parsing/poolRegistration.ts and parsing/certificate.ts of hw-app-ada:   *)
(* pools and the certificates of a transaction.                            *)
(***************************************************************************)
EXTENDS AdaValues

POOL_REGISTRATION_OWNERS_MAX == 1000
POOL_REGISTRATION_RELAYS_MAX == 1000
VRF_KEY_HASH_LENGTH == 32
REWARD_ACCOUNT_HEX_LENGTH == 29
METADATA_HASH_LENGTH == 32
MAX_DNS_NAME_LENGTH == 128

\* A pool key, an owner and a reward account: of the device by a path, or of a third party
\* by a hash.
ParseHeld(held, bytes, invalidPath, invalidHash, invalidType) ==
  CASE held.type = "DEVICE_OWNED" -> ParseBIP32Path(held.path, invalidPath)
    [] held.type = "THIRD_PARTY" -> ParseHexStringOfLength(held.hash, bytes, invalidHash)
    [] OTHER -> invalidType

ParsePoolKey(poolKey) ==
  ParseHeld(poolKey, KEY_HASH_LENGTH, "POOL_KEY_INVALID_PATH", "POOL_KEY_INVALID_KEY_HASH",
            "POOL_KEY_INVALID_TYPE")
ParsePoolOwner(owner) ==
  ParseHeld(owner, KEY_HASH_LENGTH, "POOL_OWNER_INVALID_PATH", "POOL_OWNER_INVALID_KEY_HASH",
            "POOL_OWNER_INVALID_TYPE")
ParseRewardAccount(account) ==
  ParseHeld(account, REWARD_ACCOUNT_HEX_LENGTH, "POOL_REWARD_ACCOUNT_INVALID_PATH",
            "POOL_REWARD_ACCOUNT_INVALID_HEX", "POOL_REWARD_ACCOUNT_INVALID_TYPE")

\* The bound on the numerator is the text of the denominator.
\* Mutant: it is the bound on the denominator.
ParseMarginUnrelated(margin) ==
  Verdict(<<ParseUint64Str(margin.denominator, <<0>>, POOL_MARGIN_DENOMINATOR_MAX_STR,
                           "POOL_REGISTRATION_INVALID_MARGIN_DENOMINATOR"),
            ParseUint64Str(margin.numerator, <<0>>, POOL_MARGIN_DENOMINATOR_MAX_STR,
                           "POOL_REGISTRATION_INVALID_MARGIN")>>)
ParseMargin(margin) ==
  Verdict(<<ParseUint64Str(margin.denominator, <<0>>, POOL_MARGIN_DENOMINATOR_MAX_STR,
                           "POOL_REGISTRATION_INVALID_MARGIN_DENOMINATOR"),
            ParseUint64Str(margin.numerator, <<0>>, margin.denominator.text,
                           "POOL_REGISTRATION_INVALID_MARGIN")>>)

-----------------------------------------------------------------------------
(***************************************************************************)
(* Relays.  An IPv4 address is the sequence of its parts between points, a *)
(* part the width of the number it prints or other; an IPv6 address is a   *)
(* hex string, the text without its colons.                                *)
(***************************************************************************)
ParsePort(port) == Validate(IsUint16(port), "RELAY_INVALID_PORT")
ParseIPv4(parts) ==
  Verdict(<<Validate(Len(parts) = 4, "RELAY_INVALID_IPV4"),
            Each(LAMBDA part : Validate(IsUint8(part), "RELAY_INVALID_IPV4"), parts)>>)
ParseIPv6(hex) == Validate(IsHexStringOfLength(hex, 16), "RELAY_INVALID_IPV6")
ParseDnsName(name) ==
  Validate(name.ascii /\ name.length \in 1 .. MAX_DNS_NAME_LENGTH, "RELAY_INVALID_DNS")

ParsePoolRelay(relay) ==
  CASE relay.type = "SINGLE_HOST_IP_ADDR" ->
         Verdict(<<Each(ParsePort, relay.port), Each(ParseIPv4, relay.ipv4),
                   Each(ParseIPv6, relay.ipv6)>>)
    [] relay.type = "SINGLE_HOST_HOSTNAME" ->
         Verdict(<<Each(ParsePort, relay.port), ParseDnsName(relay.dnsName)>>)
    [] relay.type = "MULTI_HOST" -> ParseDnsName(relay.dnsName)
    [] OTHER -> "RELAY_INVALID_TYPE"

ParsePoolMetadata(metadata) ==
  Verdict(<<ParseUrl(metadata.url, "POOL_REGISTRATION_METADATA_INVALID_URL"),
            ParseHexStringOfLength(metadata.hash, METADATA_HASH_LENGTH,
                                   "POOL_REGISTRATION_METADATA_INVALID_HASH")>>)

ParsePoolParams(pool) ==
  Verdict(<<ParsePoolKey(pool.poolKey),
            ParseHexStringOfLength(pool.vrfKeyHash, VRF_KEY_HASH_LENGTH,
                                   "POOL_REGISTRATION_INVALID_VRF_KEY_HASH"),
            ParseCoin(pool.pledge, "POOL_REGISTRATION_INVALID_PLEDGE"),
            ParseCoin(pool.cost, "POOL_REGISTRATION_INVALID_COST"),
            ParseMargin(pool.margin),
            ParseRewardAccount(pool.rewardAccount),
            Each(ParsePoolOwner, pool.owners),
            Each(ParsePoolRelay, pool.relays),
            Each(ParsePoolMetadata, pool.metadata),
            Validate(Len(pool.owners) <= POOL_REGISTRATION_OWNERS_MAX,
                     "POOL_REGISTRATION_OWNERS_TOO_MANY"),
            Validate(Len(pool.relays) <= POOL_REGISTRATION_RELAYS_MAX,
                     "POOL_REGISTRATION_RELAYS_TOO_MANY")>>)

-----------------------------------------------------------------------------
(***************************************************************************)
(* Certificates.  The types are those of public.ts, by the credential they *)
(* carry; a certificate has the fields of its type only.                   *)
(***************************************************************************)
PlainStakeTypes == {"STAKE_REGISTRATION", "STAKE_DEREGISTRATION"}
ConwayStakeTypes == {"STAKE_REGISTRATION_CONWAY", "STAKE_DEREGISTRATION_CONWAY"}
StakeTypes ==
  PlainStakeTypes \cup ConwayStakeTypes \cup {"STAKE_DELEGATION", "VOTE_DELEGATION"}
CommitteeTypes == {"AUTHORIZE_COMMITTEE_HOT", "RESIGN_COMMITTEE_COLD"}
DRepTypes == {"DREP_REGISTRATION", "DREP_DEREGISTRATION", "DREP_UPDATE"}
PoolTypes == {"STAKE_POOL_REGISTRATION", "STAKE_POOL_RETIREMENT"}
CertificateTypes == StakeTypes \cup CommitteeTypes \cup DRepTypes \cup PoolTypes

DRepKinds == {"KEY_PATH", "KEY_HASH", "SCRIPT_HASH", "ABSTAIN", "NO_CONFIDENCE"}
ParseDRep(dRep) ==
  CASE dRep.type \in CredentialTypes -> ParseCredential(dRep, "CERTIFICATE_INVALID_DREP")
    [] dRep.type \in {"ABSTAIN", "NO_CONFIDENCE"} -> OK
    [] OTHER -> "unreachable"

ParseDeposit(deposit) == ParseCoin(deposit, "CERTIFICATE_INVALID_DEPOSIT")

ParseStakeCertificate(cert) ==
  Verdict(<<ParseCredential(cert.credential, "CERTIFICATE_INVALID_STAKE_CREDENTIAL"),
            CASE cert.type \in ConwayStakeTypes -> ParseDeposit(cert.deposit)
              [] cert.type = "STAKE_DELEGATION" ->
                   ParseHexStringOfLength(cert.poolKeyHash, KEY_HASH_LENGTH,
                                          "CERTIFICATE_INVALID_POOL_KEY_HASH")
              [] cert.type = "VOTE_DELEGATION" -> ParseDRep(cert.dRep)
              [] OTHER -> OK>>)

ParseCommitteeCertificate(cert) ==
  Verdict(<<ParseCredential(cert.credential, "CERTIFICATE_INVALID_COMMITTEE_CREDENTIAL"),
            IF cert.type = "AUTHORIZE_COMMITTEE_HOT"
            THEN ParseCredential(cert.hotCredential, "CERTIFICATE_INVALID_COMMITTEE_CREDENTIAL")
            ELSE Each(ParseAnchor, cert.anchor)>>)

ParseDRepCertificate(cert) ==
  Verdict(<<ParseCredential(cert.credential, "CERTIFICATE_INVALID_DREP_CREDENTIAL"),
            IF cert.type = "DREP_UPDATE" THEN OK ELSE ParseDeposit(cert.deposit),
            IF cert.type = "DREP_DEREGISTRATION" THEN OK ELSE Each(ParseAnchor, cert.anchor)>>)

ParseRetirement(cert) ==
  Verdict(<<ParseBIP32Path(cert.poolKeyPath, "CERTIFICATE_INVALID_PATH"),
            ParseUint64(cert.retirementEpoch, "POOL_RETIREMENT_INVALID_RETIREMENT_EPOCH")>>)

ParseCertificate(cert) ==
  CASE cert.type \in StakeTypes -> ParseStakeCertificate(cert)
    [] cert.type \in CommitteeTypes -> ParseCommitteeCertificate(cert)
    [] cert.type \in DRepTypes -> ParseDRepCertificate(cert)
    [] cert.type = "STAKE_POOL_REGISTRATION" -> ParsePoolParams(cert.pool)
    [] cert.type = "STAKE_POOL_RETIREMENT" -> ParseRetirement(cert)
    [] OTHER -> "CERTIFICATE_INVALID_TYPE"
=============================================================================
