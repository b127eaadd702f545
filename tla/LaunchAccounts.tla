--------------------------- MODULE LaunchAccounts ---------------------------
(***************************************************************************)
(* The accounts of every instruction about a launch: what the SDK passes,  *)
(* derived from the addresses it knows, and what the program, DBC and DAMM *)
(* v2 accept.  Two launches, whoever else made a pool on their configs or  *)
(* gave away a position, and instructions where some accounts are those of *)
(* another launch.  An address is a tuple: its kind, then its seeds.       *)
(***************************************************************************)
EXTENDS Naturals, Functions

CONSTANTS
    Terms,  \* what may be launched: functions from configs to [creator, base, quote]
    Wallets \* who may make a pool

VARIABLES
    terms,      \* the terms of this run
    launches,   \* the Launch accounts, by config
    pools,      \* DBC pools: [config, base, quote, creator, migrated]
    positions   \* DAMM v2 positions: [pool, nft, at, owner]

accountVars == <<terms, launches, pools, positions>>

Key(n) == <<"key", n>>
None == Key("default")
TokenProgram == Key("spl_token")
Token2022Program == Key("token_2022")
PlatformTreasury == Key("treasury")
Configs == DOMAIN terms
Mints == {terms[c].base : c \in Configs}
ProgramOf(mint) == IF mint = Key("wrapped") THEN TokenProgram ELSE Token2022Program

LaunchPda(config) == <<"launch", config>>
AuthorityPda(config) == <<"authority", config>>
VaultAuthorityPda(config) == <<"vault_authority", config>>
AssociatedTokenAddress(owner, mint, program) == <<"ata", owner, mint, program>>
\* The two mints of a pool are seeds in the order of their bytes: a set.
DbcPoolPda(config, base, quote) == <<"pool", config, {base, quote}>>
DammPoolPda(dammConfig, base, quote) == <<"pool", dammConfig, {base, quote}>>
TokenVaultPda(pool, mint) == <<"token_vault", mint, pool>>
MetadataPda(mint) == <<"metadata", mint>>
TokenBadgePda(mint) == <<"token_badge", mint>>
PositionPda(nft) == <<"position", nft>>
PositionNftAccountPda(nft) == <<"position_nft_account", nft>>
DammConfig == Key("customizable")
VaultAddress(config, mint, program) ==
    AssociatedTokenAddress(VaultAuthorityPda(config), mint, program)

PoolAddress(p) == DbcPoolPda(p.config, p.base, p.quote)
Created == {c \in Configs : launches[c].created}

-----------------------------------------------------------------------------
(* The SDK.                                                                *)

\* The slots of two records.
Joined(f, g) == [s \in DOMAIN f \union DOMAIN g |-> IF s \in DOMAIN f THEN f[s] ELSE g[s]]

\* A launch as it is decoded: a pool of all zeroes is not registered.
LaunchAccount(config) == Joined(launches[config], [poolRegistered |-> launches[config].pool # None])

\* The registered pool, or the one that is to be.
KeysOf(launch) ==
    [config |-> launch.config, baseMint |-> launch.baseMint, quoteMint |-> launch.quoteMint,
     quoteTokenProgram |-> launch.quoteTokenProgram, creator |-> launch.creator,
     pool |-> IF launch.poolRegistered THEN launch.pool
              ELSE DbcPoolPda(launch.config, launch.baseMint, launch.quoteMint)]

CreatorQuoteAccount(k) == AssociatedTokenAddress(k.creator, k.quoteMint, k.quoteTokenProgram)
PlatformQuoteAccount(k) == AssociatedTokenAddress(PlatformTreasury, k.quoteMint, k.quoteTokenProgram)
ClaimerQuoteAccount(k) == AssociatedTokenAddress(AuthorityPda(k.config), k.quoteMint, k.quoteTokenProgram)
ClaimerBaseAccount(k) == AssociatedTokenAddress(AuthorityPda(k.config), k.baseMint, TokenProgram)

\* The accounts the builders derive from a launch's keys, by slot.
Derived(k) ==
    [launch |-> LaunchPda(k.config), claimer |-> AuthorityPda(k.config), config |-> k.config,
     vaultAuthority |-> VaultAuthorityPda(k.config), pool |-> k.pool,
     vault |-> VaultAddress(k.config, k.quoteMint, k.quoteTokenProgram),
     claimerBase |-> ClaimerBaseAccount(k), baseMint |-> k.baseMint, quoteMint |-> k.quoteMint,
     quoteProgram |-> k.quoteTokenProgram, metadata |-> MetadataPda(k.baseMint),
     dbcBaseVault |-> TokenVaultPda(k.pool, k.baseMint), dbcQuoteVault |-> TokenVaultPda(k.pool, k.quoteMint),
     transit |-> ClaimerQuoteAccount(k), creatorQuote |-> CreatorQuoteAccount(k),
     platformQuote |-> PlatformQuoteAccount(k)]

FeeSplitSlots == {"transit", "creatorQuote", "platformQuote"}
DbcQuoteSlots == {"launch", "claimer", "config", "pool", "vault", "dbcQuoteVault", "quoteMint", "quoteProgram"}
RegisterPoolIx(k) == Restrict(Derived(k), {"launch", "config", "pool", "baseMint", "metadata"})
HarvestCurveFeesIx(k) ==
    Restrict(Derived(k), DbcQuoteSlots \union {"claimerBase", "dbcBaseVault", "baseMint", "platformQuote"})
HarvestMigrationFeeIx(k) == Restrict(Derived(k), DbcQuoteSlots \union FeeSplitSlots)
HarvestSurplusIx(k) == Restrict(Derived(k), DbcQuoteSlots)
SyncMigrationIx(k) == Restrict(Derived(k), {"launch", "pool"})
BurnClaimerBaseIx(k) == Restrict(Derived(k), {"launch", "claimer", "claimerBase", "baseMint"})
FloorIx(k, registered) ==
    [Restrict(Derived(k), {"launch", "vault", "baseMint"})
        EXCEPT !.baseMint = IF registered THEN k.baseMint ELSE Key("system")]
HarvestLpFeesIx(k, p) ==
    Joined(Restrict(Derived(k), FeeSplitSlots \union
               {"launch", "claimer", "claimerBase", "vault", "baseMint", "quoteMint", "quoteProgram"}),
           [dammPool |-> p.pool, position |-> PositionPda(p.nft), nftAccount |-> p.at,
            dammBaseVault |-> TokenVaultPda(p.pool, k.baseMint), dammQuoteVault |-> TokenVaultPda(p.pool, k.quoteMint)])
RedeemIx(k, holder) ==
    Joined(Restrict(Derived(k), {"launch", "vaultAuthority", "pool", "baseMint", "vault", "quoteMint", "quoteProgram"}),
           [holder |-> holder, holderBase |-> AssociatedTokenAddress(holder, k.baseMint, TokenProgram),
            holderQuote |-> AssociatedTokenAddress(holder, k.quoteMint, k.quoteTokenProgram)])
CreateLaunchIx(config, t) ==
    Joined(Restrict(Derived([config |-> config, pool |-> None, baseMint |-> t.base, quoteMint |-> t.quote,
                             quoteTokenProgram |-> ProgramOf(t.quote), creator |-> t.creator]),
               FeeSplitSlots \union {"config", "claimer", "vaultAuthority", "launch", "vault", "baseMint",
                                     "quoteMint", "quoteProgram"}),
           [creator |-> t.creator])
\* The config of a launch: its fees and what is left over are the claimer's.
CreateConfigIx(config, t) ==
    [config |-> config, feeClaimer |-> AuthorityPda(config), leftoverReceiver |-> AuthorityPda(config),
     quoteMint |-> t.quote,
     badge |-> IF ProgramOf(t.quote) = Token2022Program THEN TokenBadgePda(t.quote) ELSE None]
\* The pool accounts derived from a config and its mints, and the instructions of DBC with them.
DbcPoolKeys(config, base, quote) ==
    LET pool == DbcPoolPda(config, base, quote)
    IN  [config |-> config, pool |-> pool, baseMint |-> base, quoteMint |-> quote,
         baseVault |-> TokenVaultPda(pool, base), quoteVault |-> TokenVaultPda(pool, quote)]
InitializePoolIx(config, t) ==
    Joined(DbcPoolKeys(config, t.base, t.quote),
           [metadata |-> MetadataPda(t.base), creator |-> t.creator, badge |-> CreateConfigIx(config, t).badge])
MigrationIx(k, nft) ==
    LET dammPool == DammPoolPda(DammConfig, k.baseMint, k.quoteMint)
    IN  Joined(DbcPoolKeys(k.config, k.baseMint, k.quoteMint),
               [dammPool |-> dammPool, nft |-> nft, position |-> PositionPda(nft),
                nftAccount |-> PositionNftAccountPda(nft), tokenAVault |-> TokenVaultPda(dammPool, k.baseMint),
                tokenBVault |-> TokenVaultPda(dammPool, k.quoteMint)])
DammV2PoolKeys(pool, base, quote) ==
    [pool |-> pool, baseMint |-> base, quoteMint |-> quote,
     baseVault |-> TokenVaultPda(pool, base), quoteVault |-> TokenVaultPda(pool, quote)]
SwapSlots == {"pool", "baseVault", "quoteVault", "baseMint", "quoteMint"}
DbcSwap2Ix(keys, payer, input, output) ==
    Joined(Restrict(keys, SwapSlots \union {"config"}), [payer |-> payer, input |-> input, output |-> output])
DammV2Swap2Ix(keys, payer, input, output) ==
    Joined(Restrict(keys, SwapSlots), [payer |-> payer, input |-> input, output |-> output])
\* A trade on the curve takes the pool of the config, one after migration the pool the
\* migration derives.
BuildTrade(k, trader, buys, migrated) ==
    LET base == AssociatedTokenAddress(trader, k.baseMint, TokenProgram)
        quote == AssociatedTokenAddress(trader, k.quoteMint, k.quoteTokenProgram)
        input == IF buys THEN quote ELSE base
        output == IF buys THEN base ELSE quote
        dammPool == DammPoolPda(DammConfig, k.baseMint, k.quoteMint)
    IN  IF migrated
        THEN DammV2Swap2Ix(DammV2PoolKeys(dammPool, k.baseMint, k.quoteMint), trader, input, output)
        ELSE DbcSwap2Ix(DbcPoolKeys(k.config, k.baseMint, k.quoteMint), trader, input, output)

\* The positions whose NFT an account of the claimer holds, on any pool of the mints.
FindClaimerPositions(k) ==
    {p \in positions : p.owner = AuthorityPda(k.config) /\ p.mints = <<k.baseMint, k.quoteMint>>}

\* What an operator or a holder may send for a launch.
Built(op, config, holder) ==
    LET launch == LaunchAccount(config)
        k == KeysOf(launch)
    IN  CASE op = "register_pool" -> {RegisterPoolIx(k)}
          [] op = "harvest_curve_fees" -> {HarvestCurveFeesIx(k)}
          [] op = "harvest_migration_fee" -> {HarvestMigrationFeeIx(k)}
          [] op = "harvest_surplus" -> {HarvestSurplusIx(k)}
          [] op = "sync_migration" -> {SyncMigrationIx(k)}
          [] op = "burn_claimer_base" -> {BurnClaimerBaseIx(k)}
          [] op = "harvest_lp_fees" -> {HarvestLpFeesIx(k, p) : p \in FindClaimerPositions(k)}
          [] op = "redeem" -> {RedeemIx(k, holder)}
          [] op = "floor" -> {FloorIx(k, launch.poolRegistered)}

Ops == {"register_pool", "harvest_curve_fees", "harvest_migration_fee", "harvest_surplus",
        "sync_migration", "burn_claimer_base", "harvest_lp_fees", "redeem", "floor"}

-----------------------------------------------------------------------------
(* The program.                                                            *)

QuoteAta(launch, owner) == AssociatedTokenAddress(owner, launch.quoteMint, launch.quoteTokenProgram)

\* What the account constraints compare a slot with, the same in every instruction.
Constrained(launch) ==
    [claimer |-> AuthorityPda(launch.config), config |-> launch.config, pool |-> launch.pool,
     vaultAuthority |-> VaultAuthorityPda(launch.config), vault |-> launch.vault,
     claimerBase |-> AssociatedTokenAddress(AuthorityPda(launch.config), launch.baseMint, TokenProgram),
     baseMint |-> launch.baseMint, quoteMint |-> launch.quoteMint, quoteProgram |-> launch.quoteTokenProgram,
     transit |-> QuoteAta(launch, AuthorityPda(launch.config)),
     creatorQuote |-> QuoteAta(launch, launch.creator), platformQuote |-> QuoteAta(launch, PlatformTreasury)]

\* register_pool names the pool, the view before it any base mint.
Free(op) == IF op = "register_pool" THEN {"pool"} ELSE IF op = "floor" THEN {"baseMint"} ELSE {}

PoolFitsMintOnly(ix, launch) == \* mutant: without the pool's config
    /\ \E p \in pools : PoolAddress(p) = ix.pool /\ p.base = ix.baseMint
    /\ ix.metadata = MetadataPda(ix.baseMint)
\* register_pool: the account is a DBC pool of the config and of the committed mint,
\* and the metadata that mint's.
PoolFits(ix, launch) ==
    /\ \E p \in pools : PoolAddress(p) = ix.pool /\ p.config = launch.config /\ p.base = ix.baseMint
    /\ ix.metadata = MetadataPda(ix.baseMint)

\* harvest_lp_fees: a pool of the launch's mints, a position in it, its NFT the claimer's.
PositionFits(ix, launch) ==
    \E p \in positions :
        /\ ix.position = PositionPda(p.nft) /\ ix.dammPool = p.pool /\ ix.nftAccount = p.at
        /\ p.mints = <<launch.baseMint, launch.quoteMint>> /\ p.owner = ix.claimer

\* redeem: the holder's tokens, and any account of the quote mint but the vault.
HolderFits(ix) ==
    /\ ix.holderBase = AssociatedTokenAddress(ix.holder, ix.baseMint, TokenProgram)
    /\ ix.holderQuote[3] = ix.quoteMint /\ ix.holderQuote[4] = ix.quoteProgram
    /\ ix.holderQuote # ix.vault

\* DBC and DAMM v2 take the token vaults their pool names.
VaultsFit(ix) ==
    /\ \A s \in {"dbcBaseVault"} \intersect DOMAIN ix : ix[s] = TokenVaultPda(ix.pool, ix.baseMint)
    /\ \A s \in {"dbcQuoteVault"} \intersect DOMAIN ix : ix[s] = TokenVaultPda(ix.pool, ix.quoteMint)
    /\ \A s \in {"dammBaseVault"} \intersect DOMAIN ix : ix[s] = TokenVaultPda(ix.dammPool, ix.baseMint)
    /\ \A s \in {"dammQuoteVault"} \intersect DOMAIN ix : ix[s] = TokenVaultPda(ix.dammPool, ix.quoteMint)

AcceptedFor(op, ix, config) ==
    LET launch == launches[config]
        constrained == Constrained(launch)
    IN  /\ ix.launch = LaunchPda(config)
        /\ op \notin {"burn_claimer_base", "floor"} => ((launch.pool = None) <=> (op = "register_pool"))
        /\ \A s \in (DOMAIN ix \intersect DOMAIN constrained) \ Free(op) : ix[s] = constrained[s]
        /\ op = "register_pool" => PoolFits(ix, launch)
        /\ op = "harvest_lp_fees" => PositionFits(ix, launch)
        /\ op = "redeem" => HolderFits(ix)
        /\ VaultsFit(ix)
Accepted(op, ix) == \E config \in Created : AcceptedFor(op, ix, config)

\* create_launch: everything is derived from the config that signs; the quote mint is
\* of the token program that is named.
CreateAccepted(ix) ==
    LET ata(owner) == AssociatedTokenAddress(owner, ix.quoteMint, ix.quoteProgram)
    IN  /\ ix.claimer = AuthorityPda(ix.config) /\ ix.vaultAuthority = VaultAuthorityPda(ix.config)
        /\ ix.launch = LaunchPda(ix.config) /\ ~launches[ix.config].created
        /\ ix.quoteProgram = ProgramOf(ix.quoteMint)
        /\ ix.vault = ata(ix.vaultAuthority) /\ ix.transit = ata(ix.claimer)
        /\ ix.creatorQuote = ata(ix.creator) /\ ix.platformQuote = ata(PlatformTreasury)

\* The config names the claimer; DBC wants a badge for a quote of Token-2022.
ConfigAccepted(ix) ==
    /\ ix.feeClaimer = AuthorityPda(ix.config) /\ ix.leftoverReceiver = AuthorityPda(ix.config)
    /\ ix.badge = IF ProgramOf(ix.quoteMint) = Token2022Program THEN TokenBadgePda(ix.quoteMint) ELSE None

\* DBC makes the pool of a config's quote mint for the creator who signs, and moves a pool
\* it has and its vaults to the DAMM v2 pool of the same mints.
PoolAccepted(ix) ==
    /\ ix.quoteMint = launches[ix.config].quoteMint /\ \A p \in pools : p.base # ix.baseMint
    /\ ix.badge = IF ProgramOf(ix.quoteMint) = Token2022Program THEN TokenBadgePda(ix.quoteMint) ELSE None
    /\ ix.pool = DbcPoolPda(ix.config, ix.baseMint, ix.quoteMint) /\ ix.metadata = MetadataPda(ix.baseMint)
MigrationAccepted(ix) ==
    /\ \E p \in pools : /\ PoolAddress(p) = ix.pool /\ p.config = ix.config /\ ~p.migrated
                        /\ p.base = ix.baseMint /\ p.quote = ix.quoteMint
    /\ ix.baseVault = TokenVaultPda(ix.pool, ix.baseMint) /\ ix.quoteVault = TokenVaultPda(ix.pool, ix.quoteMint)
    /\ ix.dammPool = DammPoolPda(DammConfig, ix.baseMint, ix.quoteMint)
    /\ ix.tokenAVault = TokenVaultPda(ix.dammPool, ix.baseMint)
    /\ ix.tokenBVault = TokenVaultPda(ix.dammPool, ix.quoteMint)
    /\ ix.position = PositionPda(ix.nft) /\ ix.nftAccount = PositionNftAccountPda(ix.nft)

\* A venue takes the vaults of a pool it has, and tokens of its mints; the input is the payer's.
SwapAccepted(ix, base, quote, migrated) ==
    /\ \E p \in pools : p.migrated = migrated /\ p.base = base /\ p.quote = quote
          /\ ix.pool = IF migrated THEN DammPoolPda(DammConfig, base, quote) ELSE PoolAddress(p)
    /\ ix.baseMint = base /\ ix.quoteMint = quote
    /\ ix.baseVault = TokenVaultPda(ix.pool, base) /\ ix.quoteVault = TokenVaultPda(ix.pool, quote)
    /\ ix.input[2] = ix.payer
    /\ <<ix.input[3], ix.output[3]>> \in {<<base, quote>>, <<quote, base>>}
    /\ \A a \in {ix.input, ix.output} : a[4] = IF a[3] = base THEN TokenProgram ELSE ProgramOf(quote)

-----------------------------------------------------------------------------
Unlaunched(config) ==
    [created |-> FALSE, config |-> config, creator |-> None, pool |-> None, baseMint |-> None,
     quoteMint |-> None, quoteTokenProgram |-> None, vault |-> None]

Init ==
    /\ terms \in Terms
    /\ launches = [c \in Configs |-> Unlaunched(c)]
    /\ pools = {} /\ positions = {}

CreateLaunch(config) ==
    LET ix == CreateLaunchIx(config, terms[config])
    IN  /\ CreateAccepted(ix) /\ ConfigAccepted(CreateConfigIx(config, terms[config]))
        /\ launches' = [launches EXCEPT ![config] =
               [created |-> TRUE, config |-> config, creator |-> ix.creator, pool |-> None,
                baseMint |-> ix.baseMint, quoteMint |-> ix.quoteMint, quoteTokenProgram |-> ix.quoteProgram,
                vault |-> ix.vault]]
        /\ UNCHANGED <<terms, pools, positions>>

\* DBC makes a mint and its pool, on any config, for whoever has the mint's key.
CreatePool(config, mint, creator) ==
    /\ config \in Created
    /\ PoolAccepted(InitializePoolIx(config, [base |-> mint, quote |-> launches[config].quoteMint,
                                              creator |-> creator]))
    /\ pools' = pools \union {[config |-> config, base |-> mint, quote |-> launches[config].quoteMint,
                               creator |-> creator, migrated |-> FALSE]}
    /\ UNCHANGED <<terms, launches, positions>>

\* Anyone registers, passing any pool there is and its metadata.
RegisterPool(config, p) ==
    LET ix == [launch |-> LaunchPda(config), config |-> config, pool |-> PoolAddress(p), baseMint |-> p.base,
               metadata |-> MetadataPda(p.base)]
    IN  /\ config \in Created
        /\ AcceptedFor("register_pool", ix, config)
        /\ launches' = [launches EXCEPT ![config].pool = ix.pool]
        /\ UNCHANGED <<terms, pools, positions>>

\* DBC migrates a pool to DAMM v2; the first position is the fee claimer's.
Migrate(p) ==
    LET nft == <<"nft", PoolAddress(p)>>
        ix == MigrationIx([config |-> p.config, baseMint |-> p.base, quoteMint |-> p.quote], nft)
    IN  /\ MigrationAccepted(ix)
        /\ pools' = (pools \ {p}) \union {[p EXCEPT !.migrated = TRUE]}
        /\ positions' = positions \union
              {[pool |-> ix.dammPool, mints |-> <<p.base, p.quote>>, nft |-> nft, at |-> ix.nftAccount, owner |-> AuthorityPda(p.config)]}
        /\ UNCHANGED <<terms, launches>>

\* Someone gives a position, on any DAMM v2 pool of a launch's mints (one of their own may
\* have them the other way round), to a claimer.
GivePosition(p, dammConfig, config) ==
    LET nft == <<"nft", Key("gift")>>
        claimer == AuthorityPda(config)
    IN  /\ \A q \in positions : q.nft # nft
        /\ dammConfig = DammConfig => p.migrated
        /\ \E mints \in {<<p.base, p.quote>>} \union (IF dammConfig = DammConfig THEN {} ELSE {<<p.quote, p.base>>}),
              at \in {PositionNftAccountPda(nft), AssociatedTokenAddress(claimer, nft, Token2022Program)} :
              positions' = positions \union
                  {[pool |-> DammPoolPda(dammConfig, p.base, p.quote), mints |-> mints, nft |-> nft,
                    at |-> at, owner |-> claimer]}
        /\ UNCHANGED <<terms, launches, pools>>

Next ==
    \/ \E c \in Configs : CreateLaunch(c)
    \/ \E c \in Configs, m \in Mints, w \in Wallets : CreatePool(c, m, w)
    \/ \E c \in Configs, p \in pools : RegisterPool(c, p)
    \/ \E p \in pools : Migrate(p)
    \/ \E p \in pools, d \in {DammConfig, Key("other")}, c \in Configs : GivePosition(p, d, c)

-----------------------------------------------------------------------------
TypeOK ==
    /\ DOMAIN launches = Configs
    /\ \A p \in pools : p.config \in Created /\ p.base \in Mints
    /\ \A p \in positions : \E c \in Configs : p.owner = AuthorityPda(c)

\* The pool that is registered is the one the SDK derives and every client trades on,
\* though anyone may make pools on the config and commit the mint of another launch.
RegisteredIsCanonical ==
    \A c \in Created : launches[c].pool # None =>
        launches[c].pool = DbcPoolPda(c, launches[c].baseMint, launches[c].quoteMint)

\* Whatever the SDK builds when its time has come is accepted: the crank's instructions,
\* a redemption, the view and a trade on the venue of the moment.
BuiltIsAccepted ==
    \A c \in Created :
        LET launch == LaunchAccount(c)
            k == KeysOf(launch)
            due == IF launch.poolRegistered THEN Ops \ {"register_pool"} ELSE {"register_pool", "floor"}
        IN  \A p \in pools : PoolAddress(p) = k.pool =>
                /\ \A op \in due : \A ix \in Built(op, c, Key("holder")) : Accepted(op, ix)
                /\ p.migrated \/ MigrationAccepted(MigrationIx(k, Key("nft")))
                /\ \A buys \in BOOLEAN :
                      LET ix == BuildTrade(k, Key("holder"), buys, p.migrated)
                      IN  SwapAccepted(ix, k.baseMint, k.quoteMint, p.migrated) /\ ix.output[2] = ix.payer

\* Every position whose fees the program would harvest for a launch is found.
EveryPositionFound ==
    \A c \in Created : LET k == KeysOf(LaunchAccount(c)) IN
        \A p \in positions : Accepted("harvest_lp_fees", HarvestLpFeesIx(k, p)) => p \in FindClaimerPositions(k)

\* The slots an instruction takes tokens from and gives tokens to.
Takes(op) ==
    CASE op = "harvest_curve_fees" -> {"dbcBaseVault", "dbcQuoteVault", "claimerBase"}
      [] op = "harvest_migration_fee" -> {"dbcQuoteVault", "transit"}
      [] op = "harvest_surplus" -> {"dbcQuoteVault"}
      [] op = "burn_claimer_base" -> {"claimerBase"}
      [] op = "harvest_lp_fees" -> {"dammBaseVault", "dammQuoteVault", "claimerBase", "transit"}
      [] op = "redeem" -> {"holderBase", "vault"}
      [] OTHER -> {}
Gives(op) ==
    CASE op = "harvest_curve_fees" -> {"claimerBase", "vault", "platformQuote"}
      [] op = "harvest_migration_fee" -> {"vault"} \union FeeSplitSlots
      [] op = "harvest_surplus" -> {"vault"}
      [] op = "harvest_lp_fees" -> {"claimerBase", "vault"} \union FeeSplitSlots
      [] OTHER -> {}

\* Tokens the launch's claimer or vault authority or the signer owns, or those of its
\* own DBC pool or of a DAMM v2 pool of its mints.
MayTake(launch, ix, account) ==
    \/ account[1] = "ata" /\ account[2] \in {AuthorityPda(launch.config), VaultAuthorityPda(launch.config)}
    \/ "holder" \in DOMAIN ix /\ account[1] = "ata" /\ account[2] = ix.holder
    \/ account[1] = "token_vault" /\ account[3] \in {launch.pool}
    \/ account[1] = "token_vault" /\ account[3][3] = {launch.baseMint, launch.quoteMint}
MayGive(launch, account) ==
    /\ account[1] = "ata" /\ account[3] \in {launch.baseMint, launch.quoteMint}
    /\ account[2] \in {AuthorityPda(launch.config), VaultAuthorityPda(launch.config), launch.creator, PlatformTreasury}

\* An instruction of which up to two accounts belong to another launch, another wallet or
\* another position moves nothing but what belongs to the launch it names and its signer.
Instructions(op, c, w) ==
    Built(op, c, w) \union
    IF op = "harvest_lp_fees" THEN {HarvestLpFeesIx(KeysOf(LaunchAccount(c)), p) : p \in positions} ELSE {}
Mixed(op, c) ==
    {LET differ == {s \in DOMAIN ix : ix[s] # other[s]}
     IN  {[s \in DOMAIN ix |-> IF s \in changed THEN other[s] ELSE ix[s]] :
             changed \in {{}} \union {{s, t} : s, t \in differ}} :
        ix \in Instructions(op, c, Key("holder")), other \in UNION {Instructions(op, d, Key("other")) : d \in Created}}
OnlyItsOwn ==
    \A op \in Ops \ {"register_pool", "sync_migration", "floor"} : \A c \in Created : \A ixs \in Mixed(op, c) : \A ix \in ixs : \A d \in Created :
        \/ /\ \A s \in Takes(op) : MayTake(launches[d], ix, ix[s])
           /\ \A s \in Gives(op) : MayGive(launches[d], ix[s])
        \/ ~AcceptedFor(op, ix, d)
=============================================================================
