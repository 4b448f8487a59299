-------------------------------- MODULE Sphincs --------------------------------
(***************************************************************************)
(* The signature scheme (sign.c): crypto_sign_seed_keypair,                *)
(* crypto_sign_signature and crypto_sign_verify, a step for every          *)
(* iteration of their loops.  The program is one thread; what the calls    *)
(* share is the hash state that initialize_hash_function leaves in the     *)
(* global state_seeded, and the local addresses that one iteration leaves  *)
(* to the next.                                                            *)
(*                                                                         *)
(* A signature is a sequence of cells of SPX_N bytes, each holding a hash. *)
(* Where the code reads a hash as bytes (the digits that WOTS signs, the   *)
(* digest of the message) the bytes are drawn when the hash is first read, *)
(* distinct for distinct hashes, and are the same ever after.              *)
(***************************************************************************)
EXTENDS Wots, Fors, FiniteSets, Functions

CONSTANTS
    D,           \* SPX_D, layers of the hypertree
    TreeHeight,  \* SPX_TREE_HEIGHT, height of the trees of a layer
    Keys,        \* key pairs, each named by its seeds
    Messages,
    Nothing,     \* no value
    Draw(_, _),  \* Draw(all, used): the unused values that one may be given
    Optrand(_),  \* what randombytes may draw in the n-th call
    MaxCalls     \* bound on the number of calls

VARIABLES
    pc,
    calls,
    keys,          \* the public keys made, two cells each: PUB_SEED and root
    state_seeded,  \* the global of sha256.c, named by the key it was made of
    key, msg, sig, \* arguments of the call: key pair, message, signature
    at,            \* cells of sig that verification has consumed
    root, i,       \* the locals root and i
    mhash, tree, idx_leaf,
    wots_addr, tree_addr, fors_addr, fors_roots,
    result,        \* what the last crypto_sign_verify returned
    digests,       \* what hash_message gave, by R, key and message
    bytes,         \* the bytes of the hashes that WOTS has signed
    signed,        \* every <<key, message, signature>> that was signed
    ots            \* what every WOTS key pair has signed

locals == <<key, msg, sig, at, root, i, mhash, tree, idx_leaf,
            wots_addr, tree_addr, fors_addr, fors_roots>>
vars == <<pc, calls, keys, state_seeded, locals, result, digests, bytes,
          signed, ots>>

(* The layer and the number of a key pair are a byte each: beyond that,      *)
(* set_keypair_addr would have to write a second one (SPX_FULL_HEIGHT/SPX_D). *)
ASSUME SchemeAssumption ==
    /\ ForsTrees \in Nat \ {0} /\ ForsHeight \in Nat \ {0}
    /\ D \in 1..256
    /\ TreeHeight \in 1..8
    /\ WotsLen <= 256
    /\ MaxCalls \in Nat

(* Sizes, in cells. *)
ForsCells  == ForsTrees * (1 + ForsHeight)
LayerCells == WotsLen + TreeHeight
SpxCells   == 1 + ForsCells + D * LayerCells

-------------------------------------------------------------------------------
(* The random oracles. *)

(* SPX_FORS_MSG_BYTES, and the bits that message_to_indices reads of the last. *)
ForsMsgBytes == (ForsTrees * ForsHeight + 7) \div 8
LastBits == ForsTrees * ForsHeight - 8 * (ForsMsgBytes - 1)

(* The outputs of hash_message, as far as they are used: the tree is masked *)
(* to the bits of the layers above the lowest, the leaf to those of one tree. *)
Digest ==
    [mhash    : {h \in [1..ForsMsgBytes -> 0..255] :
                    h[ForsMsgBytes] < TwoTo[LastBits]},
     tree     : 0..(TwoTo[TreeHeight * (D - 1)] - 1),
     idx_leaf : 0..(TwoTo[TreeHeight] - 1)]

Hashes == [1..N -> 0..255]

(* The values f may give to x, and f with that value. *)
Known(f, x, all) ==
    IF x \in DOMAIN f THEN {f[x]}
    ELSE LET used == {f[y] : y \in DOMAIN f}
         IN  {v \in Draw(all, used) : v \in all /\ v \notin used}

Learn(f, x, v) == [y \in DOMAIN f \cup {x} |-> IF y = x THEN v ELSE f[y]]

(* hash_message on R, the public key and the message. *)
DigestOf_Unread(R, k, m) == <<R, k>>
DigestOf(R, k, m) == <<R, k, m>>

HashMessage(R, k, m) ==
    \E d \in Known(digests, DigestOf(R, k, m), Digest) :
        /\ digests' = Learn(digests, DigestOf(R, k, m), d)
        /\ mhash' = d.mhash
        /\ tree' = d.tree
        /\ idx_leaf' = d.idx_leaf

-------------------------------------------------------------------------------
(* Addresses. *)

(* The leaf callback of the hypertree. *)
WotsGenLeaf(sk_seed, seeded, addr_idx, a) ==
    LET kp == SetKeypair(CopySubtree(SetType(ZeroAddr, WOTS), a), addr_idx)
        pk_addr == CopyKeypair(SetType(ZeroAddr, WOTSPK), kp)
    IN  Thash(seeded, pk_addr, WotsGenPk(sk_seed, seeded, kp).out)

LayerTree(sk_seed, seeded, leaf_idx, a) ==
    LET leaf == [g \in Nat |-> WotsGenLeaf(sk_seed, seeded, g, a)]
    IN  TreehashResult(leaf, seeded, leaf_idx, 0, TreeHeight, a)

(* The two addresses of an iteration over the layers. *)
LayerTreeAddr_KeepTree(a, layer, t) == SetLayer(a, layer)
LayerTreeAddr(a, layer, t) == SetTree(SetLayer(a, layer), t)
LayerWotsAddr(a, ta, leaf_idx) == SetKeypair(CopySubtree(a, ta), leaf_idx)

(* "Update the indices for the next layer." *)
NextLeaf(t, leaf_idx) == t % TwoTo[TreeHeight]
NextTree_Keep(t) == t
NextTree(t) == t \div TwoTo[TreeHeight]

-------------------------------------------------------------------------------
NoLocals ==
    /\ key = Nothing /\ msg = Nothing /\ sig = <<>> /\ at = 0
    /\ root = Nothing /\ i = 0
    /\ mhash = <<>> /\ tree = 0 /\ idx_leaf = 0
    /\ wots_addr = ZeroAddr /\ tree_addr = ZeroAddr /\ fors_addr = ZeroAddr
    /\ fors_roots = <<>>

(* The locals of a call that has returned. *)
ForgetLocals ==
    /\ key' = Nothing /\ msg' = Nothing /\ sig' = <<>> /\ at' = 0
    /\ root' = Nothing /\ i' = 0
    /\ mhash' = <<>> /\ tree' = 0 /\ idx_leaf' = 0
    /\ wots_addr' = ZeroAddr /\ tree_addr' = ZeroAddr /\ fors_addr' = ZeroAddr
    /\ fors_roots' = <<>>

Init ==
    /\ pc = "idle"
    /\ calls = 0
    /\ keys = <<>>
    /\ state_seeded = Nothing
    /\ NoLocals
    /\ result = Nothing
    /\ digests = <<>>
    /\ bytes = <<>>
    /\ signed = {}
    /\ ots = {}

NewCall ==
    /\ pc = "idle"
    /\ calls < MaxCalls
    /\ calls' = calls + 1

(* What initialize_hash_function leaves in state_seeded. *)
Seeded_Stale(k) == state_seeded
Seeded(k) == k

(* crypto_sign_seed_keypair on the seeds of k. *)
Keypair(k) ==
    /\ NewCall
    /\ k \notin DOMAIN keys
    /\ state_seeded' = k
    /\ LET top == SetType(SetLayer(ZeroAddr, D - 1), HASHTREE)
       IN  keys' = Learn(keys, k, <<k, LayerTree(k, state_seeded', 0, top).root>>)
    /\ result' = Nothing
    /\ UNCHANGED <<pc, locals, digests, bytes, signed, ots>>

(* The set-up that signing and verifying have in common, up to FORS. *)
Prepare(k, m, R) ==
    /\ key' = k
    /\ msg' = m
    /\ state_seeded' = Seeded(k)
    /\ HashMessage(R, k, m)
    /\ wots_addr' = SetKeypair(SetTree(SetType(ZeroAddr, WOTS), tree'), idx_leaf')
    /\ tree_addr' = SetType(ZeroAddr, HASHTREE)
    /\ fors_addr' = ForsTreeAddr(wots_addr')
    /\ fors_roots' = <<>>
    /\ i' = 0

-------------------------------------------------------------------------------
(* crypto_sign_signature.  randombytes encrypts in place a block that it    *)
(* never wrote, so the optrand of a call may be new or repeat an earlier one. *)

GenMessageRandom(k, optrand, m) == <<"random", k, optrand, m>>

Sign(k, m) ==
    /\ NewCall
    /\ k \in DOMAIN keys
    /\ \E optrand \in Optrand(calls') :
          LET R == GenMessageRandom(k, optrand, m)
          IN  Prepare(k, m, R) /\ sig' = <<R>>
    /\ result' = Nothing
    /\ pc' = "sign_fors"
    /\ UNCHANGED <<keys, at, root, bytes, signed, ots>>

SignFors ==
    /\ pc = "sign_fors"
    /\ i < ForsTrees
    /\ LET t == ForsSignTree(i, MessageToIndices(mhash)[i], key, state_seeded,
                             fors_addr)
       IN  /\ sig' = sig \o t.cells
           /\ fors_roots' = Append(fors_roots, t.root)
           /\ fors_addr' = t.addr
    /\ i' = i + 1
    /\ UNCHANGED <<pc, calls, keys, state_seeded, key, msg, at, root, mhash,
                   tree, idx_leaf, wots_addr, tree_addr, result, digests,
                   bytes, signed, ots>>

(* "Hash horizontally across all tree roots to derive the public key." *)
ForsPk ==
    /\ i = ForsTrees
    /\ root' = Thash(state_seeded, ForsPkAddr(wots_addr), fors_roots)
    /\ i' = 0
    /\ UNCHANGED <<calls, keys, state_seeded, key, msg, sig, at, mhash, tree,
                   idx_leaf, wots_addr, tree_addr, fors_addr, fors_roots,
                   result, digests, bytes, signed, ots>>

SignForsPk == pc = "sign_fors" /\ ForsPk /\ pc' = "sign_layers"

SignLayer ==
    /\ pc = "sign_layers"
    /\ i < D
    /\ LET ta == LayerTreeAddr(tree_addr, i, tree)
           wa == LayerWotsAddr(wots_addr, ta, idx_leaf)
           t  == LayerTree(key, state_seeded, idx_leaf, ta)
       IN  \E b \in Known(bytes, root, Hashes) :
              LET w == WotsSign(b, key, state_seeded, wa)
              IN  /\ sig' = sig \o w.out \o t.auth
                  /\ root' = t.root
                  /\ tree_addr' = t.addr
                  /\ wots_addr' = w.addr
                  /\ bytes' = Learn(bytes, root, b)
                  /\ ots' = ots \cup {<<key, wa.layer, wa.tree, wa.kp1, root>>}
    /\ idx_leaf' = NextLeaf(tree, idx_leaf)
    /\ tree' = NextTree(tree)
    /\ i' = i + 1
    /\ UNCHANGED <<pc, calls, keys, state_seeded, key, msg, at, mhash,
                   fors_addr, fors_roots, result, digests, signed>>

SignReturn ==
    /\ pc = "sign_layers"
    /\ i = D
    /\ signed' = signed \cup {<<key, msg, sig>>}
    /\ pc' = "idle"
    /\ ForgetLocals
    /\ UNCHANGED <<calls, keys, state_seeded, result, digests, bytes, ots>>

-------------------------------------------------------------------------------
(* crypto_sign_verify. *)

(* What a caller may present: a signature as it was made; with a cell       *)
(* replaced, by rubbish or by the same cell of another signature; cut short; *)
(* for another message; under another key.                                  *)
Forged == <<"forged">>

Presented ==
    UNION {
        LET k == s[1]
            m == s[2]
            x == s[3]
        IN  {s}
            \cup {<<k, m, [x EXCEPT ![c] = Forged]>> : c \in 1..SpxCells}
            \cup {<<k, m, [x EXCEPT ![c] = o[3][c]]>> : c \in 1..SpxCells, o \in signed}
            \cup {<<k, m, SubSeq(x, 1, SpxCells - 1)>>}
            \cup {<<k, n, x>> : n \in Messages}
            \cup {<<p, m, x>> : p \in DOMAIN keys}
        : s \in signed}

Verify(k, m, x) ==
    /\ NewCall
    /\ IF Len(x) # SpxCells
       THEN /\ key' = k /\ msg' = m /\ sig' = x
            /\ result' = -1
            /\ pc' = "verified"
            /\ UNCHANGED <<keys, state_seeded, at, root, i, mhash, tree,
                           idx_leaf, wots_addr, tree_addr, fors_addr,
                           fors_roots, digests, bytes, signed, ots>>
       ELSE /\ Prepare(k, m, x[1])
            /\ sig' = x
            /\ at' = 1
            /\ result' = Nothing
            /\ pc' = "verify_fors"
            /\ UNCHANGED <<keys, root, bytes, signed, ots>>

(* The next n cells of sig. *)
Cells(n) == SubSeq(sig, at + 1, at + n)

VerifyFors ==
    /\ pc = "verify_fors"
    /\ i < ForsTrees
    /\ LET t == ForsRootFromSig(i, MessageToIndices(mhash)[i],
                                Cells(1 + ForsHeight), state_seeded, fors_addr)
       IN  /\ fors_roots' = Append(fors_roots, t.root)
           /\ fors_addr' = t.addr
    /\ at' = at + 1 + ForsHeight
    /\ i' = i + 1
    /\ UNCHANGED <<pc, calls, keys, state_seeded, key, msg, sig, root, mhash,
                   tree, idx_leaf, wots_addr, tree_addr, result, digests,
                   bytes, signed, ots>>

VerifyForsPk == pc = "verify_fors" /\ ForsPk /\ pc' = "verify_layers"

(* wots_pk_addr: its type is set once, the rest is copied in every layer. *)
WotsPkAddr(wa) == CopyKeypair(SetType(ZeroAddr, WOTSPK), wa)

VerifyLayer ==
    /\ pc = "verify_layers"
    /\ i < D
    /\ LET ta == LayerTreeAddr(tree_addr, i, tree)
           wa == LayerWotsAddr(wots_addr, ta, idx_leaf)
           cells == Cells(LayerCells)
       IN  \E b \in Known(bytes, root, Hashes) :
              LET w    == WotsPkFromSig(cells, b, state_seeded, wa)
                  leaf == Thash(state_seeded, WotsPkAddr(wa), w.out)
                  c    == ComputeRootResult(leaf, idx_leaf, 0,
                              SubSeq(cells, WotsLen + 1, LayerCells),
                              TreeHeight, state_seeded, ta)
              IN  /\ root' = c.root
                  /\ tree_addr' = c.addr
                  /\ wots_addr' = w.addr
                  /\ bytes' = Learn(bytes, root, b)
    /\ at' = at + LayerCells
    /\ idx_leaf' = NextLeaf(tree, idx_leaf)
    /\ tree' = NextTree(tree)
    /\ i' = i + 1
    /\ UNCHANGED <<pc, calls, keys, state_seeded, key, msg, sig, mhash,
                   fors_addr, fors_roots, result, digests, signed, ots>>

VerifyReturn ==
    /\ pc = "verify_layers"
    /\ i = D
    /\ result' = IF root = keys[key][2] THEN 0 ELSE -1
    /\ pc' = "verified"
    /\ UNCHANGED <<calls, keys, state_seeded, locals, digests, bytes, signed, ots>>

(* The caller has seen the result. *)
Resume ==
    /\ pc = "verified"
    /\ pc' = "idle"
    /\ ForgetLocals
    /\ UNCHANGED <<calls, keys, state_seeded, result, digests, bytes, signed, ots>>

-------------------------------------------------------------------------------
Next ==
    \/ \E k \in Keys : Keypair(k)
    \/ \E k \in Keys, m \in Messages : Sign(k, m)
    \/ SignFors \/ SignForsPk \/ SignLayer \/ SignReturn
    \/ \E p \in Presented : Verify(p[1], p[2], p[3])
    \/ VerifyFors \/ VerifyForsPk \/ VerifyLayer \/ VerifyReturn
    \/ Resume

Spec == Init /\ [][Next]_vars

-------------------------------------------------------------------------------
(* Types; the layout of a signature as both loops see it: sign writes and   *)
(* verify reads exactly SPX_BYTES; and the layers use up the tree index.    *)
TypeOK ==
    /\ pc \in {"idle", "sign_fors", "sign_layers", "verify_fors",
               "verify_layers", "verified"}
    /\ calls \in 0..MaxCalls
    /\ state_seeded \in Keys \cup {Nothing}
    /\ result \in {Nothing, 0, -1}
    /\ i \in 0..IF pc \in {"sign_fors", "verify_fors"} THEN ForsTrees ELSE D
    /\ pc = "sign_fors" => Len(sig) = 1 + i * (1 + ForsHeight)
    /\ pc = "sign_layers" => Len(sig) = 1 + ForsCells + i * LayerCells
    /\ pc = "verify_fors" => at = 1 + i * (1 + ForsHeight)
    /\ pc = "verify_layers" => at = 1 + ForsCells + i * LayerCells
    /\ pc = "verified" => at = IF Len(sig) = SpxCells THEN SpxCells ELSE 0
    /\ pc \in {"sign_layers", "verify_layers"} =>
           tree \in 0..(TwoTo[TreeHeight * (IF i < D THEN D - 1 - i ELSE 0)] - 1)
    /\ idx_leaf \in 0..(TwoTo[TreeHeight] - 1)

(* Whatever was called in between, crypto_sign_verify accepts what          *)
(* crypto_sign_signature returned for the message and the key, and nothing  *)
(* else of what can be presented; and every call does its work as if it     *)
(* were one step.                                                           *)
Scheme == INSTANCE SignatureScheme WITH
    owners  <- DOMAIN keys,
    asked   <- IF pc = "verified" THEN {<<key, msg, sig>>} ELSE {},
    verdict <- result

ImplementsScheme == Scheme!Spec

(* "Initially, root is the FORS pk, but on subsequent iterations it is the  *)
(* root of the subtree below": no WOTS key pair ever signs two values.      *)
OneTimeKeys ==
    \A u, v \in ots : SubSeq(u, 1, 4) = SubSeq(v, 1, 4) => u = v

(* The hashes that were computed to get the members of xs: those that took  *)
(* the value of another, as deep as a path from a public key to a secret is. *)
Taken(xs) == UNION {{x[4][c] : c \in DOMAIN x[4]} : x \in {y \in xs : IsThash(y)}}
Deepest == (ForsHeight + 2) + D * (W + TreeHeight)
HashesIn(xs) ==
    LET level[n \in 0..Deepest] == IF n = 0 THEN xs ELSE Taken(level[n - 1])
    IN  {x \in UNION {level[n] : n \in 0..Deepest} : IsThash(x)}

(* "so that unrelated types of hashes don't accidentally get the same      *)
(* address structure": of all that a signature is made of, no two different *)
(* values are hashed under one address, and no secret is used in two places. *)
SeparateAddresses ==
    pc = "sign_layers" /\ i = D =>
        LET made == HashesIn({root} \cup {u[5] : u \in {v \in ots : v[1] = key}}
                             \cup {sig[c] : c \in 2..Len(sig)})
        IN  /\ \A x, y \in made : x[3] = y[3] => x = y
            /\ IsInjective(sig)
===============================================================================
