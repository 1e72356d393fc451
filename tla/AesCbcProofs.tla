---------------------------- MODULE AesCbcProofs -----------------------------
(* Theorems about Buffers and AesCbc, for every block cipher and memory size. *)
EXTENDS AesCbc, SequenceTheorems, TLAPS

-----------------------------------------------------------------------------
(* The overlap check *)

LEMMA NoWrap == ASSUME NEW x \in Nat, x < PtrMod PROVE x % PtrMod = x
BY PtrAssumption

\* For buffers whose end is an address, zuc_int_overlaps() says exactly
\* whether two different buffers share an address: the comparison of wrapped
\* sums is right at every boundary.
THEOREM OverlapExact ==
    ASSUME NEW in \in Pointer, NEW out \in Pointer, NEW len \in Nat,
           Fits(in, len), Fits(out, len)
    PROVE  zuc_int_overlaps(in, out, len) <=> PartialOverlap(in, out, len)
<1> DEFINE S == Extent(in, len) \intersect Extent(out, len)
<1>1. in \in Nat /\ out \in Nat
  BY PtrAssumption DEF Pointer
<1>2. (in + len) % PtrMod = in + len /\ (out + len) % PtrMod = out + len
  <2>1. in + len \in Nat /\ in + len < PtrMod /\ out + len \in Nat /\ out + len < PtrMod
    BY <1>1 DEF Fits
  <2>2. QED BY <2>1, NoWrap
<1>3. ASSUME in < out PROVE S # {} <=> in + len > out
  <2>1. ASSUME in + len > out PROVE out \in S
    BY <1>1, <1>3, <2>1 DEF Extent
  <2>2. ASSUME NEW a \in S PROVE in + len > out
    BY <1>1, <2>2 DEF Extent
  <2>3. QED BY <2>1, <2>2
<1>4. ASSUME out < in PROVE S # {} <=> out + len > in
  <2>1. ASSUME out + len > in PROVE in \in S
    BY <1>1, <1>4, <2>1 DEF Extent
  <2>2. ASSUME NEW a \in S PROVE out + len > in
    BY <1>1, <2>2 DEF Extent
  <2>3. QED BY <2>1, <2>2
<1>5. len = 0 => S = {}
  BY <1>1 DEF Extent
<1>6. CASE in < out
  BY <1>1, <1>2, <1>3, <1>5, <1>6 DEF zuc_int_overlaps, PartialOverlap
<1>7. CASE out < in
  BY <1>1, <1>2, <1>4, <1>5, <1>7 DEF zuc_int_overlaps, PartialOverlap
<1>8. CASE in = out
  BY <1>8 DEF zuc_int_overlaps, PartialOverlap
<1>9. QED BY <1>1, <1>6, <1>7, <1>8

-----------------------------------------------------------------------------
(* What a call of either direction does *)

\* Arguments that pass every check.
Good(src, dst, n) ==
    /\ src \in Addr /\ dst \in Addr /\ n \in Nat \ {0}
    /\ src + n - 1 <= MemSize /\ dst + n - 1 <= MemSize
    /\ ~PartialOverlap(src, dst, n)

Valid(src, dst, n) ==
    /\ src \in 0..MemSize /\ dst \in 0..MemSize /\ n \in 0..MemSize
    /\ ValidBuffer(src, n) /\ ValidBuffer(dst, n)

LEMMA OverlapDecided ==
    ASSUME NEW src, NEW dst, NEW n, Valid(src, dst, n)
    PROVE  zuc_int_overlaps(src, dst, n) <=> PartialOverlap(src, dst, n)
<1>1. CASE src = Null \/ dst = Null
  BY <1>1 DEF zuc_int_overlaps, PartialOverlap
<1>2. CASE src # Null /\ dst # Null
  <2>1. /\ src \in Pointer /\ dst \in Pointer /\ n \in Nat
        /\ Fits(src, n) /\ Fits(dst, n)
    BY <1>2, MemAssumption, PtrAssumption DEF Valid, ValidBuffer, Addr, Pointer, Fits
  <2>2. QED BY <2>1, OverlapExact
<1>3. QED BY <1>1, <1>2

LEMMA GoodArguments ==
    ASSUME NEW src, NEW dst, NEW n, NEW whole \in BOOLEAN, Valid(src, dst, n),
           check_block_args(src, dst, n, whole) = "OK", n # 0
    PROVE  Good(src, dst, n)
<1>1. src # Null /\ dst # Null /\ ~zuc_int_overlaps(src, dst, n)
  BY DEF check_block_args
<1>2. QED BY <1>1, OverlapDecided, MemAssumption DEF Valid, ValidBuffer, Good, Addr

LEMMA WriteTyped ==
    ASSUME TypeOK, NEW src, NEW dst, NEW n, Good(src, dst, n), NEW w \in [1..n -> Block]
    PROVE  /\ Write(dst, w) \in [Addr -> Block]
           /\ Write(dst, w)[dst + n - 1] = w[n]
           /\ \A a \in Addr : a \notin Extent(dst, n) => Write(dst, w)[a] = mem[a]
<1>1. Len(w) = n /\ n \in Nat
  BY DEF Good
<1>2. Addr \subseteq Int /\ dst \in Int /\ dst + n - 1 \in Addr
  BY MemAssumption DEF Good, Addr
<1>3. \A b \in Addr : b \in dst..(dst + n - 1) => w[b - dst + 1] \in Block
  BY <1>1, <1>2
<1>4. Write(dst, w) = [b \in Addr |-> IF b \in dst..(dst + n - 1) THEN w[b - dst + 1] ELSE mem[b]]
  BY <1>1 DEF Write
<1>5. Write(dst, w) \in [Addr -> Block]
  BY <1>3, <1>4 DEF TypeOK
<1>6. Write(dst, w)[dst + n - 1] = w[n]
  <2>1. dst + n - 1 \in dst..(dst + n - 1) /\ (dst + n - 1) - dst + 1 = n
    BY <1>1, <1>2 DEF Good
  <2>2. QED BY <1>2, <1>4, <2>1
<1>7. QED BY <1>4, <1>5, <1>6 DEF Extent

LEMMA ReadTyped ==
    ASSUME TypeOK, NEW src, NEW dst, NEW n, Good(src, dst, n)
    PROVE  /\ Read(src, n) \in [1..n -> Block]
           /\ Read(src, n)[n] = mem[src + n - 1]
           /\ Len(Read(src, n)) = n
<1>1. \A i \in 1..n : src + i - 1 \in Addr
  BY MemAssumption DEF Good, Addr
<1>2. Read(src, n) \in [1..n -> Block]
  BY <1>1 DEF Read, TypeOK
<1>3. QED BY <1>2 DEF Read, Good

\* A successful call processed the plaintext p and the ciphertext c.
Processed(n, p, c) ==
    /\ given \in Key
    /\ \A i \in 1..n : c[i] = E[given][X[p[i]][Before(c, i)]]
    /\ chain' = c[n]
    /\ plain' = plain \o p
    /\ cipher' = cipher \o c

\* What encrypt and decrypt have in common.
CryptStep(src, dst, n) ==
    /\ UNCHANGED <<ready, given, slot, iv>>
    /\ \E st \in Status : /\ CryptReturns(st, src, dst, n)
                          /\ st = "OVERLAP" => PartialOverlap(src, dst, n)
                          /\ st \in Failure \union {"OK"} => ~PartialOverlap(src, dst, n)
    /\ \/ UNCHANGED mem
       \/ Good(src, dst, n) /\ \E w \in [1..n -> Block] : mem' = Write(dst, w)
    /\ \/ UNCHANGED <<chain, plain, cipher>>
       \/ n \in Nat \ {0} /\ \E p, c \in [1..n -> Block] : Processed(n, p, c)

\* The inverse cipher undoes a block, whatever was chained into it.
LEMMA DecryptUndone ==
    ASSUME NEW k \in Key, NEW a \in Block, NEW b \in Block
    PROVE  E[k][X[X[D[k][a]][b]][b]] = a
<1>1. D[k] \in [Block -> Block]
  BY CipherAssumption
<1>2. D[k][a] \in Block
  BY <1>1
<1>3. X[X[D[k][a]][b]][b] = D[k][a]
  BY <1>2, CipherAssumption
<1>4. QED BY <1>3, CipherAssumption

LEMMA EarlyStep ==
    ASSUME TypeOK, NEW src, NEW dst, NEW n, NEW whole \in BOOLEAN, Valid(src, dst, n),
           Early(src, dst, n, whole), UNCHANGED <<ready, given, slot, iv>>
    PROVE  CryptStep(src, dst, n)
<1>1. check_block_args(src, dst, n, whole) \in
        {"OK", "NOT_READY", "INVALID_ARGUMENT", "BAD_LENGTH", "OVERLAP"}
  BY DEF check_block_args
<1>2. check_block_args(src, dst, n, whole) = "OVERLAP" => PartialOverlap(src, dst, n)
  BY OverlapDecided DEF check_block_args
<1>3. check_block_args(src, dst, n, whole) = "OK" => ~PartialOverlap(src, dst, n)
  <2>1. SUFFICES ASSUME check_block_args(src, dst, n, whole) = "OK" PROVE ~zuc_int_overlaps(src, dst, n)
    BY OverlapDecided
  <2>2. CASE n = 0
    BY <2>2 DEF zuc_int_overlaps
  <2>3. CASE n # 0
    BY <2>1, <2>3 DEF check_block_args
  <2>4. QED BY <2>2, <2>3
<1>4. QED BY <1>1, <1>2, <1>3 DEF Early, CryptStep, Status, Failure

LEMMA FailsStep ==
    ASSUME TypeOK, NEW src, NEW dst, NEW n, Good(src, dst, n),
           Fails(src, dst, n), UNCHANGED <<ready, given, slot, iv>>
    PROVE  CryptStep(src, dst, n)
<1>1. PICK st \in Failure : CryptReturns(st, src, dst, n)
  BY DEF Fails, Failure
<1>2. st \in Status /\ st # "OVERLAP"
  BY DEF Failure, Status
<1>3. QED BY <1>1, <1>2 DEF Fails, CryptStep, Good

LEMMA CryptSteps ==
    ASSUME TypeOK, NEW src, NEW dst, NEW n, NEW whole \in BOOLEAN, Valid(src, dst, n),
           zuc_aes_cbc_encrypt(src, dst, n, whole) \/ zuc_aes_cbc_decrypt(src, dst, n, whole)
    PROVE  CryptStep(src, dst, n)
<1>1. given # NoKey /\ UNCHANGED <<ready, given, slot, iv>>
  BY DEF zuc_aes_cbc_encrypt, zuc_aes_cbc_decrypt
<1>2. CASE Early(src, dst, n, whole)
  BY <1>1, <1>2, EarlyStep
<1>3. CASE ~Early(src, dst, n, whole)
  <2>1. check_block_args(src, dst, n, whole) = "OK" /\ n # 0
    BY <1>3 DEF zuc_aes_cbc_encrypt, zuc_aes_cbc_decrypt
  <2>2. Good(src, dst, n)
    BY <2>1, GoodArguments
  <2>3. CASE Fails(src, dst, n)
    BY <1>1, <2>2, <2>3, FailsStep
  <2>4. Read(src, n) \in [1..n -> Block] /\ Len(Read(src, n)) = n
    BY <2>2, ReadTyped
  <2>5. ASSUME NEW w \in [1..n -> Block], Succeeds(src, dst, n, w),
               NEW p \in [1..n -> Block], NEW c \in [1..n -> Block], Processed(n, p, c)
        PROVE  CryptStep(src, dst, n)
    <3>1. "OK" \in Status /\ CryptReturns("OK", src, dst, n) /\ mem' = Write(dst, w)
      BY <2>5 DEF Status, Succeeds
    <3>2. n \in Nat \ {0} /\ ~PartialOverlap(src, dst, n)
      BY <2>2 DEF Good
    <3>3. QED BY <1>1, <2>2, <2>5, <3>1, <3>2 DEF CryptStep
  <2>6. ASSUME NEW w \in [1..n -> Block], Succeeds(src, dst, n, w)
        PROVE  given \in Key /\ slot = given
    BY <1>1, <2>6 DEF Succeeds, TypeOK
  <2>7. CASE zuc_aes_cbc_encrypt(src, dst, n, whole) /\ ~Fails(src, dst, n)
    <3>1. PICK w \in [1..n -> Block] :
            /\ Succeeds(src, dst, n, w)
            /\ EncryptPass(Read(src, n), w)
            /\ chain' = mem'[dst + n - 1]
            /\ plain' = plain \o Read(src, n)
            /\ cipher' = cipher \o w
      BY <1>3, <2>7 DEF zuc_aes_cbc_encrypt
    <3>2. chain' = w[n]
      BY <2>2, <3>1, WriteTyped DEF Succeeds
    <3>3. \A i \in 1..n : w[i] = E[given][X[Read(src, n)[i]][Before(w, i)]]
      BY <2>4, <2>6, <3>1 DEF EncryptPass
    <3>4. Processed(n, Read(src, n), w)
      BY <2>6, <3>1, <3>2, <3>3 DEF Processed
    <3>5. QED BY <2>4, <2>5, <3>1, <3>4
  <2>8. CASE zuc_aes_cbc_decrypt(src, dst, n, whole) /\ ~Fails(src, dst, n)
    <3> DEFINE c == Read(src, n)
    <3>1. PICK w \in [1..n -> Block] :
            /\ Succeeds(src, dst, n, w)
            /\ DecryptPass(c, w)
            /\ chain' = mem[src + n - 1]
            /\ plain' = plain \o w
            /\ cipher' = cipher \o c
      BY <1>3, <2>8 DEF zuc_aes_cbc_decrypt
    <3>2. chain' = c[n]
      BY <2>2, <3>1, ReadTyped
    <3>3. c \in [1..n -> Block] /\ Len(c) = n
      BY <2>4
    <3> HIDE DEF c
    <3>4. ASSUME NEW i \in 1..n PROVE c[i] = E[given][X[w[i]][Before(c, i)]]
      <4> DEFINE b == Before(c, i)
      <4>1. b \in Block /\ c[i] \in Block
        <5>1. CASE i = 1
          BY <3>3, <5>1 DEF Before, TypeOK
        <5>2. CASE i # 1
          <6>1. n \in Nat
            BY <2>2 DEF Good
          <6>2. i - 1 \in 1..n
            BY <5>2, <6>1
          <6>3. QED BY <3>3, <5>2, <6>2 DEF Before
        <5>3. QED BY <5>1, <5>2
      <4>2. w[i] = X[D[given][c[i]]][b]
        BY <2>6, <3>1, <3>3 DEF DecryptPass
      <4> HIDE DEF b
      <4>3. given \in Key
        BY <2>6, <3>1
      <4>4. E[given][X[X[D[given][c[i]]][b]][b]] = c[i]
        BY <4>1, <4>3, DecryptUndone
      <4>5. QED BY <4>2, <4>4 DEF b
    <3>5. Processed(n, w, c)
      BY <2>6, <3>1, <3>2, <3>4 DEF Processed
    <3>6. QED BY <2>5, <3>1, <3>3, <3>5
  <2>9. QED BY <2>3, <2>7, <2>8
<1>4. QED BY <1>2, <1>3

-----------------------------------------------------------------------------
(* Types *)

LEMMA RestartTyped ==
    ASSUME NEW s \in Block, Restart(s)
    PROVE  chain' \in Block /\ iv' \in Block /\ plain' \in Seq(Block) /\ cipher' \in Seq(Block)
<1>1. <<>> \in Seq(Block)
  OBVIOUS
<1>2. QED BY <1>1 DEF Restart

LEMMA CryptTyped ==
    ASSUME TypeOK, NEW src \in Nat, NEW dst \in Nat, NEW n \in Nat, CryptStep(src, dst, n)
    PROVE  TypeOK'
<1>1. ret' \in Return
  BY CipherAssumption DEF CryptStep, CryptReturns, Return
<1>2. mem' \in [Addr -> Block]
  <2>1. CASE UNCHANGED mem
    BY <2>1 DEF TypeOK
  <2>2. CASE Good(src, dst, n) /\ \E w \in [1..n -> Block] : mem' = Write(dst, w)
    BY <2>2, WriteTyped
  <2>3. QED BY <2>1, <2>2 DEF CryptStep
<1>3. chain' \in Block /\ plain' \in Seq(Block) /\ cipher' \in Seq(Block)
  <2>1. CASE UNCHANGED <<chain, plain, cipher>>
    BY <2>1 DEF TypeOK
  <2>2. ASSUME n # 0, NEW p \in [1..n -> Block], NEW c \in [1..n -> Block], Processed(n, p, c)
        PROVE  chain' \in Block /\ plain' \in Seq(Block) /\ cipher' \in Seq(Block)
    <3>1. p \in Seq(Block) /\ c \in Seq(Block)
      OBVIOUS
    <3>2. plain \o p \in Seq(Block) /\ cipher \o c \in Seq(Block)
      BY <3>1 DEF TypeOK
    <3>3. c[n] \in Block
      BY <2>2
    <3>4. QED BY <2>2, <3>2, <3>3 DEF Processed
  <2>3. QED BY <2>1, <2>2 DEF CryptStep
<1>4. QED BY <1>1, <1>2, <1>3 DEF CryptStep, TypeOK

LEMMA TypeStep == TypeOK /\ [Next]_vars => TypeOK'
<1> SUFFICES ASSUME TypeOK, [Next]_vars PROVE TypeOK'
  OBVIOUS
<1>1. ASSUME NEW fn \in {"none", "new", "free", "set_state"}, Returns(fn, "OK") PROVE ret' \in Return
  BY <1>1, CipherAssumption DEF Returns, Return, Status, Null
<1>2. CASE Window
  BY <1>1, <1>2 DEF Window, TypeOK
<1>3. CASE zuc_aes_free
  BY <1>1, <1>3, RestartTyped, CipherAssumption DEF zuc_aes_free, TypeOK
<1>4. CASE zuc_aes_cbc_get_state
  BY <1>4 DEF zuc_aes_cbc_get_state, TypeOK, Return, Status, Null
<1>5. ASSUME NEW k \in Key, zuc_aes_new(k) PROVE TypeOK'
  BY <1>1, <1>5, RestartTyped, CipherAssumption DEF zuc_aes_new, TypeOK
<1>6. ASSUME NEW s \in Block, zuc_aes_cbc_set_state(s) PROVE TypeOK'
  BY <1>1, <1>6, RestartTyped DEF zuc_aes_cbc_set_state, TypeOK
<1>7. ASSUME NEW a \in Addr, NEW b \in Block, CallerWrites(a, b) PROVE TypeOK'
  BY <1>1, <1>7 DEF CallerWrites, TypeOK
<1>8. ASSUME NEW src \in 0..MemSize, NEW dst \in 0..MemSize, NEW n \in 0..MemSize,
             NEW whole \in BOOLEAN, ValidBuffer(src, n), ValidBuffer(dst, n),
             zuc_aes_cbc_encrypt(src, dst, n, whole) \/ zuc_aes_cbc_decrypt(src, dst, n, whole)
      PROVE  TypeOK'
  <2>1. CryptStep(src, dst, n)
    BY <1>8, CryptSteps DEF Valid
  <2>2. src \in Nat /\ dst \in Nat /\ n \in Nat
    BY MemAssumption
  <2>3. QED BY <2>1, <2>2, CryptTyped
<1>9. CASE UNCHANGED vars
  BY <1>9 DEF vars, TypeOK
<1>10. QED BY <1>2, <1>3, <1>4, <1>5, <1>6, <1>7, <1>8, <1>9 DEF Next

\* Every variable keeps its type; in particular the identifier of a handle
\* never names another key, and no key is left when the handle is gone.
THEOREM TypeCorrect == Spec => []TypeOK
<1>1. Init => TypeOK
  <2>1. <<>> \in Seq(Block)
    OBVIOUS
  <2>2. ASSUME Init PROVE ret \in Return
    BY <2>2, CipherAssumption DEF Init, Return, Status, Null
  <2>3. QED BY <2>1, <2>2, CipherAssumption DEF Init, TypeOK
<1>2. QED BY <1>1, TypeStep, PTL DEF Spec

-----------------------------------------------------------------------------
(* The stream *)

LEMMA RestartChained ==
    ASSUME NEW s, Restart(s)
    PROVE  CbcChained'
BY DEF Restart, CbcChained, Prev

LEMMA ConcatParts ==
    ASSUME NEW s \in Seq(Block), NEW t \in Seq(Block)
    PROVE  /\ Len(s \o t) = Len(s) + Len(t)
           /\ \A i \in 1..Len(s) : (s \o t)[i] = s[i]
           /\ \A i \in (Len(s) + 1)..(Len(s) + Len(t)) : (s \o t)[i] = t[i - Len(s)]
OBVIOUS

LEMMA ProcessedChained ==
    ASSUME TypeOK, CbcChained, NEW n \in Nat \ {0},
           NEW p \in [1..n -> Block], NEW c \in [1..n -> Block], Processed(n, p, c),
           UNCHANGED <<given, iv>>
    PROVE  CbcChained'
<1> DEFINE m == Len(cipher)
<1>1. m \in Nat /\ Len(plain) = m /\ plain \in Seq(Block) /\ cipher \in Seq(Block)
  BY DEF TypeOK, CbcChained
<1>2. p \in Seq(Block) /\ c \in Seq(Block) /\ Len(p) = n /\ Len(c) = n
  OBVIOUS
<1>3. /\ Len(plain') = m + n /\ Len(cipher') = m + n
      /\ \A i \in 1..m : plain'[i] = plain[i] /\ cipher'[i] = cipher[i]
      /\ \A i \in (m + 1)..(m + n) : plain'[i] = p[i - m] /\ cipher'[i] = c[i - m]
  <2>1. plain' = plain \o p /\ cipher' = cipher \o c
    BY DEF Processed
  <2>2. /\ Len(plain') = m + n
        /\ \A i \in 1..m : plain'[i] = plain[i]
        /\ \A i \in (m + 1)..(m + n) : plain'[i] = p[i - m]
    BY <1>1, <1>2, <2>1, ConcatParts
  <2>3. /\ Len(cipher') = m + n
        /\ \A i \in 1..m : cipher'[i] = cipher[i]
        /\ \A i \in (m + 1)..(m + n) : cipher'[i] = c[i - m]
    BY <1>1, <1>2, <2>1, ConcatParts
  <2>4. QED BY <2>2, <2>3
<1> HIDE DEF m
<1>4. \A i \in 1..m : Prev(i)' = Prev(i)
  BY <1>1, <1>3 DEF Prev
<1>5. \A i \in (m + 1)..(m + n) : Prev(i)' = Before(c, i - m)
  <2> SUFFICES ASSUME NEW i \in (m + 1)..(m + n) PROVE Prev(i)' = Before(c, i - m)
    OBVIOUS
  <2>1. CASE i = m + 1
    <3>1. Prev(i)' = Prev(i)
      BY <1>1, <1>3, <2>1 DEF Prev
    <3>2. chain = Prev(i)
      BY <2>1 DEF CbcChained, m
    <3>3. i - m = 1
      BY <1>1, <2>1
    <3>4. QED BY <3>1, <3>2, <3>3 DEF Before
  <2>2. CASE i # m + 1
    <3>1. i - 1 \in (m + 1)..(m + n) /\ i # 1 /\ i - m # 1 /\ (i - 1) - m = (i - m) - 1
      BY <1>1, <2>2
    <3>2. cipher'[i - 1] = c[(i - m) - 1]
      BY <1>3, <3>1
    <3>3. QED BY <3>1, <3>2 DEF Prev, Before
  <2>3. QED BY <2>1, <2>2
<1>6. ASSUME NEW i \in 1..(m + n) PROVE cipher'[i] = E[given'][X[plain'[i]][Prev(i)']]
  <2>1. CASE i \in 1..m
    BY <1>3, <1>4, <2>1 DEF CbcChained, m
  <2>2. CASE i \in (m + 1)..(m + n)
    <3>1. i - m \in 1..n
      BY <1>1, <2>2
    <3>2. c[i - m] = E[given][X[p[i - m]][Before(c, i - m)]]
      BY <3>1 DEF Processed
    <3>3. QED BY <1>3, <1>5, <2>2, <3>2
  <2>3. QED BY <1>1, <2>1, <2>2
<1>7. chain' = Prev(Len(cipher) + 1)'
  <2>1. chain' = c[n]
    BY DEF Processed
  <2>2. m + n \in (m + 1)..(m + n) /\ (m + n) - m = n /\ m + n + 1 # 1 /\ (m + n + 1) - 1 = m + n
    BY <1>1
  <2>3. cipher'[m + n] = c[n]
    BY <1>3, <2>2
  <2>4. QED BY <1>3, <2>1, <2>2, <2>3 DEF Prev
<1>8. QED BY <1>3, <1>6, <1>7 DEF CbcChained

\* Any sequence of encrypt and decrypt calls, split anywhere, in place or
\* not, with failed calls among them, is one CBC stream from the value last
\* set, and aes->chain continues it: for every block cipher.
THEOREM CallsMakeOneStream == Spec => []CbcChained
<1>1. Init => CbcChained
  BY DEF Init, CbcChained, Prev
<1>2. TypeOK /\ CbcChained /\ [Next]_vars => CbcChained'
  <2> SUFFICES ASSUME TypeOK, CbcChained, [Next]_vars PROVE CbcChained'
    OBVIOUS
  <2>1. ASSUME UNCHANGED <<given, chain, iv, plain, cipher>> PROVE CbcChained'
    BY <2>1 DEF CbcChained, Prev
  <2>2. CASE Window \/ zuc_aes_cbc_get_state \/ \E a \in Addr, b \in Block : CallerWrites(a, b)
    BY <2>1, <2>2 DEF Window, zuc_aes_cbc_get_state, CallerWrites
  <2>3. CASE zuc_aes_free \/ (\E k \in Key : zuc_aes_new(k)) \/ \E s \in Block : zuc_aes_cbc_set_state(s)
    BY <2>3, RestartChained DEF zuc_aes_free, zuc_aes_new, zuc_aes_cbc_set_state
  <2>4. ASSUME NEW src \in 0..MemSize, NEW dst \in 0..MemSize, NEW n \in 0..MemSize,
               NEW whole \in BOOLEAN, ValidBuffer(src, n), ValidBuffer(dst, n),
               zuc_aes_cbc_encrypt(src, dst, n, whole) \/ zuc_aes_cbc_decrypt(src, dst, n, whole)
        PROVE  CbcChained'
    <3>1. CryptStep(src, dst, n)
      BY <2>4, CryptSteps DEF Valid
    <3>2. CASE UNCHANGED <<chain, plain, cipher>>
      BY <2>1, <3>1, <3>2 DEF CryptStep
    <3>3. CASE n \in Nat \ {0} /\ \E p, c \in [1..n -> Block] : Processed(n, p, c)
      BY <3>1, <3>3, ProcessedChained DEF CryptStep
    <3>4. QED BY <3>1, <3>2, <3>3 DEF CryptStep
  <2>5. CASE UNCHANGED vars
    BY <2>1, <2>5 DEF vars
  <2>6. QED BY <2>2, <2>3, <2>4, <2>5 DEF Next
<1>3. QED BY <1>1, <1>2, TypeCorrect, PTL DEF Spec

-----------------------------------------------------------------------------
(* Buffers *)

\* What OverlapReported and InputSurvives say of one step.
BufferStep ==
    /\ OverlapReported'
    /\ ret'.fn = "crypt" /\ ret'.src # ret'.dst =>
         \A a \in Extent(ret'.src, ret'.n) \intersect Addr : mem'[a] = mem[a]

LEMMA NextKeepsBuffers == TypeOK /\ Next => BufferStep
<1> SUFFICES ASSUME TypeOK, Next PROVE BufferStep
  OBVIOUS
<1>1. ASSUME ret'.fn # "crypt" PROVE BufferStep
  BY <1>1 DEF BufferStep, OverlapReported
<1>2. CASE \/ Window \/ zuc_aes_free \/ zuc_aes_cbc_get_state
           \/ \E k \in Key : zuc_aes_new(k)
           \/ \E s \in Block : zuc_aes_cbc_set_state(s)
           \/ \E a \in Addr, b \in Block : CallerWrites(a, b)
  <2>1. ret'.fn # "crypt"
    BY <1>2 DEF Window, zuc_aes_free, zuc_aes_cbc_get_state, zuc_aes_new,
                zuc_aes_cbc_set_state, CallerWrites, Returns
  <2>2. QED BY <1>1, <2>1
<1>3. ASSUME NEW src \in 0..MemSize, NEW dst \in 0..MemSize, NEW n \in 0..MemSize,
             NEW whole \in BOOLEAN, ValidBuffer(src, n), ValidBuffer(dst, n),
             zuc_aes_cbc_encrypt(src, dst, n, whole) \/ zuc_aes_cbc_decrypt(src, dst, n, whole)
      PROVE  BufferStep
  <2>1. CryptStep(src, dst, n)
    BY <1>3, CryptSteps DEF Valid
  <2>2. PICK st \in Status : /\ CryptReturns(st, src, dst, n)
                             /\ st = "OVERLAP" => PartialOverlap(src, dst, n)
                             /\ st \in Failure \union {"OK"} => ~PartialOverlap(src, dst, n)
    BY <2>1 DEF CryptStep
  <2>3. ret'.fn = "crypt" /\ ret'.st = st /\ ret'.src = src /\ ret'.dst = dst /\ ret'.n = n
    BY <2>2 DEF CryptReturns
  <2>4. OverlapReported'
    BY <2>2, <2>3 DEF OverlapReported, Status
  <2>5. ASSUME src # dst, NEW a \in Extent(src, n) \intersect Addr PROVE mem'[a] = mem[a]
    <3>1. CASE UNCHANGED mem
      BY <3>1
    <3>2. CASE Good(src, dst, n) /\ \E w \in [1..n -> Block] : mem' = Write(dst, w)
      <4>1. src # Null /\ dst # Null /\ ~PartialOverlap(src, dst, n)
        BY <3>2 DEF Good, Addr, Null
      <4>2. a \notin Extent(dst, n)
        BY <2>5, <4>1 DEF PartialOverlap
      <4>3. QED BY <2>5, <3>2, <4>2, WriteTyped
    <3>3. QED BY <2>1, <3>1, <3>2 DEF CryptStep
  <2>6. QED BY <2>3, <2>4, <2>5 DEF BufferStep
<1>4. QED BY <1>2, <1>3 DEF Next

\* ZUC_ERR_OVERLAP is returned exactly for partial overlaps, at every address
\* and length that fit the address space.
THEOREM OverlapReportedAlways == Spec => []OverlapReported
<1>1. Init => OverlapReported
  BY DEF Init, OverlapReported
<1>2. TypeOK /\ OverlapReported /\ [Next]_vars => OverlapReported'
  <2>1. TypeOK /\ Next => OverlapReported'
    BY NextKeepsBuffers DEF BufferStep
  <2>2. OverlapReported /\ UNCHANGED vars => OverlapReported'
    BY DEF OverlapReported, vars, PartialOverlap, Extent
  <2>3. QED BY <2>1, <2>2
<1>3. QED BY <1>1, <1>2, TypeCorrect, PTL DEF Spec

\* A call given two buffers leaves the one it reads as it was.
THEOREM InputAlwaysSurvives == Spec => InputSurvives
<1> DEFINE A == ret'.fn = "crypt" /\ ret'.src # ret'.dst =>
                  \A a \in Extent(ret'.src, ret'.n) \intersect Addr : mem'[a] = mem[a]
<1>1. TypeOK /\ [Next]_vars => [A]_vars
  BY NextKeepsBuffers DEF BufferStep
<1>2. QED BY <1>1, TypeCorrect, PTL DEF Spec, InputSurvives

=============================================================================
