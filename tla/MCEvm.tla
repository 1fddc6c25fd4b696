------------------------------- MODULE MCEvm -------------------------------
(* Instances of Evm: 15-bit words of three bytes, a stack of eight           *)
(* elements, the gas costs of the source, and worlds of a contract "entry"   *)
(* that transactions call, a contract "callee" it calls and a sender.        *)
EXTENDS Evm, SequencesExt

Entry == 40
Callee == 41
Sender == 50
Missing == 60

\* Programs, as bytes.
Op(name) == <<Byte(name, 0, 0)>>
Num(name, n) == <<Byte(name, n, 0)>>
Data(v) == Byte("DATA", 0, v)
P(v) == <<Byte("PUSH", 3, 0), Data(v \div 1024), Data((v \div 32) % 32), Data(v % 32)>>
Pushes2(a, b) == P(b) \o P(a)
Pushes3(a, b, c) == P(c) \o P(b) \o P(a)
Then(name) == Op(name) \o Op("POP")

CallOf(type, to, value, gas) ==
  P(3) \o P(0) \o P(3) \o P(0)
  \o (IF type \in {"CALL", "CALLCODE"} THEN P(value) ELSE <<>>)
  \o P(to) \o P(gas) \o Op(type)

SetSlot(k, v) == Pushes2(k, v) \o Op("SSTORE")

MSIGNED == WORD \div 2
Chain(start, operand, names) ==
  P(start) \o FlattenSeq([i \in DOMAIN names |-> P(operand) \o Op(names[i])])

Calculate ==
  Chain(7, 3, <<"EXP", "ADD", "MUL", "SUB", "DIV", "MOD", "SIGNEXTEND", "LT", "GT", "EQ">>)
  \o Op("NOT") \o Op("ISZERO")

CalculateSigned ==
  Pushes2(MIN_SIGNED, WORD - 1) \o Op("SDIV") \o Pushes2(MIN_SIGNED, WORD - 1) \o Op("SMOD")
  \o Chain(WORD - 1, 2, <<"SLT", "SGT", "AND", "OR", "XOR", "BYTE", "SHL", "SHR", "SAR">>)

CalculateModulo ==
  Pushes3(WORD - 1, 5, 7) \o Op("ADDMOD") \o Pushes3(WORD - 1, 5, 7) \o Op("MULMOD")

Reads(names) == FlattenSeq([i \in DOMAIN names |-> Then(names[i])])

ReadEnvironment ==
  Reads(<<"ADDRESS", "ORIGIN", "CALLER", "CALLVALUE", "CALLDATASIZE", "CODESIZE",
          "RETURNDATASIZE", "GASLIMIT", "SELFBALANCE", "PC", "MSIZE", "GAS">>)

ReadBlock ==
  Reads(<<"GASPRICE", "COINBASE", "TIMESTAMP", "NUMBER", "PREVRANDAO", "CHAINID", "BASEFEE",
          "BLOBBASEFEE">>)
  \o P(3) \o Then("BLOCKHASH") \o P(0) \o Then("BLOBHASH")

UseMemory ==
  Pushes2(4, 9) \o Op("MSTORE") \o Pushes2(11, 9) \o Op("MSTORE8") \o P(13) \o Then("MLOAD")
  \o Pushes2(2, 5) \o Then("KECCAK256") \o P(1) \o Then("CALLDATALOAD")
  \o Pushes3(20, 0, 2) \o Op("CALLDATACOPY") \o Pushes3(25, 0, 4) \o Op("CODECOPY")
  \o Pushes3(30, 1, 7) \o Op("MCOPY") \o Pushes3(1, 0, 3) \o Op("RETURNDATACOPY")

UseStorage ==
  Pushes2(0, 6) \o Op("SSTORE") \o P(0) \o Then("SLOAD") \o Pushes2(0, 0) \o Op("SSTORE")
  \o P(1) \o Then("SLOAD") \o Pushes2(1, 8) \o Op("SSTORE") \o Pushes2(1, 5) \o Op("SSTORE")
  \o Pushes2(2, 4) \o Op("TSTORE") \o P(2) \o Then("TLOAD")

ReadAccounts ==
  P(Callee) \o Then("EXTCODEHASH") \o P(Callee) \o Then("BALANCE") \o P(Missing) \o Then("BALANCE")
  \o P(2000) \o Then("BALANCE") \o P(Callee) \o Then("EXTCODESIZE")
  \o P(Missing + 1) \o Then("EXTCODESIZE") \o P(Missing + 2) \o Then("EXTCODEHASH")
  \o P(5) \o P(0) \o P(2) \o P(Callee) \o Op("EXTCODECOPY")

Loop == Op("JUMPDEST") \o Pushes2(0, 9000) \o Then("KECCAK256") \o P(0) \o Op("JUMP")

\* JUMPDESTs behind data that reads like one; the first jump is taken or not.
Branch(taken) ==
  P(taken) \o P(17) \o Op("JUMPI")            \* bytes 0-8
  \o P(19) \o Op("JUMP")                      \* bytes 9-13
  \o <<Byte("PUSH", 1, 0), Byte("JUMPDEST", 0, 27)>> \o Op("POP")
  \o Op("JUMPDEST") \o Op("STOP") \o Op("JUMPDEST") \o P(15) \o Op("JUMP")

Deep(op) == FlattenSeq([i \in 1 .. MAX_STACK_SIZE |-> P(i)]) \o op

CallAndUse(type, value) ==
  CallOf(type, Callee, value, 32000) \o Op("POP") \o Pushes3(0, 0, 3) \o Op("RETURNDATACOPY")
  \o SetSlot(5, 1)

CallSelf(type, value) == CallOf(type, Entry, value, 30000) \o Op("STOP")

CallPrecompiles(first, gas) ==
  CallOf("CALL", first, 0, gas) \o CallOf("STATICCALL", first + 1, 0, gas)
  \o CallOf("CALLCODE", first + 2, 0, gas)

CreateOf(n) == P(n) \o P(0) \o P(1) \o Op("CREATE")
Create2Of(n) == P(9) \o P(n) \o P(0) \o P(60) \o Op("CREATE2")

EntryCodes ==
  {Calculate, CalculateSigned, CalculateModulo,
    ReadEnvironment, ReadBlock, UseMemory, UseStorage, ReadAccounts, Loop, Branch(0), Branch(1),
   Deep(P(1)), Deep(Op("CALLDATASIZE")), Deep(Num("DUP", 2)), Num("SWAP", 1), Op("ADD"),
   Pushes2(1, 2) \o Num("SWAP", 1) \o Op("PUSH0") \o Num("DUP", 3) \o Num("LOG", 2),
   CallOf("CALL", Missing, 0, 10),
   CreateOf(10) \o Create2Of(10) \o CreateOf(0), Create2Of(10) \o Create2Of(10),
   SetSlot(1, 9) \o Pushes2(0, 2) \o Op("REVERT"), SetSlot(1, 9) \o Op("INVALID"),
   P(Missing) \o Op("SELFDESTRUCT") \o SetSlot(1, 9), Pushes2(0, 5) \o Op("RETURN"),
   Pushes3(0, 0, 1500) \o Op("MCOPY"), P(3) \o Op("JUMP"), <<Byte("PUSH", 2, 0), Data(3)>>}
  \union {CallAndUse(type, value) : type \in CallOp, value \in {0, 2}}
  \union {CallPrecompiles(first, gas) : first \in {1, 4, 7}, gas \in {100, 8000}}
  \union {CallSelf(type, value) : type \in {"CALL", "STATICCALL"}, value \in {0, 2}}

CalleeCodes ==
  {<<>>, SetSlot(0, 3) \o SetSlot(0, 0), SetSlot(2, 7) \o Pushes2(0, 4) \o Op("REVERT"),
   Op("INVALID"), Pushes2(0, 3) \o Op("RETURN"),
   Pushes2(0, 1) \o Op("TSTORE") \o Pushes2(0, 3) \o Num("LOG", 0),
   P(Sender) \o Op("SELFDESTRUCT"), CallOf("CALL", Sender, 1, 50) \o SetSlot(3, 3),
   CallOf("DELEGATECALL", Entry, 0, 20), CreateOf(4)}

World(entry, callee) ==
  (Entry :> DbAccount(1, 40, entry, (1 :> 5)))
  @@ (Callee :> DbAccount(1, 7, callee, (0 :> 2)))
  @@ (Sender :> DbAccount(0, 90, NoCode, EmptyStorage))

Calls(entry) == \E i \in DOMAIN entry : entry[i].op \in CallOp

MCWorlds ==
  {World(entry, callee) : entry \in {e \in EntryCodes : Calls(e)}, callee \in CalleeCodes}
  \union {World(entry, <<>>) : entry \in EntryCodes}

Transaction(kind, gas_limit, data, init, access_list) ==
  [kind |-> kind, to |-> Entry, caller |-> Sender, value |-> 3, gas_limit |-> gas_limit,
   data_zeros |-> data, data_nonzeros |-> Len(init), init |-> init,
   access_list |-> access_list, blob_tx |-> FALSE, blobs |-> <<>>, blob_gasprice |-> 1,
   max_fee_per_blob_gas |-> 1]

Blob(price, versions) ==
  [Transaction("CALL", 21000, 0, <<>>, EmptyStorage) EXCEPT
     !.blob_tx = TRUE, !.blob_gasprice = price, !.blobs = versions]

InitCode == Pushes2(0, 3) \o Op("RETURN") \o Op("STOP")

MCTransactions ==
  {Transaction("CALL", 2300000, 2, <<>>, EmptyStorage),
   Transaction("CALL", 21000 + 2400, 0, <<>>, EmptyStorage),
   Transaction("CALL", 60000, 0, <<>>, Callee :> {0}),
   Transaction("CALL", 20000, 0, <<>>, EmptyStorage),
   Transaction("CREATE", 100000, 0, InitCode, EmptyStorage),
   Transaction("CREATE", 100000, 0, <<>>, EmptyStorage),
   Blob(2, <<1>>), Blob(1, <<2>>), Blob(1, <<1, 1>>), Blob(1, <<1>>)}

MCCodes == {InitCode, SetSlot(4, 1) \o Op("STOP")}

MCInputs == {[len |-> 0, ok |-> ok, b_size |-> 3, e_size |-> 1, e_bits |-> 2, m_size |-> 2,
              rounds |-> 12, flag |-> 1, undefined |-> 0] : ok \in BOOLEAN}

MCHashedAddress(x) ==
  IF x[1] = "create" THEN 128 + 8 * (x[2] % 64) + (x[3] % 8)
  ELSE 640 + 8 * (x[2] % 32) + (Len(x[4]) % 8)

MCDATA == {0, 11}
=============================================================================
