---------------------------- MODULE DeliveryKeys ----------------------------
(***************************************************************************)
(* The key pair of the delivery man in Params.h.  Database encrypts under  *)
(* DeliveryPublicKey; the client opens with its own copy of the secret     *)
(* key, DeliverySecretKey2 of its main.cpp, which has the same bytes.      *)
(***************************************************************************)

DeliveryPublicKey == <<
  195, 172, 142, 133, 197,   4, 192,  57, 176, 112, 131,  87, 147,  59,  42, 135, 131,  75,  31, 250,
   53,   0,  73,  69,  33, 124,  82, 195,  19, 133, 216, 121, 205,  20,  18, 106,  29,  25, 192, 236,
  192, 178,  63,  74, 197, 184,  64,  77, 133, 116, 149,  19, 202,  83, 185,  12,  85, 111, 161,  47,
  162,  50, 148, 205,  48, 174,  47,  83,  31, 141, 138, 192, 119, 163,  73,  71,   4,   3,  81, 153,
  180,  33,  87,  57, 227, 172,  86, 122, 100, 179, 238,  87, 179,   8,  71, 170,  77,  53,   7,  89,
   98, 116,  25,  41,  78, 137, 130,  20, 129, 107, 139, 123, 107,  54, 124, 227,   9,  13, 236,  29,
  177,  96,  61,  98,  55,  27, 166,  57,  79, 196, 187,  52,  74,  51,  24, 201,  26, 122, 236, 208,
   19,  18,  98, 124, 115,  33,  48, 128,   7,  28, 191, 118, 121,  44, 185,  65,  21, 234, 173, 139,
  249, 105,  95,  25, 170, 112, 124, 149,  65, 244, 174, 246, 177,  25, 112, 251,  56,  14,  34, 132,
   74,  35, 156, 226, 113, 174,  84,  36, 147,  19,  96,  45,  45,  86,   9, 108, 155,  71,  33, 242,
   52, 118, 181,  94,  68, 234,  24, 112,   9,  83, 100, 136, 141,  77,  40, 159, 182, 233,  24,  99,
  119,  81, 226, 123, 120, 246, 247,  74, 152,  88,  61, 174, 200,  16,  60, 178, 100, 164, 132,  68,
  106, 182, 145, 180,  97,  68,  77,  32, 157, 120, 113, 152, 227,  24,  24, 141,  53,  67,  18, 200,
  145, 135,  75,  39, 236, 177,  83, 174,  58,   1,  49, 193,  95, 203, 235,  21, 248,  38,  65,  58,
   99,   1, 168,  65, 158,   6, 156, 136,  12, 134, 128, 169,  90,  11,  89, 162, 203, 111,  96,  19,
  232,  28, 168,  98, 186,  66, 215,  49, 171,  48,  64,  58,  95,  75,  81, 241, 128, 192,  10, 105,
   15, 209, 185,  84,  29, 196,  58, 119,  23,  25, 254, 155,  77, 231,   9, 161, 201, 135, 129,  31,
  137,  69,  24, 200, 161, 112,  49,  56, 202, 201,   0, 106,  28, 160, 205, 211, 132,  34,   2,  61,
   51, 233, 149, 213,  59, 101,  66, 117,  73, 112,  64, 132,  87,  85, 142, 166, 170, 102, 255, 130,
  204, 250, 100, 201, 108,  73, 193, 245, 188, 169,  27, 124,  27,  90,   8, 106, 151, 247,  58,   4,
  155,  40,  77, 247, 108, 147, 133,  67,  20, 203, 184, 168, 212, 158,  48, 178, 149,  21, 185,  22,
   43, 203, 172, 155, 132,  30, 213, 164, 148, 109, 230,  92, 216,   9,   3,  30, 117,  84, 227, 242,
  186,  41,  52,  16,  52,  25,  45,  73, 224, 187, 105, 134,  15, 169, 209, 152,  68, 145,  53, 247,
  107, 151,  34, 249, 157, 242,  82,  16, 237, 135, 118, 101, 218, 125, 152, 136, 165, 135, 131,  89,
   55, 229,  10,   8,  60,  86, 128, 131, 156, 110, 231,  38,  39,  70, 106,  17, 172,  56,  23, 152,
   45, 146, 131, 159, 253, 117, 137,  72, 103, 134, 106, 162,  40,  18, 202, 152, 210,  37,  11,  90,
  114, 164, 153, 199, 104,  29,   4,  57, 138, 199, 137, 139, 115,  20,  46, 131,  24,  90, 121, 144,
  237,   7,  24,  17, 151, 207,  30, 200, 152, 119,  48, 111, 214, 155,  14, 175, 241, 161,   7,  75,
  206,  61, 150,  66,  15,  68,  35, 214,  51,  19,  61, 192, 157, 132, 113,  70, 248, 113,  10,   2,
  165,  35,  69,  40,  39, 176, 160,  75,  22,  22,  69,  84,  19,  24,  29, 115,  55,  48, 179,  57,
   80, 171,  98, 173, 245,  78, 112, 153,   2,  41, 202, 148,  90, 122,  75, 234, 197, 126,  68,  25,
  164,  30,  11,  46, 189, 121,  95, 186, 101,  69, 165, 197, 199, 228,  81,  53, 106,  96, 116,  68,
   10, 104, 247,  12,  87,  57,  86,  16, 113, 166, 103,  92,  64, 141, 120, 165,  68,  96, 192,  50,
   98,  10,  33,  18, 204,  43, 204,   0,  77, 154, 204, 161,  96, 179, 148,  37,  26,  16, 191,  86,
  157, 112, 163, 125, 229, 244, 113, 160, 137, 171, 130,  89,  86, 217, 163, 203,  54, 124, 160, 164,
   91,  37,  95, 212,  87, 112, 169,  60,  34, 210,  43, 223, 152, 105,  44,   2, 101,  79, 195, 100,
  130,  12,   3, 100,  53,  18, 176, 176, 147,  60,  70, 100, 109, 154, 117,  12,  88,  29, 137, 198,
  135, 143, 151,  26,  23, 118,  44,  71, 186,  44, 128, 230,  36, 105, 218, 165,  93, 243, 193, 195,
   85, 197, 208,  98,  25, 121, 103,  57,  71, 149,  94, 135, 215, 106, 230,   8,   6, 185,  44,   2,
   14,  37, 117,  53, 219, 198, 223,  23, 157, 241, 245,  28, 228, 134, 224,   2, 253,  77, 249, 144 >>

DeliverySecretKey == <<
  167,  21,  40,  97, 234,  51, 115,  59,  41,  11,  75,  11, 174, 162,  55, 177, 121,  39, 240,  16,
  200, 204,  67, 154, 145, 252, 147, 253, 161,  47, 134, 180,  52,  11, 179, 180, 166,  87, 191,  87,
  139,  37, 168,  60, 174, 162,  25,  77,  43, 202, 181, 130, 104,  62,  44,  27,  80,  27,  57,  24,
  119, 162, 144, 239,  40,  58, 154,  53, 146,   9, 118, 110, 196, 148, 139,  83, 120, 192,   0, 152,
  205,  54, 116,  20,  12,  49,  55, 149,   0, 102, 154,   2,  29, 196,  55, 147, 207, 230,   7, 235,
   82, 165,  13, 115, 142,  92, 203,  53,  92,  43,  55, 237, 176, 172,  49, 170, 161,  21, 145, 123,
  127, 101, 151, 174,  35, 111,  30,  52, 112, 122, 170,  27, 250, 242, 189, 208, 106, 107,  87, 115,
  201, 107, 156,  37,  56, 133, 129, 180,  26,  80, 129, 181,  14,  74,  56,  89,  33, 161,  87, 126,
  229, 102,  95,  67,  58, 132, 118, 124, 142, 240, 116, 232, 203, 145,  41, 212, 192, 241, 208,   1,
  244, 213,  25,  47, 162,  39, 233,  60, 203, 120, 124,  64, 110,  50, 176, 166, 249, 121, 251,  21,
   26, 197, 243,  74,  14,  17, 159, 164, 233, 190, 190, 211, 177,  32,  84, 127,  63, 130,  87,  81,
  194, 155, 228, 243, 198, 255,  54,  55, 114, 200,  78,  24, 112,  88, 180, 134,   7,   7, 180,  68,
   41,  18,   6, 237,  80, 133,   0, 204,  99, 185, 204,  67,  71, 197,  10,  60,  39,  51,   5, 151,
  174, 187, 114, 105,  27, 248, 116,  94, 166, 207, 152,  88, 159,  24,  44, 161, 168, 246,  44,  73,
   20,  77, 111, 242,  76, 200, 144, 203, 159, 229, 190, 238, 234,  26,  21, 107,  48,  90, 201,  21,
  188, 124,  27,  55,  60, 190, 159,  39, 181, 108, 172, 100, 151,  26,  78, 173,  49,  68, 205, 107,
   78, 182,  35, 197,  59,  51,  83, 241,  91,  82,  12,  82, 134, 156, 249,  80, 224, 229,  99, 189,
  112,  60,  62, 104, 135, 186, 136,  26, 107,  76,   1, 133, 153, 177,  49, 146,   7, 112, 219, 108,
   88, 144,  74, 153, 230, 131, 120,  60,  60, 102, 201,  41,   3, 166,  30,  54,  44, 199, 228,  55,
  168, 123, 116, 203, 191, 148,  56,  27, 129,  18, 238, 145, 113, 184, 121, 174,  31,  97, 121, 204,
   90, 188, 176,  35, 152, 180, 218, 191, 254,  52, 207, 118, 103, 184, 109, 236,  97, 204,  16,  62,
  175, 166, 163, 135, 132, 131, 172,   3,  87,  56, 199, 202, 141,  44,  29, 203,  74, 113, 154,  41,
   31, 184, 133,  36,  26, 219, 160, 123, 136,  18,  38,  49,  93, 115, 215, 143, 208, 199, 202,  35,
  124,  97,  71, 156, 135, 255, 202, 195,  40,  97,  43, 103, 152,  27, 158, 213, 189, 147,   1, 167,
   88, 249,  18, 122, 172,  42, 121, 203,  82, 234, 228, 116, 115,  19,   7, 202,  57,  91,  20, 187,
   22,  57, 228, 117, 115, 210, 123,  18,  81, 200,  75, 216, 175, 126, 124,  29, 232, 123,  14, 124,
  136, 112, 186, 155,  10,  20, 198,  72, 213,  25,  23, 104, 101,   7, 159,  35,  78,  26, 114,  87,
  197, 144, 178,   0, 120, 103, 192, 186,  65, 143,  28,  71,  89,  82,  32,  16, 186, 181, 150, 214,
    5,  11, 134,  65,  41,  91,  81,  56, 121,  85, 182, 147,  80,  49,  40, 120,  60, 103,  23, 251,
  154,   0, 151,  28,  67, 162, 114,  93, 151,   0, 132, 229, 210, 108, 195,  22,  75,  10,  22, 139,
  155,  49,   9,  94,  81, 101,  18, 102, 167, 206, 228,  23,  56, 192,  36, 254, 135, 161,  35, 242,
   64,  65, 136, 191, 183, 145,  12, 150, 209, 191, 126, 156,  95,  48, 165,  50, 197, 117, 103, 178,
   57, 101, 151,  12,  84,  54,  92, 170,  43, 227, 138, 120, 136,  19,  72, 242,  92, 100, 185, 151,
  160,  97,  61, 115, 194, 185, 129,  71,  73,  42,  70,  16, 110,  91, 158, 163,  57,  87, 246, 165,
   82, 160,   1,  49, 125,  26,  98,  29,  59, 160,  78, 112, 182,  73, 113, 175,   0,  68, 155,  39,
  124, 171, 145,  75, 168,  88, 171, 167,  74,  43, 151,  48,  23, 126,   2,  72,  54,  37, 117, 191,
  207,  23, 151, 199,  72, 134,  98,   4,  30, 207,  60, 133, 184,  72,  98, 253, 121,  10,  22,  12,
   73, 197, 140, 197, 116, 106,  48,   8,  39, 180, 254,  22,  34, 254, 164, 186,  14,  56, 164, 218,
  218, 101,  41,  21, 193, 226, 176, 118 >>
=============================================================================
